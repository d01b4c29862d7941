----------------------------- MODULE ContractLogs -----------------------------
(***************************************************************************)
(* make_contract_event_attributes: a contract's log item of ledger version *)
(* 9 holds the flat bytes of an event struct, without the zeros it ends    *)
(* in; the decoder pads them and slices the fields out at fixed offsets.   *)
(* An optional field is <<>> or <<value>>, the default of bytes is <<>>.   *)
(* Field widths are scaled down, keeping their order: an amount is shorter *)
(* than a key, so a layout without one of its keys is below the minimum.   *)
(***************************************************************************)
EXTENDS Integers, SequencesExt

BYTES_32_SIZE == 3
UINT_128_SIZE == 2
CIPHERTEXT == 4
PAYLOAD == 4
EITHER_SIZE == 1 + 2 * BYTES_32_SIZE
MAYBE_512_SIZE == 1 + CIPHERTEXT

SHIELDED_RECEIVE_SIZE == BYTES_32_SIZE + MAYBE_512_SIZE + 1 + BYTES_32_SIZE
SHIELDED_MINT_SIZE == 2 * BYTES_32_SIZE + 1 + UINT_128_SIZE
SHIELDED_BURN_SIZE == BYTES_32_SIZE + 1 + UINT_128_SIZE
UNSHIELDED_SPEND_SIZE == EITHER_SIZE + 2 * BYTES_32_SIZE + UINT_128_SIZE
UNSHIELDED_MINT_SIZE == 2 * BYTES_32_SIZE + UINT_128_SIZE
UNSHIELDED_BURN_SIZE == EITHER_SIZE + BYTES_32_SIZE + UINT_128_SIZE
MISC_SIZE == BYTES_32_SIZE + PAYLOAD

----------------------------------------------------------------------------
(* The Compact side.  An event is [type, fields, wire]: its fields, each with *)
(* its kind, and those it is written with, which are fewer in a superseded    *)
(* layout.                                                                    *)

Zeros(n) == [i \in 1 .. n |-> 0]
UintBytes(n) == <<n % 256, n \div 256>>

FieldBytes(field) ==
    CASE field.kind = "bytes" -> field.value
      [] field.kind = "uint"  -> UintBytes(field.value)
      [] field.kind = "maybe" -> IF field.value = <<>> THEN Zeros(1 + field.size)
                                 ELSE <<1>> \o field.value[1]
      [] field.kind = "maybeUint" -> IF field.value = <<>> THEN Zeros(1 + UINT_128_SIZE)
                                     ELSE <<1>> \o UintBytes(field.value[1])
      [] field.kind = "either" -> IF field.value.left
                                  THEN <<1>> \o field.value.key \o Zeros(BYTES_32_SIZE)
                                  ELSE <<0>> \o Zeros(BYTES_32_SIZE) \o field.value.key

Flat(fields) == FlattenSeq([i \in DOMAIN fields |-> FieldBytes(fields[i])])

\* ValueAtom strips trailing zeros.
Stripped(bytes) == SubSeq(bytes, 1, SelectLastInSeq(bytes, LAMBDA b : b # 0))

\* The fields of a type, in the order of its struct.
Layout(type) ==
    CASE type = "ShieldedSpend" -> <<"key">>
      [] type = "ShieldedReceive" -> <<"key", "ciphertext", "maybeKey">>
      [] type = "ShieldedMint" -> <<"key", "key", "maybeUint">>
      [] type = "ShieldedBurn" -> <<"key", "maybeUint">>
      [] type \in {"UnshieldedSpend", "UnshieldedReceive"} -> <<"either", "key", "key", "uint">>
      [] type = "UnshieldedMint" -> <<"key", "key", "uint">>
      [] type = "UnshieldedBurn" -> <<"either", "key", "uint">>
      [] type = "Misc" -> <<"key", "payload">>
      [] OTHER -> <<>>

Bytes(n) == [1 .. n -> 0 .. 255]
Uint == 0 .. 256 * 256 - 1

\* A value that is there, or not.
Optional(v, S) == v = <<>> \/ (v = <<v[1]>> /\ v[1] \in S)

Fits(field, as) ==
    CASE as = "key" -> field.kind = "bytes" /\ field.value \in Bytes(BYTES_32_SIZE)
      [] as = "payload" -> field.kind = "bytes" /\ field.value \in Bytes(PAYLOAD)
      [] as = "uint" -> field.kind = "uint" /\ field.value \in Uint
      [] as = "maybeUint" -> field.kind = "maybeUint" /\ Optional(field.value, Uint)
      [] as = "maybeKey" -> /\ field.kind = "maybe" /\ field.size = BYTES_32_SIZE
                            /\ Optional(field.value, Bytes(BYTES_32_SIZE))
      [] as = "ciphertext" -> /\ field.kind = "maybe" /\ field.size = CIPHERTEXT
                              /\ Optional(field.value, Bytes(CIPHERTEXT))
      [] as = "either" -> /\ field.kind = "either"
                          /\ field.value \in [left : BOOLEAN, key : Bytes(BYTES_32_SIZE)]

\* An event as contracts write it, in the current layout or in one without the
\* domain of a spend or receive.
IsEvent(e) ==
    LET layout == Layout(e.type) IN
    /\ Len(e.fields) = Len(layout) /\ e.fields = [i \in DOMAIN layout |-> e.fields[i]]
    /\ \A i \in DOMAIN layout : Fits(e.fields[i], layout[i])
    /\ \/ e.wire = e.fields
       \/ /\ e.type \in {"UnshieldedSpend", "UnshieldedReceive"}
          /\ e.wire = <<e.fields[1], e.fields[3], e.fields[4]>>

LogItem(e) == [type |-> e.type, cell |-> TRUE, atoms |-> <<Stripped(Flat(e.wire))>>]

----------------------------------------------------------------------------
(* The decoder *)

\* Faulty: short atoms are padded like all others.
extract_flat_bytes_unbounded(item, min, max) ==
    IF item.cell /\ Len(item.atoms) = 1 /\ Len(item.atoms[1]) <= max
    THEN item.atoms[1] \o Zeros(max - Len(item.atoms[1]))
    ELSE <<>>

\* <<>> stands for None: no event is empty.
extract_flat_bytes(item, min, max) ==
    IF item.cell /\ Len(item.atoms) = 1 /\ Len(item.atoms[1]) \in min .. max
    THEN item.atoms[1] \o Zeros(max - Len(item.atoms[1]))
    ELSE <<>>

take_bytes(b, offset, len) ==
    IF b = <<>> THEN <<>> ELSE SubSeq(b, offset + 1, offset + len)

take_uint_128_le(b, offset) ==
    IF b = <<>> THEN 0 ELSE b[offset + 1] + 256 * b[offset + 2]

take_maybe_bytes(b, offset, len) ==
    IF b = <<>> \/ b[offset + 1] = 0 THEN <<>> ELSE <<take_bytes(b, offset + 1, len)>>

take_maybe_uint_128_le(b, offset) ==
    IF b = <<>> \/ b[offset + 1] = 0 THEN <<>> ELSE <<take_uint_128_le(b, offset + 1)>>

take_either_address(b, offset) ==
    LET left == b = <<>> \/ b[offset + 1] # 0 IN
    [left |-> left,
     key |-> take_bytes(b, offset + 1 + IF left THEN 0 ELSE BYTES_32_SIZE, BYTES_32_SIZE)]

ShieldedSpend(item) ==
    LET b == extract_flat_bytes(item, BYTES_32_SIZE, BYTES_32_SIZE)
    IN  <<take_bytes(b, 0, BYTES_32_SIZE)>>

ShieldedReceive(item) ==
    LET b == extract_flat_bytes(item, BYTES_32_SIZE, SHIELDED_RECEIVE_SIZE)
    IN  <<take_bytes(b, 0, BYTES_32_SIZE),
          take_maybe_bytes(b, BYTES_32_SIZE, CIPHERTEXT),
          take_maybe_bytes(b, BYTES_32_SIZE + MAYBE_512_SIZE, BYTES_32_SIZE)>>

ShieldedMint(item) ==
    LET b == extract_flat_bytes(item, 2 * BYTES_32_SIZE, SHIELDED_MINT_SIZE)
    IN  <<take_bytes(b, 0, BYTES_32_SIZE), take_bytes(b, BYTES_32_SIZE, BYTES_32_SIZE),
          take_maybe_uint_128_le(b, 2 * BYTES_32_SIZE)>>

ShieldedBurn(item) ==
    LET b == extract_flat_bytes(item, BYTES_32_SIZE, SHIELDED_BURN_SIZE)
    IN  <<take_bytes(b, 0, BYTES_32_SIZE), take_maybe_uint_128_le(b, BYTES_32_SIZE)>>

\* UnshieldedSpend with its sender, UnshieldedReceive with its recipient.
UnshieldedSpend(item) ==
    LET b == extract_flat_bytes(item, UNSHIELDED_SPEND_SIZE - UINT_128_SIZE,
                                UNSHIELDED_SPEND_SIZE)
    IN  <<take_either_address(b, 0), take_bytes(b, EITHER_SIZE, BYTES_32_SIZE),
          take_bytes(b, EITHER_SIZE + BYTES_32_SIZE, BYTES_32_SIZE),
          take_uint_128_le(b, EITHER_SIZE + 2 * BYTES_32_SIZE)>>

UnshieldedMint(item) ==
    LET b == extract_flat_bytes(item, UNSHIELDED_MINT_SIZE - UINT_128_SIZE,
                                UNSHIELDED_MINT_SIZE)
    IN  <<take_bytes(b, 0, BYTES_32_SIZE), take_bytes(b, BYTES_32_SIZE, BYTES_32_SIZE),
          take_uint_128_le(b, 2 * BYTES_32_SIZE)>>

UnshieldedBurn(item) ==
    LET b == extract_flat_bytes(item, UNSHIELDED_BURN_SIZE - UINT_128_SIZE,
                                UNSHIELDED_BURN_SIZE)
    IN  <<take_either_address(b, 0), take_bytes(b, EITHER_SIZE, BYTES_32_SIZE),
          take_uint_128_le(b, EITHER_SIZE + BYTES_32_SIZE)>>

Misc(item) ==
    LET b == extract_flat_bytes(item, BYTES_32_SIZE, MISC_SIZE)
    IN  <<take_bytes(b, 0, BYTES_32_SIZE), take_bytes(b, BYTES_32_SIZE, PAYLOAD)>>

\* Paused and Unpaused carry nothing.
make_contract_event_attributes(item) ==
    CASE item.type = "ShieldedSpend"     -> ShieldedSpend(item)
      [] item.type = "ShieldedReceive"   -> ShieldedReceive(item)
      [] item.type = "ShieldedMint"      -> ShieldedMint(item)
      [] item.type = "ShieldedBurn"      -> ShieldedBurn(item)
      [] item.type = "UnshieldedSpend"   -> UnshieldedSpend(item)
      [] item.type = "UnshieldedReceive" -> UnshieldedSpend(item)
      [] item.type = "UnshieldedMint"    -> UnshieldedMint(item)
      [] item.type = "UnshieldedBurn"    -> UnshieldedBurn(item)
      [] item.type = "Misc"              -> Misc(item)
      [] OTHER                           -> <<>>
=============================================================================
