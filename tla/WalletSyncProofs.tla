--------------------------- MODULE WalletSyncProofs ---------------------------
(***************************************************************************)
(* For every chain, retention, page size and set of clients: a ledger      *)
(* state is loaded and walked only while nobody changes the arena and      *)
(* while it is whole, the event feeds lose, repeat and misjudge no event,  *)
(* and a shielded sync is sent all that its key decrypts, once, whatever   *)
(* the pipeline and other requests do between two reads of a request.      *)
(***************************************************************************)
EXTENDS WalletSync, FiniteSetTheorems, SequenceTheorems, NaturalsInduction,
        WellFoundedInduction, TLAPS

(* Who changes what *)

\* A client's request leaves the pipeline and the other clients alone.
Frame(c) ==
    /\ UNCHANGED pipeline
    /\ DOMAIN req' = Client /\ DOMAIN mem' = Client
    /\ \A d \in Client \ {c} : req'[d] = req[d] /\ mem'[d] = mem[d]

LEMMA GoesFrame ==
    ASSUME NEW c \in Client, NEW from, NEW r, DOMAIN req = Client, DOMAIN mem = Client,
           Goes(c, from, r)
    PROVE  Frame(c) /\ req[c].pc = from /\ req'[c] = r /\ mem'[c] = mem[c]
BY DEF Goes, Frame

LEMMA AnswersFrame ==
    ASSUME NEW c \in Client, NEW from, NEW outcome, NEW m,
           DOMAIN req = Client, DOMAIN mem = Client, Answers(c, from, outcome, m)
    PROVE  /\ Frame(c) /\ req[c].pc = from /\ mem'[c] = m
           /\ req'[c] = IF outcome = "ok" THEN Idle ELSE [req[c] EXCEPT !.pc = outcome]
BY DEF Answers, Frame

LEMMA RequestFrame ==
    ASSUME NEW c \in Client, DOMAIN req = Client, DOMAIN mem = Client, Ask(c) \/ Serve(c)
    PROVE  Frame(c)
<1>1. CASE Ask(c)
    BY <1>1, GoesFrame DEF Ask
<1>2. CASE ReadTip(c)
    BY <1>2, GoesFrame, AnswersFrame DEF ReadTip
<1>3. CASE ScanLock(c) \/ ScanNext(c) \/ HoldDecode(c) \/ Decode(c) \/ CommitScan(c)
    BY <1>3, GoesFrame DEF ScanLock, ScanNext, HoldDecode, Decode, CommitScan
<1>4. CASE ScanEnd(c) \/ ReadWindow(c) \/ Hold(c)
    BY <1>4, GoesFrame, AnswersFrame DEF ScanEnd, ReadWindow, Hold
<1>5. CASE Walk(c)
  <2>1. PICK outcome, m : Answers(c, "walk", outcome, m)
    BY <1>5, Zenon DEF Walk
  <2> QED
    BY <2>1, AnswersFrame
<1>6. CASE Parameters(c)
    BY <1>6, AnswersFrame DEF Parameters
<1>7. CASE FeedNext(c)
  <2>1. \/ \E r : Goes(c, "feed", r)
        \/ \E outcome, m : Answers(c, "feed", outcome, m)
    BY <1>7 DEF FeedNext, FeedPage
  <2> QED
    BY <2>1, GoesFrame, AnswersFrame
<1>8. CASE HoldJudge(c) \/ Judge(c)
    BY <1>8, GoesFrame DEF HoldJudge, Judge
<1>9. CASE ReadHighest(c)
    BY <1>9, GoesFrame DEF ReadHighest
<1>10. CASE DustNext(c)
  <2>1. \/ \E r : Goes(c, "dust", r)
        \/ \E outcome, m : Answers(c, "dust", outcome, m)
    BY <1>10 DEF DustNext
  <2> QED
    BY <2>1, GoesFrame, AnswersFrame
<1> QED
    BY <1>1, <1>2, <1>3, <1>4, <1>5, <1>6, <1>7, <1>8, <1>9, <1>10
    DEF Serve, Shielded, Feed

LEMMA IndexFrame == Index => UNCHANGED <<asks, scans, req, mem>>
BY DEF Index, FetchBlock, Apply, Commit, Unpersist, Unlock, Collect, Sweep, Swept, Pipe

(* The pipeline *)

\* The partitions of a batch, in the order of their last rows.
LEMMA PartitionNames ==
    /\ DOMAIN Partitions = 1 .. 5
    /\ Partitions[1] = "events" /\ Partitions[2] = "blocks" /\ Partitions[3] = "tip"
    /\ Partitions[4] = "ids" /\ Partitions[5] = "window"
    /\ ToSet(Partitions) = {"events", "blocks", "tip", "ids", "window"}
BY DEF Partitions, ToSet

LEMMA InitPipeline == Init => PipelineInv
<1> SUFFICES ASSUME Init PROVE PipelineInv
    OBVIOUS
<1>1. window \in Seq(Nat) /\ Len(window) = 0 /\ DOMAIN window = {}
    BY DEF Init
<1>2. shown \in [ToSet(Partitions) -> 0 .. MaxHeight] /\ shown["window"] = 0
    BY PartitionNames, MaxHeightAssumption DEF Init
<1>3. \A p \in DOMAIN shown : shown[p] = 0
    BY DEF Init
<1>4. \A i \in DOMAIN Partitions : Partitions[i] \in DOMAIN shown
    BY <1>2, PartitionNames
<1> QED
    BY <1>1, <1>2, <1>3, <1>4, PartitionNames, MaxHeightAssumption
    DEF Init, PipelineInv, Changing, Wanting

\* The next block's state is rooted before its batch becomes visible.
LEMMA ApplyPipeline == PipelineInv /\ Apply => PipelineInv'
<1> SUFFICES ASSUME PipelineInv, Apply PROVE PipelineInv'
    OBVIOUS
<1> DEFINE top == shown["window"]
<1>1. top \in 0 .. MaxHeight /\ Len(window) \in Nat
    BY PartitionNames DEF PipelineInv
<1>2. /\ pc = "wantApply" /\ pc' = "apply" /\ UNCHANGED <<shown, window>>
      /\ rooted' = rooted \cup {top + 1} /\ arena' = arena \cup {top + 1}
    BY DEF Apply, Pipe
<1>3. (top - Len(window) + 1) .. top \subseteq rooted
    BY <1>2 DEF PipelineInv
<1>4. (top - Len(window) + 1) .. (top + 1) \subseteq rooted'
    BY <1>1, <1>2, <1>3, MaxHeightAssumption
<1>5. rooted' \subseteq arena'
    BY <1>2 DEF PipelineInv
<1> QED
    BY <1>2, <1>4, <1>5 DEF PipelineInv, Changing, Wanting

LEMMA FetchPipeline == PipelineInv /\ FetchBlock => PipelineInv'
BY PartitionNames, MaxHeightAssumption
DEF PipelineInv, FetchBlock, Pipe, Changing, Wanting

\* Partitions become visible in order, and the window's comes last.
LEMMA CommitPipeline == PipelineInv /\ Commit => PipelineInv'
<1> SUFFICES ASSUME PipelineInv, Commit PROVE PipelineInv'
    OBVIOUS
<1> USE PartitionNames, MaxHeightAssumption, RetentionAssumption
<1> DEFINE top == shown["window"]
<1>1. PICK p \in 1 .. 5 :
          /\ shown[Partitions[p]] = top
          /\ \A i \in 1 .. p - 1 : shown[Partitions[i]] = top + 1
          /\ shown' = [shown EXCEPT ![Partitions[p]] = @ + 1]
          /\ pc \in {"apply", "commit"}
          /\ pc' = IF Partitions[p] # "window" THEN "commit"
                   ELSE IF Len(window) >= Retention THEN "wantUnpersist" ELSE "gc"
    BY DEF Commit
<1>2. top \in 0 .. MaxHeight /\ top < MaxHeight
    BY <1>1 DEF PipelineInv
<1>3. shown' \in [ToSet(Partitions) -> 0 .. MaxHeight]
  <2>1. top + 1 \in 0 .. MaxHeight
    BY <1>2
  <2>2. shown \in [ToSet(Partitions) -> 0 .. MaxHeight]
    BY DEF PipelineInv
  <2>3. shown' = [shown EXCEPT ![Partitions[p]] = top + 1]
    BY <1>1
  <2> QED
    BY <2>1, <2>2, <2>3
<1>4. /\ shown'[Partitions[p]] = top + 1
      /\ \A q \in DOMAIN shown : q # Partitions[p] => shown'[q] = shown[q]
    BY <1>1, SMTT(30) DEF PipelineInv
<1>5. UNCHANGED <<arena, rooted>>
    BY DEF Commit
<1>6. CASE p # 5
  <2>1. pc' = "commit" /\ window' = window /\ shown'["window"] = top
    BY <1>1, <1>4, <1>6, SMTT(30) DEF Commit, PipelineInv
  <2>2. \A q \in DOMAIN shown' : shown'[q] \in {top, top + 1}
    BY <1>3, <1>4 DEF PipelineInv
  <2>3. \A i, j \in DOMAIN Partitions :
            i <= j => shown'[Partitions[i]] >= shown'[Partitions[j]]
    <3> SUFFICES ASSUME NEW i \in 1 .. 5, NEW j \in 1 .. 5, i <= j
                 PROVE shown'[Partitions[i]] >= shown'[Partitions[j]]
        OBVIOUS
    <3>1. shown[Partitions[i]] >= shown[Partitions[j]]
        BY DEF PipelineInv
    <3>2. Partitions[i] \in DOMAIN shown /\ Partitions[j] \in DOMAIN shown
        BY SMTT(30) DEF PipelineInv
    <3>3. \A k \in 1 .. 5 : Partitions[k] = Partitions[p] => k = p
        OBVIOUS
    <3>4. shown[Partitions[i]] \in 0 .. MaxHeight /\ shown[Partitions[j]] \in 0 .. MaxHeight
        BY <3>2 DEF PipelineInv
    <3>5. shown[Partitions[j]] \in {top, top + 1}
        BY <3>2 DEF PipelineInv
    <3>6. CASE i = p
        BY <1>2, <1>4, <3>2, <3>3, <3>5, <3>6
    <3>7. CASE i # p /\ j = p
        BY <1>1, <1>2, <1>4, <3>2, <3>3, <3>7
    <3>8. CASE i # p /\ j # p
        BY <1>4, <3>1, <3>2, <3>3, <3>8
    <3> QED
        BY <3>6, <3>7, <3>8
  <2>4. pc \in {"apply", "commit"}
    BY <1>1
  <2> QED
    BY <2>1, <2>2, <2>3, <2>4, <1>2, <1>3, <1>5 DEF PipelineInv, Changing, Wanting
<1>7. CASE p = 5
  <2>1. shown'["window"] = top + 1 /\ window' = Append(window, top + 1)
    BY <1>1, <1>4, <1>7 DEF Commit
  <2>2. \A q \in DOMAIN shown' : shown'[q] = top + 1
    <3> SUFFICES ASSUME NEW q \in DOMAIN shown' PROVE shown'[q] = top + 1
        OBVIOUS
    <3>1. PICK i \in 1 .. 5 : q = Partitions[i]
        BY <1>3
    <3> QED
        BY <3>1, <1>1, <1>3, <1>4, <1>7 DEF PipelineInv
  <2>3. window \in Seq(Nat) /\ Len(window) \in Nat
    BY DEF PipelineInv
  <2>4. window' \in Seq(Nat) /\ Len(window') = Len(window) + 1
    BY <1>2, <2>1, <2>3
  <2>5. \A i \in DOMAIN window' : window'[i] = top + 1 - Len(window') + i
    <3> SUFFICES ASSUME NEW i \in 1 .. Len(window) + 1
                 PROVE window'[i] = top + 1 - Len(window') + i
        BY <2>3, <2>4
    <3>1. CASE i = Len(window) + 1
        BY <1>2, <2>1, <2>3, <2>4, <3>1
    <3>2. CASE i \in 1 .. Len(window)
      <4>1. window'[i] = window[i]
        BY <2>1, <2>3, <3>2
      <4>2. window[i] = top - Len(window) + i
        BY <2>3, <3>2, SMTT(30) DEF PipelineInv
      <4> QED
        BY <4>1, <4>2, <1>2, <2>3, <2>4, <3>2, SMTT(30)
    <3> QED
        BY <3>1, <3>2, <2>3
  <2>6. pc' = IF Len(window) >= Retention THEN "wantUnpersist" ELSE "gc"
    BY <1>1, <1>7
  <2>7. /\ Len(window) <= top /\ (Len(window) = top \/ Len(window) >= Retention)
        /\ (top - Len(window) + 1) .. (top + 1) \subseteq rooted /\ rooted \subseteq arena
    BY <1>1 DEF PipelineInv
  <2>8. (top + 1 - Len(window') + 1) .. (top + 1) \subseteq rooted
    BY <1>2, <2>3, <2>4, <2>7, SMTT(30)
  <2>9. \A i, j \in DOMAIN Partitions : shown'[Partitions[i]] >= shown'[Partitions[j]]
    BY <1>2, <1>3, <2>2
  <2> QED
    <3>1. rooted' \subseteq arena' /\ Len(window') <= top + 1
        BY <1>5, <2>3, <2>4, <2>7, <1>2, SMTT(30)
    <3>2. Len(window') = top + 1 \/ Len(window') >= Retention
        BY <2>3, <2>4, <2>7, <1>2
    <3>3. pc' \in {"wantUnpersist", "gc"} /\ (pc' = "wantUnpersist" => Len(window') > Retention)
        BY <2>3, <2>4, <2>6
    <3>4. pc' \in Changing \cup Wanting \cup {"fetch", "gc"}
        BY <3>3 DEF Wanting
    <3>5. pc' \notin {"apply", "commit", "wantApply"}
        BY <3>3
    <3>6. \A q \in DOMAIN shown' : shown'[q] = shown'["window"]
        BY <2>1, <2>2
    <3>7. (shown'["window"] - Len(window') + 1) .. shown'["window"] \subseteq rooted'
        BY <2>1, <2>3, <2>4, <2>8, <1>2, <1>5, SMTT(30)
    <3>8. \A i \in DOMAIN window' : window'[i] = shown'["window"] - Len(window') + i
      <4> SUFFICES ASSUME NEW i \in DOMAIN window'
                   PROVE window'[i] = shown'["window"] - Len(window') + i
          OBVIOUS
      <4>1. i \in Int /\ Len(window') \in Int
          BY <2>4
      <4>2. window'[i] = top + 1 - Len(window') + i
          BY <2>5
      <4> QED
          BY <4>1, <4>2, <2>1, <1>2, SMTT(30)
    <3>9. Len(window') <= shown'["window"]
          /\ (Len(window') = shown'["window"] \/ Len(window') >= Retention)
        BY <2>1, <3>1, <3>2
    <3> HIDE DEF top
    <3> QED
        BY <3>1, <3>3, <3>4, <3>5, <3>6, <3>7, <3>8, <3>9, <2>4, <2>9, <1>3
        DEF PipelineInv
<1> QED
    BY <1>6, <1>7

\* The oldest state of the window is the only one to lose its root.
LEMMA UnpersistPipeline == PipelineInv /\ Unpersist => PipelineInv'
<1> SUFFICES ASSUME PipelineInv, Unpersist PROVE PipelineInv'
    OBVIOUS
<1> USE PartitionNames, MaxHeightAssumption, RetentionAssumption
<1> DEFINE top == shown["window"]
<1>1. /\ window \in Seq(Nat) /\ Len(window) \in Nat /\ Len(window) > Retention
      /\ \A i \in 1 .. Len(window) : window[i] = top - Len(window) + i
    BY DEF PipelineInv, Unpersist, Pipe
<1>2. /\ window' = Tail(window) /\ rooted' = rooted \ {window[1]} /\ pc' = "unpersist"
      /\ UNCHANGED <<shown, arena>> /\ pc = "wantUnpersist"
    BY <1>1 DEF Unpersist, Pipe
<1>3. /\ window' \in Seq(Nat) /\ Len(window') = Len(window) - 1
      /\ \A i \in 1 .. Len(window') : window'[i] = window[i + 1]
    BY <1>1, <1>2
<1>4. top \in Nat
    BY DEF PipelineInv
<1>5. \A i \in DOMAIN window' : window'[i] = top - Len(window') + i
    <2> SUFFICES ASSUME NEW i \in 1 .. Len(window')
                 PROVE window'[i] = top - Len(window') + i
        BY <1>3
    <2>1. i + 1 \in 1 .. Len(window) /\ window'[i] = window[i + 1]
        BY <1>1, <1>3
    <2>2. window[i + 1] = top - Len(window) + (i + 1)
        BY <1>1, <2>1
    <2> QED
      <3>1. window'[i] = top - Len(window) + (i + 1)
        BY <2>1, <2>2
      <3>2. Len(window') = Len(window) - 1
        BY <1>3
      <3> HIDE DEF top
      <3> QED
        BY <3>1, <3>2, <1>1, <1>4
<1>6. window[1] = top - Len(window) + 1
    BY <1>1, RetentionAssumption
<1>7. (top - Len(window') + 1) .. top \subseteq rooted'
    BY <1>1, <1>2, <1>3, <1>4, <1>6, SMTT(30) DEF PipelineInv
<1> QED
    BY <1>1, <1>2, <1>3, <1>4, <1>5, <1>7 DEF PipelineInv, Changing, Wanting

LEMMA UnlockPipeline == PipelineInv /\ (Unlock \/ Collect \/ Swept) => PipelineInv'
BY PartitionNames, MaxHeightAssumption
DEF PipelineInv, Unlock, Collect, Swept, Pipe, Changing, Wanting

LEMMA SweepPipeline == PipelineInv /\ Sweep => PipelineInv'
BY PartitionNames, MaxHeightAssumption
DEF PipelineInv, Sweep, Pipe, Changing, Wanting

LEMMA PipelineStep == PipelineInv /\ RequestInv /\ [Next]_vars => PipelineInv'
<1> SUFFICES ASSUME PipelineInv, RequestInv, [Next]_vars PROVE PipelineInv'
    OBVIOUS
<1>1. CASE Index
    BY <1>1, FetchPipeline, ApplyPipeline, CommitPipeline, UnpersistPipeline,
       UnlockPipeline, SweepPipeline DEF Index
<1>2. CASE UNCHANGED pipeline
    BY <1>2 DEF PipelineInv, pipeline
<1>3. ASSUME NEW c \in Client, Ask(c) \/ Serve(c) PROVE UNCHANGED pipeline
    BY <1>3, RequestFrame DEF RequestInv, Frame
<1> QED
    BY <1>1, <1>2, <1>3 DEF Next, vars

\* What is visible stays visible.
LEMMA VisibleGrows ==
    ASSUME PipelineInv, Index
    PROVE  \A p \in ToSet(Partitions) :
              shown'[p] \in 0 .. MaxHeight /\ shown[p] \in Nat /\ shown[p] <= shown'[p]
<1>1. \A p \in ToSet(Partitions) : shown[p] \in Nat /\ shown[p] \in 0 .. MaxHeight
    BY MaxHeightAssumption DEF PipelineInv
<1>2. CASE Commit
  <2>1. PICK q \in DOMAIN Partitions : shown' = [shown EXCEPT ![Partitions[q]] = @ + 1]
    BY <1>2 DEF Commit
  <2>2. PipelineInv'
    BY <1>2, CommitPipeline
  <2> QED
    BY <1>1, <2>1, <2>2 DEF PipelineInv
<1>3. CASE UNCHANGED shown
    BY <1>1, <1>3
<1> QED
    BY <1>2, <1>3 DEF Index, FetchBlock, Apply, Unpersist, Unlock, Collect, Sweep, Swept

(* Loading ledger states *)

\* What RequestInv says of one client.
Good(r, m) ==
    /\ DOMAIN r = DOMAIN Idle /\ DOMAIN m = DOMAIN Fresh
    /\ r.pc \in Walking => pc \notin Changing
    /\ r.pc \in {"hold", "walk"} => r.state \in 1 .. shown["tip"]

LEMMA IdleGood == ASSUME NEW m, DOMAIN m = DOMAIN Fresh PROVE Good(Idle, m)
BY DEF Good, Idle, Walking

\* A handler that goes on to a pc at which it neither loads nor is about to.
LEMMA GoesGood ==
    ASSUME NEW r, NEW m, DOMAIN r = DOMAIN Idle, DOMAIN m = DOMAIN Fresh,
           r.pc \notin Walking \cup {"hold"}
    PROVE  Good(r, m)
BY DEF Good, Walking

LEMMA AnswersGood ==
    ASSUME NEW c \in Client, NEW from, NEW outcome \in Ended, NEW m,
           RequestInv, DOMAIN m = DOMAIN Fresh, Answers(c, from, outcome, m)
    PROVE  Good(req'[c], mem'[c])
<1>1. mem'[c] = m /\ req'[c] = IF outcome = "ok" THEN Idle ELSE [req[c] EXCEPT !.pc = outcome]
    BY AnswersFrame DEF RequestInv
<1>2. CASE outcome = "ok"
    BY <1>1, <1>2, IdleGood
<1>3. CASE outcome # "ok"
  <2>1. DOMAIN req'[c] = DOMAIN Idle /\ req'[c].pc = outcome
    BY <1>1, <1>3 DEF RequestInv, Idle
  <2> QED
    BY <1>1, <2>1, GoesGood DEF Ended, Walking
<1> QED
    BY <1>2, <1>3

LEMMA ScanGood ==
    ASSUME NEW c \in Client, RequestInv,
           ScanLock(c) \/ ScanNext(c) \/ HoldDecode(c) \/ Decode(c) \/ CommitScan(c)
    PROVE  Good(req'[c], mem'[c])
<1> USE DEF RequestInv
<1>0. DOMAIN req[c] = DOMAIN Idle /\ DOMAIN mem[c] = DOMAIN Fresh
    OBVIOUS
<1>1. CASE ScanLock(c)
  <2>1. /\ req'[c] = [req[c] EXCEPT !.pc = "scan", !.at = progress[KeyOf[c]]]
        /\ mem'[c] = mem[c]
    BY <1>1, GoesFrame DEF ScanLock
  <2> QED
    BY <1>0, <2>1, GoesGood DEF Idle, Walking
<1>2. CASE ScanNext(c)
  <2>1. /\ req'[c] = [req[c] EXCEPT !.at = @ + 1, !.pc = "holdDecode"]
        /\ mem'[c] = mem[c]
    BY <1>2, GoesFrame DEF ScanNext
  <2> QED
    BY <1>0, <2>1, GoesGood DEF Idle, Walking
<1>3. CASE HoldDecode(c)
  <2>1. req'[c] = [req[c] EXCEPT !.pc = "decode"] /\ mem'[c] = mem[c] /\ Shared
    BY <1>3, GoesFrame DEF HoldDecode
  <2> QED
    BY <1>0, <2>1 DEF Good, Idle, Walking, Shared
<1>4. CASE Decode(c)
  <2> DEFINE found == IF Decrypts(KeyOf[c], req[c].at)
                      THEN req[c].found \cup {req[c].at} ELSE req[c].found
             r == [req[c] EXCEPT !.pc = "scan", !.found = found]
  <2>0. Goes(c, "decode", r)
    BY <1>4 DEF Decode
  <2> HIDE DEF found
  <2>1. req'[c] = r /\ mem'[c] = mem[c]
    BY <2>0, GoesFrame
  <2> QED
    BY <1>0, <2>1, GoesGood DEF Idle, Walking
<1>5. CASE CommitScan(c)
  <2>1. /\ req'[c] = [req[c] EXCEPT !.found = {}] /\ req[c].pc = "scan"
        /\ mem'[c] = mem[c]
    BY <1>5, GoesFrame DEF CommitScan
  <2> QED
    BY <1>0, <2>1, GoesGood DEF Idle, Walking
<1> QED
    BY <1>1, <1>2, <1>3, <1>4, <1>5

(* What a walk of the arena answers: one of the outcomes, and on success a         *)
(* memory in which only the applied index and the updates moved.                   *)
LEMMA WalkAnswers ==
    ASSUME NEW c \in Client, Walk(c)
    PROVE  \E outcome, applied, updates :
               /\ outcome \in Ended
               /\ Answers(c, "walk", outcome,
                          IF outcome # "ok" THEN mem[c]
                          ELSE [mem[c] EXCEPT !.applied = applied, !.updates = updates])
<1> DEFINE highest == End[req[c].target]
           seen == Updates(mem[c].applied, Targets(c), highest)
           result == IF req[c].state \notin arena THEN "missing"
                     ELSE IF End[TxsTo[req[c].state]] < highest THEN "behind"
                     ELSE IF mem[c].applied > highest THEN "beyond"
                     ELSE IF seen.inside THEN "inside" ELSE "ok"
           list == mem[c].updates \o seen.list
<1>1. Answers(c, "walk", result,
              IF result # "ok" THEN mem[c]
              ELSE [mem[c] EXCEPT !.applied = seen.applied, !.updates = list])
    BY Zenon DEF Walk
<1>2. result \in Ended
    BY Zenon DEF Ended
<1> HIDE DEF result, seen, list
<1> QED
    BY <1>1, <1>2

LEMMA SyncGood ==
    ASSUME NEW c \in Client, PipelineInv, RequestInv,
           ScanEnd(c) \/ ReadWindow(c) \/ Hold(c) \/ Walk(c) \/ Parameters(c)
    PROVE  Good(req'[c], mem'[c])
<1> USE DEF RequestInv
<1>0. DOMAIN req[c] = DOMAIN Idle /\ DOMAIN mem[c] = DOMAIN Fresh
    OBVIOUS
<1>1. CASE ScanEnd(c)
  <2>1. CASE Goes(c, "scan", [req[c] EXCEPT !.pc = "key"])
    <3>1. req'[c] = [req[c] EXCEPT !.pc = "key"] /\ mem'[c] = mem[c]
        BY <2>1, GoesFrame
    <3> QED
        BY <1>0, <3>1, GoesGood DEF Idle, Walking
  <2>2. CASE Answers(c, "scan", "ok", mem[c])
    BY <1>0, <2>2, AnswersGood DEF Ended
  <2> QED
    BY <1>1, <2>1, <2>2 DEF ScanEnd
\* The newest state is one that every partition before the window shows.
<1>2. CASE ReadWindow(c)
  <2>1. CASE shown["window"] # 0 /\
             Goes(c, "key", [req[c] EXCEPT !.pc = "hold", !.state = shown["window"]])
    <3>1. /\ req'[c] = [req[c] EXCEPT !.pc = "hold", !.state = shown["window"]]
          /\ mem'[c] = mem[c]
        BY <2>1, GoesFrame
    <3>2. req'[c].pc = "hold" /\ req'[c].state = shown["window"] /\ DOMAIN req'[c] = DOMAIN Idle
        BY <1>0, <3>1 DEF Idle
    <3>3. /\ shown["window"] \in 0 .. MaxHeight /\ shown["tip"] \in 0 .. MaxHeight
          /\ shown["tip"] >= shown["window"]
        BY PartitionNames DEF PipelineInv
    <3> QED
        BY <1>0, <2>1, <3>1, <3>2, <3>3, MaxHeightAssumption DEF Good, Walking
  <2>2. CASE Answers(c, "key", "missing", mem[c])
    BY <1>0, <2>2, AnswersGood DEF Ended
  <2> QED
    BY <1>2, <2>1, <2>2 DEF ReadWindow
<1>3. CASE Hold(c)
  <2>1. req'[c] = [req[c] EXCEPT !.pc = "walk"] /\ mem'[c] = mem[c] /\ Shared
        /\ req[c].pc = "hold"
    BY <1>3, GoesFrame DEF Hold
  <2> QED
    BY <1>0, <2>1 DEF Good, Idle, Walking, Shared
<1>4. CASE Walk(c)
  <2>1. PICK outcome, applied, updates :
            /\ outcome \in Ended
            /\ Answers(c, "walk", outcome,
                       IF outcome # "ok" THEN mem[c]
                       ELSE [mem[c] EXCEPT !.applied = applied, !.updates = updates])
    BY <1>4, WalkAnswers, Zenon
  <2> DEFINE m == IF outcome # "ok" THEN mem[c]
                  ELSE [mem[c] EXCEPT !.applied = applied, !.updates = updates]
  <2>2. DOMAIN m = DOMAIN Fresh
    BY <1>0
  <2> QED
    BY <2>1, <2>2, AnswersGood
<1>5. CASE Parameters(c)
  <2>1. PICK outcome \in Ended : Answers(c, "walk", outcome, mem[c])
    BY <1>5 DEF Parameters, Ended
  <2> QED
    BY <1>0, <2>1, AnswersGood
<1> QED
    BY <1>1, <1>2, <1>3, <1>4, <1>5

LEMMA ReadTipGood ==
    ASSUME NEW c \in Client, PipelineInv, RequestInv, ReadTip(c)
    PROVE  Good(req'[c], mem'[c])
<1> USE DEF RequestInv
<1> DEFINE r(state) == [req[c] EXCEPT !.tip = shown["tip"], !.target = TxsTo[shown["tip"]],
                                      !.state = state]
<1>0. DOMAIN req[c] = DOMAIN Idle /\ DOMAIN mem[c] = DOMAIN Fresh
    OBVIOUS
<1>1. PICK state :
         \/ Goes(c, "tip", [r(state) EXCEPT !.pc = "lock"])
         \/ Goes(c, "tip", [r(state) EXCEPT !.pc = "feed"])
         \/ /\ state = shown["tip"] /\ state # None
            /\ Goes(c, "tip", [r(state) EXCEPT !.pc = "hold"])
         \/ Answers(c, "tip", "ok", mem[c])
    BY DEF ReadTip
<1>2. CASE Goes(c, "tip", [r(state) EXCEPT !.pc = "lock"])
  <2>1. req'[c] = [r(state) EXCEPT !.pc = "lock"] /\ mem'[c] = mem[c]
    BY <1>2, GoesFrame
  <2> QED
    BY <1>0, <2>1, GoesGood DEF Idle, Walking
<1>3. CASE Goes(c, "tip", [r(state) EXCEPT !.pc = "feed"])
  <2>1. req'[c] = [r(state) EXCEPT !.pc = "feed"] /\ mem'[c] = mem[c]
    BY <1>3, GoesFrame
  <2> QED
    BY <1>0, <2>1, GoesGood DEF Idle, Walking
<1>4. CASE state = shown["tip"] /\ state # None
           /\ Goes(c, "tip", [r(state) EXCEPT !.pc = "hold"])
  <2>1. req'[c] = [r(state) EXCEPT !.pc = "hold"] /\ mem'[c] = mem[c]
    BY <1>4, GoesFrame
  <2>2. req'[c].pc = "hold" /\ req'[c].state = shown["tip"] /\ DOMAIN req'[c] = DOMAIN Idle
    BY <1>0, <1>4, <2>1 DEF Idle
  <2>3. shown["tip"] \in 0 .. MaxHeight
    BY PartitionNames DEF PipelineInv
  <2> QED
    BY <1>0, <1>4, <2>1, <2>2, <2>3, MaxHeightAssumption DEF Good, Walking, None
<1>5. CASE Answers(c, "tip", "ok", mem[c])
    BY <1>0, <1>5, AnswersGood DEF Ended
<1> QED
    BY <1>1, <1>2, <1>3, <1>4, <1>5

(* Events *)

LEMMA BlockMonotonic ==
    /\ \A e \in DOMAIN Events : Block(e) \in 1 .. MaxHeight
    /\ \A e, f \in DOMAIN Events : e <= f => Block(e) <= Block(f)
<1>1. \A t \in DOMAIN Txs : Txs[t] \in [for : SUBSET Key, block : 1 .. MaxHeight]
  <2> DEFINE T == [for : SUBSET Key, block : 1 .. MaxHeight]
  <2>1. Txs \in Seq(T)
    BY TxsAssumption
  <2> HIDE DEF T
  <2>2. \A t \in DOMAIN Txs : Txs[t] \in T
    BY <2>1
  <2> QED
    BY <2>2 DEF T
<1>2. \A e \in DOMAIN Events : Events[e] \in [kind : Kinds, tx : DOMAIN Txs]
  <2> DEFINE E == [kind : Kinds, tx : DOMAIN Txs]
  <2>1. Events \in Seq(E)
    BY EventsAssumption
  <2> HIDE DEF E
  <2>2. \A e \in DOMAIN Events : Events[e] \in E
    BY <2>1
  <2> QED
    BY <2>2 DEF E
<1>3. \A e \in DOMAIN Events : Events[e].tx \in DOMAIN Txs
    BY <1>2
<1> QED
    BY <1>1, <1>3, TxsAssumption, EventsAssumption DEF Block

LEMMA EventsToMonotonic ==
    /\ \A h \in 0 .. MaxHeight : EventsTo[h] \in 0 .. Len(Events)
    /\ \A g, h \in 0 .. MaxHeight : g <= h => EventsTo[g] <= EventsTo[h]
<1> DEFINE To(h) == {e \in DOMAIN Events : Block(e) <= h}
<1>1. DOMAIN Events = 1 .. Len(Events) /\ Len(Events) \in Nat
    BY EventsAssumption
<1>2. IsFiniteSet(DOMAIN Events) /\ Cardinality(DOMAIN Events) = Len(Events)
  <2>1. /\ IsFiniteSet(1 .. Len(Events))
        /\ Cardinality(1 .. Len(Events)) =
              IF 1 > Len(Events) THEN 0 ELSE Len(Events) - 1 + 1
    BY <1>1, FS_Interval
  <2> QED
    BY <1>1, <2>1
<1>3. \A h \in 0 .. MaxHeight : To(h) \subseteq DOMAIN Events
    OBVIOUS
<1>4. \A h \in 0 .. MaxHeight : IsFiniteSet(To(h)) /\ Cardinality(To(h)) <= Len(Events)
    BY <1>2, <1>3, FS_Subset
<1>5. \A h \in 0 .. MaxHeight : EventsTo[h] = Cardinality(To(h)) /\ Cardinality(To(h)) \in Nat
    BY <1>4, FS_CardinalityType DEF EventsTo
<1>6. \A g, h \in 0 .. MaxHeight : g <= h => To(g) \subseteq To(h)
    BY BlockMonotonic, MaxHeightAssumption
<1>7. \A g, h \in 0 .. MaxHeight : g <= h => Cardinality(To(g)) <= Cardinality(To(h))
    BY <1>4, <1>6, FS_Subset
<1> HIDE DEF To
<1> QED
    BY <1>1, <1>4, <1>5, <1>7

\* No event is examined before the one that precedes it: blocks only grow with
\* the ids, so an anchor cuts off a suffix.
LEMMA NextEvent ==
    ASSUME NEW c \in Client, NEW top \in 0 .. Len(Events), NEW at \in Nat,
           req[c].tip \in 0 .. MaxHeight,
           NEW f \in (at + 1) .. top, ~AboveAnchor(c, f)
    PROVE  LET ahead == {e \in (at + 1) .. top : ~AboveAnchor(c, e)}
           IN  (CHOOSE i \in ahead : \A j \in ahead : i <= j) = at + 1
<1> DEFINE ahead == {e \in (at + 1) .. top : ~AboveAnchor(c, e)}
<1>1. DOMAIN Events = 1 .. Len(Events) /\ Len(Events) \in Nat
    BY EventsAssumption
<1>2. at + 1 \in DOMAIN Events /\ f \in DOMAIN Events /\ at + 1 <= f
    BY <1>1
<1>3. Block(at + 1) <= Block(f) /\ Block(at + 1) \in Nat /\ Block(f) \in Nat
    BY <1>2, BlockMonotonic, MaxHeightAssumption
<1>4. ~AboveAnchor(c, at + 1)
    BY <1>3 DEF AboveAnchor
<1>5. at + 1 \in ahead
    BY <1>1, <1>2, <1>4
<1>6. \A i \in ahead : at + 1 <= i
    BY <1>1
<1>7. \A i \in ahead : (\A j \in ahead : i <= j) => i = at + 1
    BY <1>1, <1>5, <1>6
<1> QED
    BY <1>5, <1>6, <1>7, Zenon

\* What one step of wallet_events does.
Examines(c, e) ==
    LET r == [req[c] EXCEPT !.at = e, !.found = @ \cup {e}]
    IN  /\ e = req[c].at + 1 /\ e \in DOMAIN Events
        /\ \/ Events[e].kind = "contract" /\ Goes(c, "feed", r)
           \/ /\ Events[e].kind = "dust"
              /\ Goes(c, "feed", [r EXCEPT !.rows = Append(@, <<e, Relevance(c, e)>>)])
           \/ /\ Events[e].kind \notin {"contract", "dust"}
              /\ Goes(c, "feed", [r EXCEPT !.pc = "holdJudge"])

LEMMA FeedNextCases ==
    ASSUME NEW c \in Client, PipelineInv, FeedInv, FeedNext(c)
    PROVE  /\ req[c].pc = "feed"
           /\ \/ \E more \in BOOLEAN : FeedPage(c, more) /\ (more => Full(c))
              \/ Answers(c, "feed", "missing", mem[c])
              \/ Examines(c, req[c].at + 1)
<1> DEFINE top == EventsTo[shown["events"]]
           at == req[c].at
           ahead == {e \in (at + 1) .. top : ~AboveAnchor(c, e)}
           e == CHOOSE i \in ahead : \A j \in ahead : i <= j
           r == [req[c] EXCEPT !.at = e, !.found = @ \cup {e}]
<1>1. req[c].pc = "feed"
    BY DEF FeedNext, FeedPage, Goes, Answers
<1>2. /\ at \in Nat /\ req[c].tip \in 0 .. MaxHeight
    BY <1>1, EventsAssumption DEF FeedInv, FeedJoins, FeedThrough
<1>3. top \in 0 .. Len(Events)
    BY EventsToMonotonic, PartitionNames DEF PipelineInv
<1>4. IF ahead = {} \/ Full(c)
      THEN FeedPage(c, ahead # {})
      ELSE IF Events[e].kind = "contract" THEN Goes(c, "feed", r)
      ELSE IF Block(e) > shown["blocks"] THEN Answers(c, "feed", "missing", mem[c])
      ELSE IF Events[e].kind = "dust"
      THEN Goes(c, "feed", [r EXCEPT !.rows = Append(@, <<e, Relevance(c, e)>>)])
      ELSE Goes(c, "feed", [r EXCEPT !.pc = "holdJudge"])
    BY DEF FeedNext
<1>5. CASE ahead = {} \/ Full(c)
    BY <1>1, <1>4, <1>5
<1>6. CASE ahead # {} /\ ~Full(c)
  <2>1. e = at + 1
    BY <1>2, <1>3, <1>6, NextEvent
  <2>2. at + 1 \in DOMAIN Events
    BY <1>2, <1>3, <1>6, EventsAssumption
  <2> HIDE DEF e
  <2> QED
    BY <1>1, <1>4, <1>6, <2>1, <2>2 DEF Examines
<1> QED
    BY <1>5, <1>6

LEMMA FeedsGood ==
    ASSUME NEW c \in Client, PipelineInv, RequestInv, FeedInv, Feed(c)
    PROVE  Good(req'[c], mem'[c])
<1> USE DEF RequestInv
<1>0. DOMAIN req[c] = DOMAIN Idle /\ DOMAIN mem[c] = DOMAIN Fresh
    OBVIOUS
<1>1. ASSUME NEW more \in BOOLEAN, FeedPage(c, more) PROVE Good(req'[c], mem'[c])
  <2>1. PICK feed, from, cursor, anchor :
            Answers(c, "feed", "ok", [mem[c] EXCEPT !.feed = feed, !.from = from,
                                                    !.cursor = cursor, !.anchor = anchor])
    BY <1>1 DEF FeedPage
  <2> DEFINE m == [mem[c] EXCEPT !.feed = feed, !.from = from,
                                 !.cursor = cursor, !.anchor = anchor]
  <2>2. DOMAIN m = DOMAIN Fresh
    BY <1>0
  <2> QED
    BY <2>1, <2>2, AnswersGood DEF Ended
<1>2. CASE Answers(c, "feed", "missing", mem[c])
    BY <1>0, <1>2, AnswersGood DEF Ended
<1>3. CASE req[c].pc = "feed" /\ Examines(c, req[c].at + 1)
  <2> DEFINE e == req[c].at + 1
             r == [req[c] EXCEPT !.at = e, !.found = @ \cup {e}]
  <2>1. r.pc = "feed" /\ DOMAIN r = DOMAIN Idle
    BY <1>0, <1>3 DEF Idle
  <2>2. \/ Goes(c, "feed", r)
        \/ Goes(c, "feed", [r EXCEPT !.rows = Append(@, <<e, Relevance(c, e)>>)])
        \/ Goes(c, "feed", [r EXCEPT !.pc = "holdJudge"])
    BY <1>3, Zenon DEF Examines
  <2> HIDE DEF r
  <2>3. /\ DOMAIN req'[c] = DOMAIN Idle /\ req'[c].pc \in {"feed", "holdJudge"}
        /\ mem'[c] = mem[c]
    BY <2>1, <2>2, GoesFrame DEF Idle
  <2> QED
    BY <1>0, <2>3, GoesGood DEF Walking
<1>4. CASE HoldJudge(c)
  <2>1. req'[c] = [req[c] EXCEPT !.pc = "judge"] /\ mem'[c] = mem[c] /\ Shared
    BY <1>4, GoesFrame DEF HoldJudge
  <2> QED
    BY <1>0, <2>1 DEF Good, Idle, Walking, Shared
<1>5. CASE Judge(c)
  <2> DEFINE rows == Append(req[c].rows, <<req[c].at, Relevance(c, req[c].at)>>)
             r == [req[c] EXCEPT !.pc = "feed", !.rows = rows]
  <2>0. Goes(c, "judge", r)
    BY <1>5 DEF Judge
  <2> HIDE DEF rows
  <2>1. req'[c] = r /\ mem'[c] = mem[c]
    BY <2>0, GoesFrame DEF RequestInv
  <2> QED
    BY <1>0, <2>1, GoesGood DEF Idle, Walking
<1> QED
    BY <1>1, <1>2, <1>3, <1>4, <1>5, FeedNextCases DEF Feed

LEMMA DustGood ==
    ASSUME NEW c \in Client, RequestInv, ReadHighest(c) \/ DustNext(c)
    PROVE  Good(req'[c], mem'[c])
<1> USE DEF RequestInv
<1>0. DOMAIN req[c] = DOMAIN Idle /\ DOMAIN mem[c] = DOMAIN Fresh
    OBVIOUS
<1>1. CASE ReadHighest(c)
  <2>1. req'[c] = [req[c] EXCEPT !.pc = "dust", !.target = EventsTo[shown["ids"]]]
        /\ mem'[c] = mem[c]
    BY <1>1, GoesFrame DEF ReadHighest
  <2> QED
    BY <1>0, <2>1, GoesGood DEF Idle, Walking
<1>2. CASE DustNext(c)
  <2>1. \/ \E dust, from : Answers(c, "dust", "ok",
                              [mem[c] EXCEPT !.dust = dust, !.dustFrom = from])
        \/ Answers(c, "dust", "missing", mem[c])
        \/ \E at, found : Goes(c, "dust", [req[c] EXCEPT !.at = at, !.found = found])
    BY <1>2 DEF DustNext
  <2>2. ASSUME NEW dust, NEW from,
               Answers(c, "dust", "ok", [mem[c] EXCEPT !.dust = dust, !.dustFrom = from])
        PROVE  Good(req'[c], mem'[c])
    <3>1. DOMAIN [mem[c] EXCEPT !.dust = dust, !.dustFrom = from] = DOMAIN Fresh
        BY <1>0
    <3> QED
        BY <2>2, <3>1, AnswersGood DEF Ended
  <2>3. CASE Answers(c, "dust", "missing", mem[c])
    BY <1>0, <2>3, AnswersGood DEF Ended
  <2>4. ASSUME NEW at, NEW found, Goes(c, "dust", [req[c] EXCEPT !.at = at, !.found = found])
        PROVE  Good(req'[c], mem'[c])
    <3>1. req'[c] = [req[c] EXCEPT !.at = at, !.found = found] /\ mem'[c] = mem[c]
          /\ req[c].pc = "dust"
        BY <2>4, GoesFrame
    <3> QED
        BY <1>0, <3>1, GoesGood DEF Idle, Walking
  <2> QED
    BY <2>1, <2>2, <2>3, <2>4
<1> QED
    BY <1>1, <1>2

\* A request starts at "ids", "feed" or "tip", where the last answer ended.
Asked(c, kind, start) ==
    [Idle EXCEPT !.kind = kind,
                 !.pc = start,
                 !.tip = IF kind = "feed" THEN mem[c].anchor ELSE None,
                 !.at = IF kind # "feed" THEN mem[c].dustFrom - 1
                        ELSE IF mem[c].cursor # None THEN mem[c].cursor
                        ELSE mem[c].from - 1]

LEMMA AskCases ==
    ASSUME NEW c \in Client, RequestInv, Ask(c)
    PROVE  \E kind, start :
              /\ req'[c] = Asked(c, kind, start) /\ mem'[c] = mem[c]
              /\ \/ kind = "dust" /\ start = "ids"
                 \/ kind = "feed" /\ mem[c].cursor # None /\ start = "feed"
                 \/ start = "tip" /\ (kind = "feed" => mem[c].cursor = None)
<1>1. PICK kind, ended :
          Goes(c, ended, Asked(c, kind, CASE kind = "dust" -> "ids"
                                [] kind = "feed" /\ mem[c].cursor # None -> "feed"
                                [] OTHER -> "tip"))
    BY Zenon DEF Ask, Asked
<1> QED
    BY <1>1, GoesFrame DEF RequestInv

LEMMA AskGood ==
    ASSUME NEW c \in Client, RequestInv, Ask(c) PROVE Good(req'[c], mem'[c])
<1>1. PICK kind, start : /\ start \in {"ids", "feed", "tip"}
                         /\ req'[c] = Asked(c, kind, start) /\ mem'[c] = mem[c]
    BY AskCases
<1>2. DOMAIN req'[c] = DOMAIN Idle /\ req'[c].pc = start
    BY <1>1 DEF Asked, Idle
<1> QED
    BY <1>1, <1>2, GoesGood DEF Walking, RequestInv

LEMMA InitRequests == Init => RequestInv
BY DEF Init, RequestInv, Idle, Walking

LEMMA RequestStep == PipelineInv /\ RequestInv /\ FeedInv /\ [Next]_vars => RequestInv'
<1> SUFFICES ASSUME PipelineInv, RequestInv, FeedInv, [Next]_vars PROVE RequestInv'
    OBVIOUS
<1>1. CASE UNCHANGED vars
    BY <1>1 DEF RequestInv, vars, pipeline
\* Whoever changes the arena waits until nobody walks, and blocks only grow.
<1>2. CASE Index
  <2>1. UNCHANGED <<req, mem>>
    BY <1>2, IndexFrame
  <2>2. ASSUME NEW c \in Client, req[c].pc \in Walking PROVE pc' \notin Changing
    BY <1>2, <2>2 DEF RequestInv, Index, FetchBlock, Apply, Commit, Unpersist, Unlock,
       Collect, Sweep, Swept, Pipe, NoReader, Changing
  <2>3. shown["tip"] \in Nat /\ shown'["tip"] \in Nat /\ shown["tip"] <= shown'["tip"]
    BY <1>2, VisibleGrows, PartitionNames DEF PipelineInv
  <2> QED
    BY <2>1, <2>2, <2>3 DEF RequestInv
<1>3. ASSUME NEW c \in Client, Ask(c) \/ Serve(c) PROVE RequestInv'
  <2>1. Frame(c)
    BY <1>3, RequestFrame DEF RequestInv
  <2>2. Good(req'[c], mem'[c])
    BY <1>3, AskGood, ReadTipGood, ScanGood, SyncGood, FeedsGood, DustGood
    DEF Serve, Shielded
  <2> QED
    BY <2>1, <2>2 DEF Frame, Good, RequestInv, pipeline
<1> QED
    BY <1>1, <1>2, <1>3 DEF Next

(* The event feeds *)

\* A step of another endpoint: neither feed is affected.
FeedPcs == {"tip", "feed", "holdJudge", "judge"}
Feeds == {"from", "anchor", "cursor", "feed", "dustFrom", "dust"}
Apart(c) == /\ req'[c].pc \notin FeedPcs \cup {"ids", "dust"}
            /\ \A f \in Feeds : mem'[c][f] = mem[c][f]

LEMMA AnswersApart ==
    ASSUME NEW c \in Client, NEW from, NEW outcome \in Ended, NEW m, RequestInv,
           \A f \in Feeds : m[f] = mem[c][f], Answers(c, from, outcome, m)
    PROVE  Apart(c)
<1>1. mem'[c] = m /\ req'[c] = IF outcome = "ok" THEN Idle ELSE [req[c] EXCEPT !.pc = outcome]
    BY AnswersFrame DEF RequestInv
<1>2. req'[c].pc = outcome
    BY <1>1 DEF RequestInv, Idle
<1> QED
    BY <1>1, <1>2 DEF Apart, FeedPcs, Ended

LEMMA ShieldedApart ==
    ASSUME NEW c \in Client, RequestInv, Shielded(c) \/ Parameters(c)
    PROVE  Apart(c)
<1> USE DEF RequestInv
<1>0. DOMAIN req[c] = DOMAIN Idle /\ DOMAIN mem[c] = DOMAIN Fresh
    OBVIOUS
<1>1. ASSUME NEW from, NEW r, Goes(c, from, r), r.pc \notin FeedPcs \cup {"ids", "dust"}
      PROVE  Apart(c)
    BY <1>1, GoesFrame DEF Apart
<1>2. CASE ScanLock(c)
  <2>1. [req[c] EXCEPT !.pc = "scan", !.at = progress[KeyOf[c]]].pc = "scan"
    BY <1>0 DEF Idle
  <2> QED
    BY <1>1, <1>2, <2>1 DEF ScanLock, FeedPcs
<1>3. CASE ScanNext(c)
  <2>1. [req[c] EXCEPT !.at = @ + 1, !.pc = "holdDecode"].pc = "holdDecode"
    BY <1>0 DEF Idle
  <2> QED
    BY <1>1, <1>3, <2>1 DEF ScanNext, FeedPcs
<1>4. CASE HoldDecode(c)
  <2>1. [req[c] EXCEPT !.pc = "decode"].pc = "decode"
    BY <1>0 DEF Idle
  <2> QED
    BY <1>1, <1>4, <2>1 DEF HoldDecode, FeedPcs
<1>5. CASE Decode(c)
  <2>1. PICK found : Goes(c, "decode", [req[c] EXCEPT !.pc = "scan", !.found = found])
    BY <1>5 DEF Decode
  <2>2. [req[c] EXCEPT !.pc = "scan", !.found = found].pc = "scan"
    BY <1>0 DEF Idle
  <2> QED
    BY <1>1, <2>1, <2>2 DEF FeedPcs
<1>6. CASE CommitScan(c)
  <2>1. req[c].pc = "scan"
    BY <1>6 DEF CommitScan, Goes
  <2>2. [req[c] EXCEPT !.found = {}].pc = "scan"
    BY <1>0, <2>1 DEF Idle
  <2> QED
    BY <1>1, <1>6, <2>2 DEF CommitScan, FeedPcs
<1>7. CASE ScanEnd(c)
  <2>1. [req[c] EXCEPT !.pc = "key"].pc = "key"
    BY <1>0 DEF Idle
  <2> QED
    BY <1>1, <1>7, <2>1, AnswersApart DEF ScanEnd, FeedPcs, Ended
<1>8. CASE ReadWindow(c)
  <2>1. [req[c] EXCEPT !.pc = "hold", !.state = shown["window"]].pc = "hold"
    BY <1>0 DEF Idle
  <2> QED
    BY <1>1, <1>8, <2>1, AnswersApart DEF ReadWindow, FeedPcs, Ended
<1>9. CASE Hold(c)
  <2>1. [req[c] EXCEPT !.pc = "walk"].pc = "walk"
    BY <1>0 DEF Idle
  <2> QED
    BY <1>1, <1>9, <2>1 DEF Hold, FeedPcs
<1>10. CASE Walk(c)
  <2>1. PICK outcome, applied, updates :
            /\ outcome \in Ended
            /\ Answers(c, "walk", outcome,
                       IF outcome # "ok" THEN mem[c]
                       ELSE [mem[c] EXCEPT !.applied = applied, !.updates = updates])
    BY <1>10, WalkAnswers, Zenon
  <2> DEFINE m == IF outcome # "ok" THEN mem[c]
                  ELSE [mem[c] EXCEPT !.applied = applied, !.updates = updates]
  <2>2. \A f \in Feeds : m[f] = mem[c][f]
    BY <1>0 DEF Feeds, Fresh
  <2> QED
    BY <2>1, <2>2, AnswersApart
<1>11. CASE Parameters(c)
  <2>1. PICK outcome \in Ended : Answers(c, "walk", outcome, mem[c])
    BY <1>11 DEF Parameters, Ended
  <2> QED
    BY <2>1, AnswersApart
<1> QED
    BY <1>2, <1>3, <1>4, <1>5, <1>6, <1>7, <1>8, <1>9, <1>10, <1>11 DEF Shielded

LEMMA FeedApart ==
    ASSUME NEW c \in Client, RequestInv, FeedInv, Apart(c)
    PROVE  FeedJoins(c, mem'[c], req'[c])
<1>1. /\ mem'[c].from = mem[c].from /\ mem'[c].cursor = mem[c].cursor
      /\ mem'[c].anchor = mem[c].anchor /\ mem'[c].feed = mem[c].feed
    BY DEF Apart, Feeds
<1> QED
    BY <1>1 DEF Apart, FeedInv, FeedJoins, FeedPcs, FeedThrough

LEMMA DustApart ==
    ASSUME NEW c \in Client, RequestInv, DustInv, Apart(c), NEW visible
    PROVE  DustJoins(mem'[c], req'[c], visible)
<1>1. mem'[c].dustFrom = mem[c].dustFrom /\ mem'[c].dust = mem[c].dust
    BY DEF Apart, Feeds
<1> QED
    BY <1>1 DEF Apart, DustInv, DustJoins

LEMMA RowsEmpty ==
    ASSUME NEW c, NEW n \in Nat PROVE RowsExact(c, <<>>, n + 1, n)
BY DEF RowsExact

LEMMA RowsOne ==
    ASSUME NEW c, NEW e \in DOMAIN Events, Events[e].kind # "contract"
    PROVE  RowsExact(c, <<<<e, Relevance(c, e)>>>>, e, e)
<1> DEFINE row == <<e, Relevance(c, e)>>
           rows == <<row>>
<1>1. e \in Nat
    BY EventsAssumption
<1>2. DOMAIN rows = {1} /\ rows[1] = row
    OBVIOUS
<1>3. \A f \in e .. e : f = e
    BY <1>1
<1>4. row[1] = e
    OBVIOUS
<1> HIDE DEF row, rows
<1>5. RowsExact(c, rows, e, e)
    BY <1>1, <1>2, <1>3, <1>4 DEF RowsExact, row
<1> QED
    BY <1>5 DEF rows, row

LEMMA RowsConcat ==
    ASSUME NEW c, NEW from \in Nat, NEW mid \in Nat, NEW to \in Nat,
           from <= mid + 1, mid <= to,
           NEW s \in Seq(Row), NEW t \in Seq(Row),
           RowsExact(c, s, from, mid), RowsExact(c, t, mid + 1, to)
    PROVE  RowsExact(c, s \o t, from, to)
<1> DEFINE due(a, b) == {e \in a .. b : Events[e].kind # "contract"}
           u == s \o t
           n == Len(s)
<1>1. /\ n \in Nat /\ Len(t) \in Nat
      /\ DOMAIN s = 1 .. n /\ DOMAIN t = 1 .. Len(t) /\ DOMAIN u = 1 .. n + Len(t)
      /\ \A i \in 1 .. n : u[i] = s[i]
      /\ \A i \in n + 1 .. n + Len(t) : u[i] = t[i - n]
    OBVIOUS
<1> HIDE DEF u, n
<1>2. \A i \in DOMAIN u : \/ i \in DOMAIN s /\ u[i] = s[i]
                          \/ i > n /\ i - n \in DOMAIN t /\ u[i] = t[i - n]
    BY <1>1
<1>3. /\ \A i \in DOMAIN s : \E e \in due(from, mid) : s[i] = <<e, Relevance(c, e)>>
      /\ \A e \in due(from, mid) : \E i \in DOMAIN s : s[i][1] = e
      /\ \A i, j \in DOMAIN s : i < j => s[i][1] < s[j][1]
    BY DEF RowsExact
<1>4. /\ \A i \in DOMAIN t : \E e \in due(mid + 1, to) : t[i] = <<e, Relevance(c, e)>>
      /\ \A e \in due(mid + 1, to) : \E i \in DOMAIN t : t[i][1] = e
      /\ \A i, j \in DOMAIN t : i < j => t[i][1] < t[j][1]
    BY DEF RowsExact
<1>5. due(from, to) = due(from, mid) \cup due(mid + 1, to)
    OBVIOUS
<1>6. \A i \in DOMAIN s : s[i][1] \in from .. mid
    BY <1>3
<1>7. \A i \in DOMAIN t : t[i][1] \in mid + 1 .. to
    BY <1>4
<1>8. \A i \in DOMAIN u : \E e \in due(from, to) : u[i] = <<e, Relevance(c, e)>>
    BY <1>2, <1>3, <1>4, <1>5
<1>9. \A e \in due(from, to) : \E i \in DOMAIN u : u[i][1] = e
  <2> SUFFICES ASSUME NEW e \in due(from, to) PROVE \E i \in DOMAIN u : u[i][1] = e
    OBVIOUS
  <2>1. CASE e \in due(from, mid)
    <3>1. PICK i \in DOMAIN s : s[i][1] = e
        BY <1>3, <2>1
    <3>2. i \in DOMAIN u /\ u[i] = s[i]
        BY <1>1
    <3> QED
        BY <3>1, <3>2
  <2>2. CASE e \in due(mid + 1, to)
    <3>1. PICK i \in DOMAIN t : t[i][1] = e
        BY <1>4, <2>2
    <3>2. i + n \in DOMAIN u /\ i + n \in n + 1 .. n + Len(t) /\ (i + n) - n = i
        BY <1>1
    <3>3. u[i + n] = t[i]
        BY <1>1, <3>2
    <3> QED
        BY <3>1, <3>2, <3>3
  <2> QED
    BY <1>5, <2>1, <2>2
<1>10. \A i, j \in DOMAIN u : i < j => u[i][1] < u[j][1]
  <2> SUFFICES ASSUME NEW i \in DOMAIN u, NEW j \in DOMAIN u, i < j
               PROVE u[i][1] < u[j][1]
    OBVIOUS
  <2>0. i \in Nat /\ j \in Nat
    BY <1>1
  <2>1. CASE j <= n
    <3>1. i \in DOMAIN s /\ j \in DOMAIN s /\ u[i] = s[i] /\ u[j] = s[j]
        BY <1>1, <2>0, <2>1
    <3> QED
        BY <1>3, <3>1
  <2>2. CASE i <= n /\ n < j
    <3>1. i \in DOMAIN s /\ u[i] = s[i] /\ j - n \in DOMAIN t /\ u[j] = t[j - n]
        BY <1>1, <2>0, <2>2
    <3>2. s[i][1] \in from .. mid /\ t[j - n][1] \in mid + 1 .. to
        BY <1>6, <1>7, <3>1
    <3> QED
        BY <3>1, <3>2
  <2>3. CASE n < i
    <3>1. i \notin DOMAIN s /\ j \notin DOMAIN s
        BY <1>1, <2>0, <2>3
    <3>2. i - n \in DOMAIN t /\ u[i] = t[i - n] /\ j - n \in DOMAIN t /\ u[j] = t[j - n]
        BY <1>2, <3>1
    <3>3. i - n < j - n
        BY <1>1, <2>0
    <3> QED
        BY <1>4, <3>2, <3>3
  <2> QED
    BY <1>1, <2>0, <2>1, <2>2, <2>3
<1>11. RowsExact(c, u, from, to)
    BY <1>8, <1>9, <1>10 DEF RowsExact
<1> QED
    BY <1>11 DEF u

LEMMA RowsAppend ==
    ASSUME NEW c, NEW from \in Nat, NEW e \in DOMAIN Events, from <= e,
           NEW rows \in Seq(Row), RowsExact(c, rows, from, e - 1),
           Events[e].kind # "contract"
    PROVE  /\ Append(rows, <<e, Relevance(c, e)>>) \in Seq(Row)
           /\ RowsExact(c, Append(rows, <<e, Relevance(c, e)>>), from, e)
<1> DEFINE row == <<e, Relevance(c, e)>>
<1>1. e \in Nat /\ e - 1 \in Nat /\ (e - 1) + 1 = e
    BY EventsAssumption
<1>2. Relevance(c, e) \in {"none", "yes", "no"}
    BY DEF Relevance
<1>3. row \in Row
    BY <1>2 DEF Row
<1>4. RowsExact(c, <<row>>, e, e)
    BY RowsOne
<1> HIDE DEF row
<1>5. Append(rows, row) \in Seq(Row) /\ Append(rows, row) = rows \o <<row>>
    BY <1>3, AppendProperties, AppendIsConcat
<1>6. <<row>> \in Seq(Row)
    BY <1>3
<1>7. RowsExact(c, rows \o <<row>>, from, e)
  <2>1. RowsExact(c, <<row>>, (e - 1) + 1, e)
    BY <1>1, <1>4
  <2>2. from <= (e - 1) + 1 /\ e - 1 <= e
    BY <1>1
  <2> QED
    BY <1>1, <1>6, <2>1, <2>2, RowsConcat
<1> QED
    BY <1>5, <1>7 DEF row

\* A contract event adds no row.
LEMMA RowsSkip ==
    ASSUME NEW c, NEW from \in Nat, NEW to \in Nat, NEW rows, from <= to + 1,
           RowsExact(c, rows, from, to), Events[to + 1].kind = "contract"
    PROVE  RowsExact(c, rows, from, to + 1)
<1>1. {e \in from .. to + 1 : Events[e].kind # "contract"}
        = {e \in from .. to : Events[e].kind # "contract"}
    OBVIOUS
<1> QED
    BY <1>1 DEF RowsExact

LEMMA FeedPageJoins ==
    ASSUME NEW c \in Client, RequestInv, FeedInv, NEW more \in BOOLEAN,
           req[c].pc = "feed", FeedPage(c, more), more => Full(c)
    PROVE  FeedJoins(c, mem'[c], req'[c])
<1> DEFINE m == mem[c]
           r == req[c]
           on == more /\ r.tip # None
           through == FeedThrough(m)
           n == [m EXCEPT !.feed = @ \o r.rows,
                          !.from = IF on THEN @ ELSE r.at + 1,
                          !.cursor = IF on THEN r.at ELSE None,
                          !.anchor = IF more THEN r.tip ELSE None]
<1>0. Answers(c, "feed", "ok", n)
    BY Zenon DEF FeedPage
<1> HIDE DEF n
<1>1. req'[c] = Idle /\ mem'[c] = n
    BY <1>0, AnswersFrame DEF RequestInv
<1>2. /\ m.from \in 1 .. Len(Events) + 1 /\ m.cursor \in 0 .. Len(Events)
      /\ m.feed \in Seq(Row) /\ RowsExact(c, m.feed, 1, through)
      /\ r.tip \in 0 .. MaxHeight /\ r.at \in through .. Len(Events)
      /\ r.rows \in Seq(Row) /\ r.found \subseteq (through + 1) .. r.at
      /\ RowsExact(c, r.rows, through + 1, r.at)
    BY DEF FeedInv, FeedJoins
<1>3. through \in Nat /\ r.at \in Nat /\ Len(Events) \in Nat /\ through <= r.at
    BY <1>2, EventsAssumption DEF FeedThrough, None
<1>4. DOMAIN m = DOMAIN Fresh
    BY DEF RequestInv
<1>5. /\ n.feed = m.feed \o r.rows
      /\ n.from = IF on THEN m.from ELSE r.at + 1
      /\ n.cursor = IF on THEN r.at ELSE None
      /\ n.anchor = IF more THEN r.tip ELSE None
    BY <1>4 DEF Fresh, n
<1>6. on => r.at # 0
  <2>1. SUFFICES ASSUME on, r.at = 0 PROVE FALSE
    OBVIOUS
  <2>2. r.found = {}
    BY <1>2, <1>3, <2>1
  <2> QED
    BY <2>1, <2>2, FS_EmptySet, CountAssumption DEF Full
<1>7. FeedThrough(n) = r.at
    BY <1>3, <1>5, <1>6 DEF FeedThrough, None
<1>8. n.feed \in Seq(Row) /\ RowsExact(c, n.feed, 1, r.at)
    BY <1>2, <1>3, <1>5, RowsConcat
<1>9. /\ n.from \in 1 .. Len(Events) + 1 /\ n.cursor \in 0 .. Len(Events)
      /\ n.anchor \in 0 .. MaxHeight
    BY <1>2, <1>3, <1>5, MaxHeightAssumption DEF None
<1>10. Idle.pc = "ok"
    BY DEF Idle
<1> QED
    BY <1>1, <1>7, <1>8, <1>9, <1>10 DEF FeedJoins

LEMMA ExaminesJoins ==
    ASSUME NEW c \in Client, RequestInv, FeedInv, req[c].pc = "feed",
           Examines(c, req[c].at + 1)
    PROVE  FeedJoins(c, mem'[c], req'[c])
<1> DEFINE m == mem[c]
           r == req[c]
           e == r.at + 1
           s == [r EXCEPT !.at = e, !.found = @ \cup {e}]
           row == <<e, Relevance(c, e)>>
           through == FeedThrough(m)
<1>1. /\ m.from \in 1 .. Len(Events) + 1 /\ m.cursor \in 0 .. Len(Events)
      /\ m.anchor \in 0 .. MaxHeight
      /\ m.feed \in Seq(Row) /\ RowsExact(c, m.feed, 1, through)
      /\ r.kind = "feed" /\ r.tip \in 0 .. MaxHeight /\ r.at \in through .. Len(Events)
      /\ r.rows \in Seq(Row) /\ r.found \subseteq (through + 1) .. r.at
      /\ RowsExact(c, r.rows, through + 1, r.at)
    BY DEF FeedInv, FeedJoins
<1>2. through \in Nat /\ r.at \in Nat /\ Len(Events) \in Nat /\ through <= r.at
    BY <1>1, EventsAssumption, SMTT(30) DEF FeedThrough, None
<1>3. e \in DOMAIN Events /\ e \in through .. Len(Events) /\ e > through /\ e \in Nat
    BY <1>2, EventsAssumption DEF Examines
<1>4. DOMAIN r = DOMAIN Idle
    BY DEF RequestInv
<1>5. /\ DOMAIN s = DOMAIN Idle /\ s.kind = "feed" /\ s.tip = r.tip /\ s.pc = "feed"
      /\ s.at = e /\ s.found = r.found \cup {e} /\ s.rows = r.rows
    BY <1>1, <1>4 DEF Idle
<1>6. s.found \subseteq (through + 1) .. e
    BY <1>1, <1>2, <1>5
<1>7. \/ Events[e].kind = "contract" /\ Goes(c, "feed", s)
      \/ Events[e].kind = "dust" /\ Goes(c, "feed", [s EXCEPT !.rows = Append(@, row)])
      \/ Events[e].kind \notin {"contract", "dust"}
           /\ Goes(c, "feed", [s EXCEPT !.pc = "holdJudge"])
    BY DEF Examines
<1> HIDE DEF s, e
<1>8. CASE Events[e].kind = "contract" /\ Goes(c, "feed", s)
  <2>1. req'[c] = s /\ mem'[c] = m
    BY <1>8, GoesFrame DEF RequestInv
  <2>2. RowsExact(c, r.rows, through + 1, e)
    BY <1>1, <1>2, <1>8, RowsSkip DEF e
  <2> QED
    BY <1>1, <1>3, <1>5, <1>6, <2>1, <2>2 DEF FeedJoins
<1>9. CASE Events[e].kind = "dust" /\ Goes(c, "feed", [s EXCEPT !.rows = Append(@, row)])
  <2> DEFINE t == [s EXCEPT !.rows = Append(@, row)]
  <2>1. req'[c] = t /\ mem'[c] = m
    BY <1>9, GoesFrame DEF RequestInv
  <2>2. /\ t.kind = "feed" /\ t.tip = r.tip /\ t.pc = "feed"
        /\ t.at = e /\ t.found = r.found \cup {e} /\ t.rows = Append(r.rows, row)
    BY <1>5 DEF Idle
  <2>3. e - 1 = r.at /\ through + 1 \in Nat /\ through + 1 <= e
    BY <1>2 DEF e
  <2>4. RowsExact(c, r.rows, through + 1, e - 1)
    BY <1>1, <2>3
  <2>5. Events[e].kind # "contract" /\ e \in DOMAIN Events /\ r.rows \in Seq(Row)
    BY <1>1, <1>3, <1>9
  <2>6. /\ Append(r.rows, row) \in Seq(Row)
        /\ RowsExact(c, Append(r.rows, row), through + 1, e)
    BY <2>3, <2>4, <2>5, RowsAppend
  <2>7. t.rows \in Seq(Row) /\ RowsExact(c, t.rows, through + 1, e)
    BY <2>2, <2>6
  <2> HIDE DEF t
  <2> QED
    BY <1>1, <1>3, <1>5, <1>6, <2>1, <2>2, <2>7 DEF FeedJoins
<1>10. CASE Events[e].kind \notin {"contract", "dust"}
            /\ Goes(c, "feed", [s EXCEPT !.pc = "holdJudge"])
  <2> DEFINE t == [s EXCEPT !.pc = "holdJudge"]
  <2>1. req'[c] = t /\ mem'[c] = m
    BY <1>10, GoesFrame DEF RequestInv
  <2>2. /\ t.kind = "feed" /\ t.tip = r.tip /\ t.pc = "holdJudge"
        /\ t.at = e /\ t.found = r.found \cup {e} /\ t.rows = r.rows
    BY <1>5 DEF Idle
  <2>3. RowsExact(c, t.rows, through + 1, t.at - 1)
    BY <1>1, <1>2, <2>2 DEF e
  <2> HIDE DEF t
  <2> QED
    BY <1>1, <1>3, <1>5, <1>6, <1>10, <2>1, <2>2, <2>3 DEF FeedJoins
<1> QED
    BY <1>7, <1>8, <1>9, <1>10

LEMMA JudgeJoins ==
    ASSUME NEW c \in Client, RequestInv, FeedInv, HoldJudge(c) \/ Judge(c)
    PROVE  FeedJoins(c, mem'[c], req'[c])
<1> DEFINE m == mem[c]
           r == req[c]
           row == <<r.at, Relevance(c, r.at)>>
           through == FeedThrough(m)
<1>0. r.pc \in {"holdJudge", "judge"}
    BY DEF HoldJudge, Judge, Goes
<1>1. /\ m.from \in 1 .. Len(Events) + 1 /\ m.cursor \in 0 .. Len(Events)
      /\ m.anchor \in 0 .. MaxHeight
      /\ m.feed \in Seq(Row) /\ RowsExact(c, m.feed, 1, through)
      /\ r.kind = "feed" /\ r.tip \in 0 .. MaxHeight /\ r.at \in through .. Len(Events)
      /\ r.rows \in Seq(Row) /\ r.found \subseteq (through + 1) .. r.at
      /\ RowsExact(c, r.rows, through + 1, r.at - 1)
      /\ r.at > through /\ Events[r.at].kind # "contract"
    BY <1>0 DEF FeedInv, FeedJoins
<1>2. through \in Nat /\ r.at \in Nat /\ Len(Events) \in Nat /\ through + 1 <= r.at
    BY <1>1, EventsAssumption DEF FeedThrough, None
<1>3. DOMAIN r = DOMAIN Idle
    BY DEF RequestInv
<1>4. CASE HoldJudge(c)
  <2> DEFINE t == [r EXCEPT !.pc = "judge"]
  <2>1. req'[c] = t /\ mem'[c] = m
    BY <1>4, GoesFrame DEF HoldJudge, RequestInv
  <2>2. /\ t.kind = "feed" /\ t.tip = r.tip /\ t.pc = "judge"
        /\ t.at = r.at /\ t.found = r.found /\ t.rows = r.rows
    BY <1>1, <1>3 DEF Idle
  <2> HIDE DEF t
  <2> QED
    BY <1>1, <2>1, <2>2 DEF FeedJoins
<1>5. CASE Judge(c)
  <2> DEFINE t == [r EXCEPT !.pc = "feed", !.rows = Append(@, row)]
  <2>1. req'[c] = t /\ mem'[c] = m
    BY <1>5, GoesFrame DEF Judge, RequestInv
  <2>2. /\ t.kind = "feed" /\ t.tip = r.tip /\ t.pc = "feed"
        /\ t.at = r.at /\ t.found = r.found /\ t.rows = Append(r.rows, row)
    BY <1>1, <1>3 DEF Idle
  <2>3. r.at \in DOMAIN Events
    BY <1>1, <1>2, EventsAssumption
  <2>4. through + 1 \in Nat /\ through + 1 <= r.at
    BY <1>2
  <2>5. /\ Events[r.at].kind # "contract" /\ r.rows \in Seq(Row)
        /\ RowsExact(c, r.rows, through + 1, r.at - 1)
    BY <1>1
  <2>6. /\ Append(r.rows, row) \in Seq(Row)
        /\ RowsExact(c, Append(r.rows, row), through + 1, r.at)
    BY <2>3, <2>4, <2>5, RowsAppend
  <2>8. t.rows \in Seq(Row) /\ RowsExact(c, t.rows, through + 1, r.at)
    BY <2>2, <2>6
  <2> HIDE DEF t
  <2> QED
    BY <1>1, <2>1, <2>2, <2>8 DEF FeedJoins
<1> QED
    BY <1>4, <1>5

LEMMA AskJoins ==
    ASSUME NEW c \in Client, RequestInv, FeedInv, Ask(c)
    PROVE  FeedJoins(c, mem'[c], req'[c])
<1> DEFINE m == mem[c]
           through == FeedThrough(m)
<1>1. PICK kind, start :
          /\ req'[c] = Asked(c, kind, start) /\ mem'[c] = m
          /\ \/ kind = "dust" /\ start = "ids"
             \/ kind = "feed" /\ m.cursor # None /\ start = "feed"
             \/ start = "tip" /\ (kind = "feed" => m.cursor = None)
    BY AskCases
<1> DEFINE r == Asked(c, kind, start)
<1>2. /\ m.from \in 1 .. Len(Events) + 1 /\ m.cursor \in 0 .. Len(Events)
      /\ m.anchor \in 0 .. MaxHeight
      /\ m.feed \in Seq(Row) /\ RowsExact(c, m.feed, 1, through)
    BY DEF FeedInv, FeedJoins
<1>3. through \in 0 .. Len(Events) /\ Len(Events) \in Nat
    BY <1>2, EventsAssumption DEF FeedThrough, None
<1>4. /\ r.kind = kind /\ r.pc = start /\ r.rows = <<>> /\ r.found = {}
      /\ r.tip = IF kind = "feed" THEN m.anchor ELSE None
      /\ kind = "feed" => r.at = IF m.cursor # None THEN m.cursor ELSE m.from - 1
    BY DEF Asked, Idle
<1> HIDE DEF r
<1>5. kind = "feed" => /\ r.tip \in 0 .. MaxHeight /\ r.at = through
                       /\ r.at \in through .. Len(Events)
  <2>2. through = IF m.cursor # None THEN m.cursor ELSE m.from - 1
    BY DEF FeedThrough
  <2>3. kind = "feed" => r.at = through /\ r.tip = m.anchor
    BY <1>4, <2>2
  <2> HIDE DEF through
  <2> QED
    BY <1>2, <1>3, <2>3
<1>6. <<>> \in Seq(Row)
    OBVIOUS
<1>7. RowsExact(c, <<>>, through + 1, through)
    BY <1>3, RowsEmpty
<1>8. r.found \subseteq (through + 1) .. r.at
    BY <1>4
<1>9. r.pc = "feed" => kind = "feed" /\ RowsExact(c, r.rows, through + 1, r.at)
    BY <1>1, <1>4, <1>5, <1>7
<1>10. r.pc \notin {"holdJudge", "judge"} /\ req'[c] = r /\ mem'[c] = m
    BY <1>1, <1>4 DEF r
<1> HIDE DEF m
<1> QED
    BY <1>2, <1>4, <1>5, <1>6, <1>8, <1>9, <1>10 DEF FeedJoins

\* current_tip becomes the anchor of a first page.
LEMMA ReadTipJoins ==
    ASSUME NEW c \in Client, PipelineInv, RequestInv, FeedInv, ReadTip(c)
    PROVE  FeedJoins(c, mem'[c], req'[c])
<1> DEFINE m == mem[c]
           through == FeedThrough(m)
           s(state) == [req[c] EXCEPT !.tip = shown["tip"], !.target = TxsTo[shown["tip"]],
                                      !.state = state]
<1>0. DOMAIN req[c] = DOMAIN Idle
    BY DEF RequestInv
<1>1. PICK state :
         \/ Goes(c, "tip", [s(state) EXCEPT !.pc = "lock"])
         \/ req[c].kind = "feed" /\ Goes(c, "tip", [s(state) EXCEPT !.pc = "feed"])
         \/ Goes(c, "tip", [s(state) EXCEPT !.pc = "hold"])
         \/ Answers(c, "tip", "ok", m)
    BY DEF ReadTip
<1>2. CASE Goes(c, "tip", [s(state) EXCEPT !.pc = "lock"])
           \/ Goes(c, "tip", [s(state) EXCEPT !.pc = "hold"])
  <2>1. DOMAIN s(state) = DOMAIN Idle
    BY <1>0
  <2>2. /\ [s(state) EXCEPT !.pc = "lock"].pc = "lock"
        /\ [s(state) EXCEPT !.pc = "hold"].pc = "hold"
    BY <2>1 DEF Idle
  <2> HIDE DEF s
  <2>3. DOMAIN req = Client /\ DOMAIN mem = Client
    BY DEF RequestInv
  <2>4. CASE Goes(c, "tip", [s(state) EXCEPT !.pc = "lock"])
    <3>1. req'[c] = [s(state) EXCEPT !.pc = "lock"] /\ mem'[c] = m
      BY <2>3, <2>4, GoesFrame
    <3> QED
      BY <2>2, <3>1, FeedApart DEF Apart, FeedPcs
  <2>5. CASE Goes(c, "tip", [s(state) EXCEPT !.pc = "hold"])
    <3>1. req'[c] = [s(state) EXCEPT !.pc = "hold"] /\ mem'[c] = m
      BY <2>3, <2>5, GoesFrame
    <3> QED
      BY <2>2, <3>1, FeedApart DEF Apart, FeedPcs
  <2> QED
    BY <1>2, <2>4, <2>5
<1>3. CASE req[c].kind = "feed" /\ Goes(c, "tip", [s(state) EXCEPT !.pc = "feed"])
  <2> DEFINE r == [s(state) EXCEPT !.pc = "feed"]
  <2>1. req'[c] = r /\ mem'[c] = m /\ req[c].pc = "tip"
    BY <1>3, GoesFrame DEF RequestInv
  <2>2. /\ r.kind = "feed" /\ r.pc = "feed" /\ r.tip = shown["tip"]
        /\ r.at = req[c].at /\ r.rows = req[c].rows /\ r.found = req[c].found
    BY <1>0, <1>3 DEF Idle
  <2> HIDE DEF r
  <2>3. shown["tip"] \in 0 .. MaxHeight
    BY PartitionNames DEF PipelineInv
  <2>4. FeedJoins(c, m, req[c])
    BY DEF FeedInv
  <2>5. through \in Nat
    BY <2>4, EventsAssumption DEF FeedJoins, FeedThrough, None
  <2>6. RowsExact(c, <<>>, through + 1, through)
    BY <2>5, RowsEmpty
  <2> QED
    BY <1>3, <2>1, <2>2, <2>3, <2>4, <2>6 DEF FeedJoins
<1>4. CASE Answers(c, "tip", "ok", m)
    BY <1>4, AnswersApart, FeedApart DEF Ended
<1> QED
    BY <1>1, <1>2, <1>3, <1>4

FeedKept(c) ==
    /\ req'[c].pc \notin FeedPcs
    /\ \A f \in {"from", "anchor", "cursor", "feed"} : mem'[c][f] = mem[c][f]

LEMMA DustAside ==
    ASSUME NEW c \in Client, RequestInv, ReadHighest(c) \/ DustNext(c), FeedInv
    PROVE  FeedJoins(c, mem'[c], req'[c])
<1> USE DEF RequestInv
<1>0. DOMAIN req[c] = DOMAIN Idle /\ DOMAIN mem[c] = DOMAIN Fresh
    OBVIOUS
<1>1. FeedKept(c)
  <2>1. CASE ReadHighest(c)
    <3>1. req'[c] = [req[c] EXCEPT !.pc = "dust", !.target = EventsTo[shown["ids"]]]
          /\ mem'[c] = mem[c]
        BY <2>1, GoesFrame DEF ReadHighest
    <3> QED
        BY <1>0, <3>1 DEF Idle, FeedPcs, FeedKept
  <2>2. ASSUME NEW dust, NEW from,
               Answers(c, "dust", "ok", [mem[c] EXCEPT !.dust = dust, !.dustFrom = from])
        PROVE  FeedKept(c)
    <3> DEFINE m == [mem[c] EXCEPT !.dust = dust, !.dustFrom = from]
    <3>1. \A f \in {"from", "anchor", "cursor", "feed"} : m[f] = mem[c][f]
        BY <1>0 DEF Fresh
    <3>2. Answers(c, "dust", "ok", m)
        BY <2>2
    <3> HIDE DEF m
    <3>3. req'[c] = Idle /\ mem'[c] = m
        BY <3>2, AnswersFrame
    <3> QED
        BY <3>1, <3>3 DEF Idle, FeedPcs, FeedKept
  <2>3. CASE Answers(c, "dust", "missing", mem[c])
    <3>1. req'[c] = [req[c] EXCEPT !.pc = "missing"] /\ mem'[c] = mem[c]
        BY <2>3, AnswersFrame
    <3> QED
        BY <1>0, <3>1 DEF Idle, FeedPcs, FeedKept
  <2>4. ASSUME NEW at, NEW found, Goes(c, "dust", [req[c] EXCEPT !.at = at, !.found = found])
        PROVE  FeedKept(c)
    <3>1. req'[c] = [req[c] EXCEPT !.at = at, !.found = found] /\ mem'[c] = mem[c]
          /\ req[c].pc = "dust"
        BY <2>4, GoesFrame
    <3> QED
        BY <1>0, <3>1 DEF Idle, FeedPcs, FeedKept
  <2>5. CASE DustNext(c)
    <3>1. \/ \E dust, from : Answers(c, "dust", "ok",
                                [mem[c] EXCEPT !.dust = dust, !.dustFrom = from])
          \/ Answers(c, "dust", "missing", mem[c])
          \/ \E at, found : Goes(c, "dust", [req[c] EXCEPT !.at = at, !.found = found])
        BY <2>5 DEF DustNext
    <3> QED
        BY <3>1, <2>2, <2>3, <2>4
  <2> QED
    BY <2>1, <2>5
<1>2. /\ req'[c].pc \notin FeedPcs /\ mem'[c].from = mem[c].from
      /\ mem'[c].anchor = mem[c].anchor /\ mem'[c].cursor = mem[c].cursor
      /\ mem'[c].feed = mem[c].feed
    BY <1>1 DEF FeedKept
<1> QED
    BY <1>2 DEF FeedInv, FeedJoins, FeedPcs, FeedThrough, FeedKept

LEMMA InitFeed == Init => FeedInv
<1> SUFFICES ASSUME Init, NEW c \in Client PROVE FeedJoins(c, mem[c], req[c])
    BY DEF FeedInv
<1>1. mem[c] = Fresh /\ req[c] = Idle
    BY DEF Init
<1>2. FeedThrough(Fresh) = 0 /\ RowsExact(c, <<>>, 0 + 1, 0)
    BY RowsEmpty DEF FeedThrough, Fresh, None
<1>3. <<>> \in Seq(Row) /\ Len(Events) \in Nat
    BY EventsAssumption
<1>4. Fresh.feed = <<>> /\ Fresh.from = 1 /\ Fresh.cursor = 0 /\ Fresh.anchor = 0
    BY DEF Fresh, None
<1>5. Idle.pc = "ok"
    BY DEF Idle
<1> QED
    BY <1>1, <1>2, <1>3, <1>4, <1>5, MaxHeightAssumption DEF FeedJoins

LEMMA FeedStep == PipelineInv /\ RequestInv /\ FeedInv /\ [Next]_vars => FeedInv'
<1> SUFFICES ASSUME PipelineInv, RequestInv, FeedInv, [Next]_vars PROVE FeedInv'
    OBVIOUS
<1>1. CASE UNCHANGED <<req, mem>>
    BY <1>1 DEF FeedInv
<1>2. ASSUME NEW c \in Client, Ask(c) \/ Serve(c) PROVE FeedInv'
  <2>1. Frame(c)
    BY <1>2, RequestFrame DEF RequestInv
  <2>2. FeedJoins(c, mem'[c], req'[c])
    <3>1. CASE Shielded(c) \/ Parameters(c)
        BY <3>1, ShieldedApart, FeedApart
    <3>2. CASE Answers(c, "feed", "missing", mem[c])
        BY <3>2, AnswersApart, FeedApart DEF Ended
    <3>3. CASE FeedNext(c)
        BY <3>2, <3>3, FeedNextCases, FeedPageJoins, ExaminesJoins
    <3> QED
        BY <1>2, <3>1, <3>3, AskJoins, ReadTipJoins, JudgeJoins, DustAside DEF Serve, Feed
  <2> QED
    BY <2>1, <2>2 DEF FeedInv, Frame
<1> QED
    BY <1>1, <1>2, IndexFrame DEF Next, vars

LEMMA Least ==
    ASSUME NEW S \in SUBSET Nat, S # {}
    PROVE  \E m \in S : \A n \in S : m <= n
<1> DEFINE R == OpToRel(<, Nat)
<1>1. PICK m \in S : \A n \in S : ~(<<n, m>> \in R)
    BY NatLessThanWellFounded, WFMin
<1>2. \A n \in S : m <= n
  <2>1. SUFFICES ASSUME NEW n \in S PROVE m <= n
    OBVIOUS
  <2>2. m \in Nat /\ n \in Nat
    OBVIOUS
  <2>3. n < m => <<n, m>> \in R
    BY <2>2 DEF OpToRel
  <2>4. ~(n < m)
    BY <1>1, <2>1, <2>3
  <2> QED
    BY <2>2, <2>4
<1> QED
    BY <1>2

LEMMA AskDust ==
    ASSUME NEW c \in Client, RequestInv, DustInv, Ask(c), NEW visible
    PROVE  DustJoins(mem'[c], req'[c], visible)
<1> DEFINE m == mem[c]
<1>1. PICK kind, start :
          /\ req'[c] = Asked(c, kind, start) /\ mem'[c] = m
          /\ \/ kind = "dust" /\ start = "ids"
             \/ kind = "feed" /\ m.cursor # None /\ start = "feed"
             \/ start = "tip" /\ (kind = "feed" => m.cursor = None)
    BY AskCases
<1> DEFINE r == Asked(c, kind, start)
<1>2. m.dustFrom \in 1 .. Len(Events) + 1 /\ DustAmong(1, m.dustFrom - 1) \subseteq m.dust
    BY DEF DustInv, DustJoins
<1>3. r.kind = kind /\ r.pc = start /\ r.found = {} /\ (kind # "feed" => r.at = m.dustFrom - 1)
    BY DEF Asked, Idle
<1>4. req'[c] = r
    BY <1>1
<1> HIDE DEF r
<1>5. r.pc = "ids" => r.at = m.dustFrom - 1
    BY <1>1, <1>3
<1>6. Len(Events) \in Nat
    BY EventsAssumption
<1>7. r.pc = "ids" => r.at \in m.dustFrom - 1 .. Len(Events)
                      /\ DustAmong(m.dustFrom, r.at) = {}
    BY <1>2, <1>5, <1>6 DEF DustAmong
<1>8. r.pc # "dust" /\ mem'[c] = m
    BY <1>1, <1>3
<1> HIDE DEF m
<1> QED
    BY <1>2, <1>4, <1>7, <1>8 DEF DustJoins

\* NEXT_EVENT_ID is read when the events it counts are visible.
LEMMA ReadHighestDust ==
    ASSUME NEW c \in Client, PipelineInv, RequestInv, DustInv, ReadHighest(c)
    PROVE  DustJoins(mem'[c], req'[c], EventsTo[shown["events"]])
<1> DEFINE r == [req[c] EXCEPT !.pc = "dust", !.target = EventsTo[shown["ids"]]]
<1>1. req'[c] = r /\ mem'[c] = mem[c] /\ req[c].pc = "ids"
    BY GoesFrame DEF ReadHighest, RequestInv
<1>2. /\ r.pc = "dust" /\ r.target = EventsTo[shown["ids"]]
      /\ r.at = req[c].at /\ r.found = req[c].found
    BY DEF RequestInv, Idle
<1> HIDE DEF r
<1>3. /\ shown["ids"] \in 0 .. MaxHeight /\ shown["events"] \in 0 .. MaxHeight
      /\ shown["ids"] <= shown["events"]
    BY PartitionNames DEF PipelineInv
<1>4. EventsTo[shown["ids"]] \in 0 .. EventsTo[shown["events"]]
    BY <1>3, EventsToMonotonic
<1> QED
    BY <1>1, <1>2, <1>4 DEF DustInv, DustJoins

LEMMA DustNextDust ==
    ASSUME NEW c \in Client, PipelineInv, RequestInv, DustInv, DustNext(c)
    PROVE  DustJoins(mem'[c], req'[c], EventsTo[shown["events"]])
<1> DEFINE m == mem[c]
           r == req[c]
           top == EventsTo[shown["events"]]
           ahead == {e \in (r.at + 1) .. top : Events[e].kind = "dust"}
           e == CHOOSE i \in ahead : \A j \in ahead : i <= j
<1>1. r.pc = "dust"
    BY DEF DustNext, Goes, Answers
<1>2. /\ m.dustFrom \in 1 .. Len(Events) + 1
      /\ DustAmong(1, m.dustFrom - 1) \subseteq m.dust
      /\ r.at \in m.dustFrom - 1 .. Len(Events)
      /\ DustAmong(m.dustFrom, r.at) \subseteq r.found
      /\ r.target \in 0 .. top
    BY <1>1 DEF DustInv, DustJoins
<1>3. top \in 0 .. Len(Events) /\ Len(Events) \in Nat
    BY EventsToMonotonic, PartitionNames, EventsAssumption DEF PipelineInv
<1>4. r.at \in Nat /\ m.dustFrom \in Nat
    BY <1>2, <1>3
<1>5. DOMAIN r = DOMAIN Idle /\ DOMAIN m = DOMAIN Fresh
    BY DEF RequestInv
<1>6. IF ahead = {} \/ Full(c)
      THEN Answers(c, "dust", "ok", [m EXCEPT !.dust = @ \cup r.found,
                                              !.dustFrom = DustThrough(c) + 1])
      ELSE IF Block(e) > shown["blocks"] THEN Answers(c, "dust", "missing", m)
      ELSE Goes(c, "dust", [r EXCEPT !.at = e, !.found = @ \cup {e}])
    BY DEF DustNext
\* Not full, the page has come past the highest id that was read.
<1>7. CASE ahead = {} \/ Full(c)
  <2> DEFINE n == [m EXCEPT !.dust = @ \cup r.found, !.dustFrom = DustThrough(c) + 1]
  <2>1. Answers(c, "dust", "ok", n)
    BY <1>6, <1>7
  <2>2. n.dust = m.dust \cup r.found /\ n.dustFrom = DustThrough(c) + 1
    BY <1>5 DEF Fresh
  <2> HIDE DEF n
  <2>3. req'[c] = Idle /\ mem'[c] = n
    BY <2>1, AnswersFrame DEF RequestInv
  <2>4. DustThrough(c) \in 0 .. Len(Events)
    BY <1>2, <1>3 DEF DustThrough
  <2>5. ASSUME NEW d \in 1 .. DustThrough(c), Events[d].kind = "dust"
        PROVE  d \in m.dust \cup r.found
    <3>1. CASE d <= r.at
        BY <1>2, <1>4, <2>5, <3>1 DEF DustAmong
    <3>2. CASE d > r.at
      <4>1. ~Full(c) /\ d <= r.target
        BY <1>4, <2>5, <3>2 DEF DustThrough
      <4>2. d \in ahead
        BY <1>2, <1>3, <1>4, <2>5, <3>2, <4>1
      <4> QED
        BY <1>7, <4>1, <4>2
    <3> QED
        BY <1>4, <3>1, <3>2
  <2>6. DustAmong(1, n.dustFrom - 1) \subseteq n.dust
    BY <2>2, <2>4, <2>5, <1>3 DEF DustAmong
  <2>7. n.dustFrom \in 1 .. Len(Events) + 1
    BY <2>2, <2>4, <1>3
  <2> QED
    BY <2>3, <2>6, <2>7 DEF DustJoins, Idle
<1>8. CASE ~(ahead = {} \/ Full(c)) /\ Answers(c, "dust", "missing", m)
  <2>1. Apart(c)
    BY <1>8, AnswersApart DEF Ended
  <2> QED
    BY <2>1, DustApart
<1>9. CASE ahead # {} /\ Goes(c, "dust", [r EXCEPT !.at = e, !.found = @ \cup {e}])
  <2> DEFINE t == [r EXCEPT !.at = e, !.found = @ \cup {e}]
  <2>1. req'[c] = t /\ mem'[c] = m
    BY <1>9, GoesFrame DEF RequestInv
  <2>2. ahead \in SUBSET Nat
    BY <1>3, <1>4
  <2>3. e \in ahead /\ \A j \in ahead : e <= j
    <3> HIDE DEF ahead
    <3> QED
        BY <1>9, <2>2, Least
  <2> HIDE DEF e
  <2>4. /\ t.pc = "dust" /\ t.at = e /\ t.found = r.found \cup {e} /\ t.target = r.target
    BY <1>1, <1>5 DEF Idle
  <2> HIDE DEF t
  <2>5. e \in r.at + 1 .. top /\ e \in Nat
    BY <1>3, <1>4, <2>3
  <2>6. DustAmong(m.dustFrom, e) \subseteq r.found \cup {e}
    <3> SUFFICES ASSUME NEW d \in m.dustFrom .. e, Events[d].kind = "dust", d # e
                 PROVE  d \in r.found
        BY DEF DustAmong
    <3>1. d \notin ahead
        BY <1>4, <2>3, <2>5
    <3>2. d <= r.at
        BY <1>3, <1>4, <2>5, <3>1
    <3> QED
        BY <1>2, <1>4, <3>2 DEF DustAmong
  <2>7. e \in m.dustFrom - 1 .. Len(Events)
    BY <1>2, <1>3, <1>4, <2>5
  <2> QED
    BY <1>2, <2>1, <2>4, <2>6, <2>7 DEF DustJoins
<1> QED
    BY <1>6, <1>7, <1>8, <1>9

LEMMA ReadTipDust ==
    ASSUME NEW c \in Client, RequestInv, DustInv, ReadTip(c), NEW visible
    PROVE  DustJoins(mem'[c], req'[c], visible)
<1> DEFINE s(state) == [req[c] EXCEPT !.tip = shown["tip"], !.target = TxsTo[shown["tip"]],
                                      !.state = state]
<1>1. PICK state :
         \/ Goes(c, "tip", [s(state) EXCEPT !.pc = "lock"])
         \/ Goes(c, "tip", [s(state) EXCEPT !.pc = "feed"])
         \/ Goes(c, "tip", [s(state) EXCEPT !.pc = "hold"])
         \/ Answers(c, "tip", "ok", mem[c])
    BY DEF ReadTip
<1>2. ASSUME NEW start \in {"lock", "feed", "hold"},
             Goes(c, "tip", [s(state) EXCEPT !.pc = start])
      PROVE  DustJoins(mem'[c], req'[c], visible)
  <2>1. [s(state) EXCEPT !.pc = start].pc = start
    BY DEF RequestInv, Idle
  <2> HIDE DEF s
  <2>2. req'[c].pc = start /\ mem'[c] = mem[c]
    BY <1>2, <2>1, GoesFrame DEF RequestInv
  <2> QED
    BY <2>2 DEF DustInv, DustJoins
<1>3. CASE Answers(c, "tip", "ok", mem[c])
    BY <1>3, AnswersApart, DustApart DEF Ended
<1> QED
    BY <1>1, <1>2, <1>3

\* A page of the other feed.
LEMMA FeedAside ==
    ASSUME NEW c \in Client, PipelineInv, RequestInv, FeedInv, DustInv, Feed(c), NEW visible
    PROVE  DustJoins(mem'[c], req'[c], visible)
<1> DEFINE Aside == /\ req'[c].pc \notin {"ids", "dust"}
                    /\ mem'[c].dust = mem[c].dust /\ mem'[c].dustFrom = mem[c].dustFrom
<1>0. DOMAIN req[c] = DOMAIN Idle /\ DOMAIN mem[c] = DOMAIN Fresh
    BY DEF RequestInv
<1>1. ASSUME NEW more \in BOOLEAN, FeedPage(c, more) PROVE Aside
  <2>1. PICK feed, from, cursor, anchor :
            Answers(c, "feed", "ok", [mem[c] EXCEPT !.feed = feed, !.from = from,
                                                    !.cursor = cursor, !.anchor = anchor])
    BY <1>1 DEF FeedPage
  <2> DEFINE m == [mem[c] EXCEPT !.feed = feed, !.from = from,
                                 !.cursor = cursor, !.anchor = anchor]
  <2>2. m.dust = mem[c].dust /\ m.dustFrom = mem[c].dustFrom
    BY <1>0 DEF Fresh
  <2>3. Answers(c, "feed", "ok", m)
    BY <2>1
  <2> HIDE DEF m
  <2>4. req'[c] = Idle /\ mem'[c] = m
    BY <2>3, AnswersFrame DEF RequestInv
  <2> QED
    BY <2>2, <2>4 DEF Idle
<1>2. ASSUME Answers(c, "feed", "missing", mem[c]) PROVE Aside
    BY <1>2, AnswersApart DEF Ended, Apart, Feeds
<1>3. ASSUME req[c].pc = "feed" /\ Examines(c, req[c].at + 1) PROVE Aside
  <2> DEFINE e == req[c].at + 1
             r == [req[c] EXCEPT !.at = e, !.found = @ \cup {e}]
  <2>1. r.pc = "feed" /\ DOMAIN r = DOMAIN Idle
    BY <1>0, <1>3 DEF Idle
  <2>2. \/ Goes(c, "feed", r)
        \/ Goes(c, "feed", [r EXCEPT !.rows = Append(@, <<e, Relevance(c, e)>>)])
        \/ Goes(c, "feed", [r EXCEPT !.pc = "holdJudge"])
    BY <1>3, Zenon DEF Examines
  <2> HIDE DEF r
  <2>3. req'[c].pc \in {"feed", "holdJudge"} /\ mem'[c] = mem[c]
    BY <2>1, <2>2, GoesFrame DEF Idle, RequestInv
  <2> QED
    BY <2>3
<1>4. ASSUME HoldJudge(c) PROVE Aside
  <2>1. req'[c] = [req[c] EXCEPT !.pc = "judge"] /\ mem'[c] = mem[c]
    BY <1>4, GoesFrame DEF HoldJudge, RequestInv
  <2> QED
    BY <1>0, <2>1 DEF Idle
<1>5. ASSUME Judge(c) PROVE Aside
  <2> DEFINE rows == Append(req[c].rows, <<req[c].at, Relevance(c, req[c].at)>>)
             r == [req[c] EXCEPT !.pc = "feed", !.rows = rows]
  <2>0. Goes(c, "judge", r)
    BY <1>5 DEF Judge
  <2> HIDE DEF rows
  <2>1. req'[c] = r /\ mem'[c] = mem[c]
    BY <2>0, GoesFrame DEF RequestInv
  <2> QED
    BY <1>0, <2>1 DEF Idle
<1>6. Aside
    BY <1>1, <1>2, <1>3, <1>4, <1>5, FeedNextCases DEF Feed
<1> QED
    BY <1>6 DEF DustInv, DustJoins

LEMMA InitDust == Init => DustInv
<1> SUFFICES ASSUME Init, NEW c \in Client, NEW visible PROVE DustJoins(Fresh, Idle, visible)
    BY DEF DustInv, Init
<1>1. DustAmong(1, 1 - 1) = {}
    BY DEF DustAmong
<1> QED
    BY <1>1, EventsAssumption DEF DustJoins, Fresh, Idle

LEMMA DustStep ==
    PipelineInv /\ RequestInv /\ FeedInv /\ DustInv /\ [Next]_vars => DustInv'
<1> SUFFICES ASSUME PipelineInv, RequestInv, FeedInv, DustInv, [Next]_vars PROVE DustInv'
    OBVIOUS
<1>1. CASE UNCHANGED vars
    BY <1>1 DEF DustInv, vars, pipeline
\* More events become visible.
<1>2. CASE Index
  <2>1. UNCHANGED <<req, mem>>
    BY <1>2, IndexFrame
  <2>2. /\ shown["events"] \in 0 .. MaxHeight /\ shown'["events"] \in 0 .. MaxHeight
        /\ shown["events"] <= shown'["events"]
    BY <1>2, VisibleGrows, PartitionNames DEF PipelineInv
  <2>3. /\ EventsTo[shown["events"]] \in Nat /\ EventsTo[shown'["events"]] \in Nat
        /\ EventsTo[shown["events"]] <= EventsTo[shown'["events"]]
    BY <2>2, EventsToMonotonic, EventsAssumption
  <2>4. DustInv' = \A c \in Client : DustJoins(mem[c], req[c], EventsTo[shown'["events"]])
    BY <2>1 DEF DustInv
  <2> QED
    BY <2>3, <2>4 DEF DustInv, DustJoins
<1>3. ASSUME NEW c \in Client, Ask(c) \/ Serve(c) PROVE DustInv'
  <2>1. Frame(c) /\ shown' = shown
    BY <1>3, RequestFrame DEF RequestInv, Frame, pipeline
  <2>2. DustJoins(mem'[c], req'[c], EventsTo[shown["events"]])
    BY <1>3, AskDust, ReadTipDust, ReadHighestDust, DustNextDust, FeedAside,
       ShieldedApart, DustApart DEF Serve
  <2> QED
    BY <2>1, <2>2 DEF DustInv, Frame
<1> QED
    BY <1>1, <1>2, <1>3 DEF Next

(* Shielded sync *)

\* The chain has transactions in blocks, and events in transactions.
LEMMA TxsTyped ==
    /\ DOMAIN Txs = 1 .. Len(Txs) /\ Len(Txs) \in Nat
    /\ \A t \in DOMAIN Txs : Txs[t].block \in 1 .. MaxHeight
<1> DEFINE T == [for : SUBSET Key, block : 1 .. MaxHeight]
<1>1. Txs \in Seq(T)
    BY TxsAssumption
<1>2. \A t \in DOMAIN Txs : Txs[t] \in T
  <2> HIDE DEF T
  <2> QED
    BY <1>1
<1> QED
    BY <1>1, <1>2

LEMMA EventsTyped == \A e \in DOMAIN Events : Events[e].tx \in DOMAIN Txs
<1> DEFINE E == [kind : Kinds, tx : DOMAIN Txs]
<1>1. Events \in Seq(E)
    BY EventsAssumption
<1>2. \A e \in DOMAIN Events : Events[e] \in E
  <2> HIDE DEF E
  <2> QED
    BY <1>1
<1> QED
    BY <1>2

\* Outputs are numbered through, transaction by transaction.
LEMMA EndMonotonic ==
    /\ \A t \in 0 .. Len(Txs) : End[t] \in Nat
    /\ \A s, t \in 0 .. Len(Txs) : s <= t => End[s] <= End[t]
    /\ \A t \in DOMAIN Txs : t - 1 \in 0 .. Len(Txs) /\ Begin[t] = End[t - 1]
<1> DEFINE Outputs(t) == {e \in DOMAIN Events :
                             Events[e].kind = "output" /\ Events[e].tx <= t}
<1>1. \A e \in DOMAIN Events : Events[e].tx \in 1 .. Len(Txs)
    BY EventsTyped, TxsTyped
<1>2. IsFiniteSet(DOMAIN Events)
  <2>1. DOMAIN Events = 1 .. Len(Events) /\ Len(Events) \in Nat
    BY EventsAssumption
  <2> QED
    BY <2>1, FS_Interval
<1>3. \A t \in 0 .. Len(Txs) : IsFiniteSet(Outputs(t)) /\ Cardinality(Outputs(t)) \in Nat
    BY <1>2, FS_Subset, FS_CardinalityType
<1>4. \A s, t \in 0 .. Len(Txs) : s <= t => Outputs(s) \subseteq Outputs(t)
    BY <1>1, TxsTyped
<1>5. \A s, t \in 0 .. Len(Txs) : s <= t => Cardinality(Outputs(s)) <= Cardinality(Outputs(t))
    BY <1>3, <1>4, FS_Subset
<1>6. \A t \in 0 .. Len(Txs) : End[t] = Cardinality(Outputs(t))
    BY DEF End
<1>7. \A t \in DOMAIN Txs : t - 1 \in 0 .. Len(Txs) /\ Begin[t] = End[t - 1]
    BY TxsTyped DEF Begin
<1> HIDE DEF Outputs
<1> QED
    BY <1>3, <1>5, <1>6, <1>7

\* Blocks are numbered through too: a higher one has no earlier last transaction.
LEMMA TxsToMonotonic ==
    /\ \A h \in 0 .. MaxHeight : TxsTo[h] \in 0 .. Len(Txs)
    /\ \A g, h \in 0 .. MaxHeight : g <= h => TxsTo[g] <= TxsTo[h]
<1> DEFINE To(h) == {t \in DOMAIN Txs : Txs[t].block <= h}
<1>1. IsFiniteSet(DOMAIN Txs) /\ Cardinality(DOMAIN Txs) = Len(Txs)
  <2>1. /\ IsFiniteSet(1 .. Len(Txs))
        /\ Cardinality(1 .. Len(Txs)) = IF 1 > Len(Txs) THEN 0 ELSE Len(Txs) - 1 + 1
    BY TxsTyped, FS_Interval
  <2> QED
    BY TxsTyped, <2>1
<1>2. \A h \in 0 .. MaxHeight : IsFiniteSet(To(h)) /\ Cardinality(To(h)) <= Len(Txs)
  <2>1. \A h \in 0 .. MaxHeight : To(h) \subseteq DOMAIN Txs
    OBVIOUS
  <2> QED
    BY <1>1, <2>1, FS_Subset
<1>3. \A h \in 0 .. MaxHeight : TxsTo[h] = Cardinality(To(h)) /\ Cardinality(To(h)) \in Nat
    BY <1>2, FS_CardinalityType DEF TxsTo
<1>4. \A g, h \in 0 .. MaxHeight : g <= h => To(g) \subseteq To(h)
    BY TxsTyped, MaxHeightAssumption
<1>5. \A g, h \in 0 .. MaxHeight : g <= h => Cardinality(To(g)) <= Cardinality(To(h))
    BY <1>2, <1>4, FS_Subset
<1> HIDE DEF To
<1> QED
    BY <1>2, <1>3, <1>5, TxsTyped

\* Induction, of a set: one with 0 and the successors of its numbers has all.
LEMMA AllNumbers ==
    ASSUME NEW T \in SUBSET Nat, 0 \in T, \A n \in T : n + 1 \in T
    PROVE  T = Nat
<1> SUFFICES ASSUME Nat \ T # {} PROVE FALSE
    OBVIOUS
<1>1. PICK x \in Nat \ T : \A y \in Nat \ T : x <= y
    BY Least
<1>2. x \in Nat \ {0} /\ x - 1 \in Nat /\ x - 1 < x /\ (x - 1) + 1 = x
    OBVIOUS
<1>3. x - 1 \in T
    BY <1>1, <1>2
<1> QED
    BY <1>2, <1>3

\* The updates after each transaction are what their definition says.
LEMMA PassIs ==
    ASSUME NEW from, NEW txs
    PROVE  LET r == Pass(from, txs)
           IN  /\ r[0] = [applied |-> from, list |-> <<>>, inside |-> FALSE]
               /\ \A t \in 1 .. Len(Txs) :
                     r[t] = IF t \in txs THEN Extended(r[t - 1], t) ELSE r[t - 1]
<1> DEFINE n == Len(Txs)
           s == [applied |-> from, list |-> <<>>, inside |-> FALSE]
           Then(u, t) == IF t \in txs THEN Extended(u, t) ELSE u
           Follows(g, m) == g = [t \in 0 .. m |-> IF t = 0 THEN s ELSE Then(g[t - 1], t)]
           T == {m \in Nat : \E g : Follows(g, m)}
<1> HIDE DEF Then, s
<1>1. 0 \in T
  <2>1. Follows([t \in 0 .. 0 |-> s], 0)
    OBVIOUS
  <2> QED
    BY <2>1
<1>2. ASSUME NEW m \in T PROVE m + 1 \in T
  <2>1. PICK g : Follows(g, m)
    OBVIOUS
  <2> DEFINE k == [t \in 0 .. m + 1 |-> IF t <= m THEN g[t] ELSE Then(g[m], m + 1)]
  <2>2. ASSUME NEW t \in 0 .. m + 1
        PROVE  k[t] = IF t = 0 THEN s ELSE Then(k[t - 1], t)
    <3>1. CASE t <= m
      <4>1. t \in 0 .. m /\ k[t] = g[t] /\ (t # 0 => k[t - 1] = g[t - 1])
        BY <3>1
      <4> QED
        BY <2>1, <4>1
    <3>2. CASE t = m + 1
      <4>1. t # 0 /\ t - 1 = m /\ k[t - 1] = g[m]
        BY <3>2
      <4> QED
        BY <3>2, <4>1
    <3> QED
      BY <3>1, <3>2
  <2>3. Follows(k, m + 1)
    BY <2>2
  <2>4. m + 1 \in Nat
    OBVIOUS
  <2> QED
    BY <2>3, <2>4
<1>3. T = Nat
  <2> HIDE DEF T
  <2>1. T \in SUBSET Nat
    BY DEF T
  <2> QED
    BY <1>1, <1>2, <2>1, AllNumbers
<1>4. n \in Nat
    BY TxsTyped
<1>5. \E g : Follows(g, n)
    BY <1>3, <1>4
<1> DEFINE r == Pass(from, txs)
<1>6. Follows(r, n)
  <2>1. r = CHOOSE g : Follows(g, n)
    BY DEF Pass, Then, s
  <2> HIDE DEF Follows, r
  <2> QED
    BY <1>5, <2>1
<1> HIDE DEF r, n
<1>7. r[0] = s /\ \A t \in 1 .. n : r[t] = Then(r[t - 1], t)
  <2>1. \A t \in 0 .. n : r[t] = IF t = 0 THEN s ELSE Then(r[t - 1], t)
    BY <1>6
  <2>2. 0 \in 0 .. n /\ \A t \in 1 .. n : t \in 0 .. n /\ t # 0
    BY <1>4
  <2> QED
    BY <2>1, <2>2
<1> QED
    BY <1>7 DEF r, n, Then, s

\* What a wallet starts from.
LEMMA JoinedEmpty == Joined(<<>>, 0)
BY DEF Joined

\* A collapsed update joins on to the list.
LEMMA JoinedGap ==
    ASSUME NEW list, NEW a \in Nat, NEW b \in Nat, a < b, Joined(list, a)
    PROVE  Joined(Append(list, Update("collapsed", a, b, None)), b)
<1> DEFINE u == Update("collapsed", a, b, None)
           n == Len(list)
           more == Append(list, u)
<1>1. u \in UpdateRow /\ u.from = a /\ u.to = b /\ ~Sends(u)
    BY TxsTyped DEF Update, UpdateRow, None, Sends
<1> HIDE DEF u
<1>2. list \in Seq(UpdateRow) /\ n \in Nat /\ DOMAIN list = 1 .. n /\ (n = 0 <=> list = <<>>)
    BY DEF Joined
<1>3. /\ more \in Seq(UpdateRow) /\ Len(more) = n + 1 /\ more # <<>>
      /\ DOMAIN more = 1 .. n + 1 /\ more[n + 1] = u
      /\ \A i \in 1 .. n : more[i] = list[i]
    BY <1>1, <1>2, AppendProperties
<1> HIDE DEF more, n
<1>4. \A i \in 1 .. n : list[i].to \in Nat
  <2>1. \A i \in 1 .. n : list[i] \in UpdateRow
    BY <1>2
  <2> QED
    BY <2>1 DEF UpdateRow
<1>5. \A i \in 1 .. n + 1 : i = n + 1 \/ (i \in 1 .. n /\ i - 1 \in 0 .. n /\ i - 1 # n)
    BY <1>2
<1>6. \A i \in 1 .. n : i = 1 \/ i - 1 \in 1 .. n
    BY <1>2
<1>7. a = IF n = 0 THEN 0 ELSE list[n].to
    BY <1>2 DEF Joined, n
<1>8. ASSUME NEW i \in DOMAIN more
      PROVE  /\ more[i].from = IF i = 1 THEN 0 ELSE more[i - 1].to
             /\ more[i].from < more[i].to
                   \/ (Sends(more[i]) /\ more[i].from = more[i].to)
             /\ more[i].to <= b
             /\ Sends(more[i]) => /\ more[i].tx \in DOMAIN Txs
                                  /\ more[i].from = Begin[more[i].tx]
                                  /\ more[i].to = End[more[i].tx]
  <2>1. CASE i = n + 1
    <3>1. n = 0 => more[i].from = 0
      BY <1>1, <1>3, <1>7, <2>1
    <3>2. n # 0 => i # 1 /\ i - 1 = n /\ more[i - 1] = list[n]
      BY <1>2, <1>3, <2>1
    <3>3. more[i].from = IF i = 1 THEN 0 ELSE more[i - 1].to
      BY <1>1, <1>2, <1>3, <1>7, <2>1, <3>1, <3>2
    <3> QED
      BY <1>1, <1>3, <2>1, <3>3
  <2>2. CASE i \in 1 .. n
    <3>1. more[i] = list[i] /\ (i # 1 => more[i - 1] = list[i - 1])
      BY <1>3, <1>6, <2>2
    <3>2. /\ list[i].from = IF i = 1 THEN 0 ELSE list[i - 1].to
          /\ list[i].from < list[i].to
                \/ (Sends(list[i]) /\ list[i].from = list[i].to)
          /\ list[i].to <= a
          /\ Sends(list[i]) => /\ list[i].tx \in DOMAIN Txs
                               /\ list[i].from = Begin[list[i].tx]
                               /\ list[i].to = End[list[i].tx]
      BY <1>2, <2>2 DEF Joined
    <3>3. list[i].to <= b
      BY <1>4, <2>2, <3>2
    <3> QED
      BY <3>1, <3>2, <3>3
  <2> QED
    BY <1>3, <1>5, <2>1, <2>2
<1>9. ASSUME NEW i \in DOMAIN more, NEW j \in DOMAIN more,
             i < j, Sends(more[i]), Sends(more[j])
      PROVE  more[i].to < more[j].to
  <2>1. i \in 1 .. n /\ j \in 1 .. n
    BY <1>1, <1>3, <1>5, <1>9
  <2> QED
    BY <1>2, <1>3, <1>9, <2>1 DEF Joined
<1>10. b = more[Len(more)].to
    BY <1>1, <1>3
<1>11. Joined(more, b)
    BY <1>3, <1>8, <1>9, <1>10 DEF Joined
<1> QED
    BY <1>11 DEF more, u

\* A transaction joins on to the list where its outputs begin, after all of
\* the list's transactions.
LEMMA JoinedSend ==
    ASSUME NEW list, NEW t \in DOMAIN Txs, Joined(list, Begin[t]),
           \A i \in DOMAIN list : Sends(list[i]) => list[i].to < End[t]
    PROVE  Joined(Append(list, Update("transaction", Begin[t], End[t], t)), End[t])
<1> DEFINE a == Begin[t]
           b == End[t]
           u == Update("transaction", a, b, t)
           n == Len(list)
           more == Append(list, u)
<1>0. a \in Nat /\ b \in Nat /\ a <= b
    BY EndMonotonic, TxsTyped
<1>1. u \in UpdateRow /\ u.from = a /\ u.to = b /\ u.tx = t /\ Sends(u)
    BY <1>0, TxsTyped DEF Update, UpdateRow, Sends
<1> HIDE DEF u
<1>2. list \in Seq(UpdateRow) /\ n \in Nat /\ DOMAIN list = 1 .. n /\ (n = 0 <=> list = <<>>)
    BY DEF Joined
<1>3. /\ more \in Seq(UpdateRow) /\ Len(more) = n + 1 /\ more # <<>>
      /\ DOMAIN more = 1 .. n + 1 /\ more[n + 1] = u
      /\ \A i \in 1 .. n : more[i] = list[i]
    BY <1>1, <1>2, AppendProperties
<1>4. \A i \in 1 .. n : list[i].to \in Nat
  <2>1. \A i \in 1 .. n : list[i] \in UpdateRow
    BY <1>2
  <2> QED
    BY <2>1 DEF UpdateRow
<1>5. \A i \in 1 .. n + 1 : i = n + 1 \/ i \in 1 .. n
    BY <1>2
<1>6. \A i \in 1 .. n : i = 1 \/ i - 1 \in 1 .. n
    BY <1>2
<1>7. a = IF n = 0 THEN 0 ELSE list[n].to
    BY <1>2 DEF Joined
<1>8. ASSUME NEW i \in DOMAIN list
      PROVE  /\ list[i].from = IF i = 1 THEN 0 ELSE list[i - 1].to
             /\ list[i].from < list[i].to
                   \/ (Sends(list[i]) /\ list[i].from = list[i].to)
             /\ list[i].to <= a
             /\ Sends(list[i]) => /\ list[i].tx \in DOMAIN Txs
                                  /\ list[i].from = Begin[list[i].tx]
                                  /\ list[i].to = End[list[i].tx]
    BY DEF Joined
<1>9. \A i, j \in DOMAIN list :
          i < j /\ Sends(list[i]) /\ Sends(list[j]) => list[i].to < list[j].to
    BY DEF Joined
<1>10. \A i \in DOMAIN list : Sends(list[i]) => list[i].to < b
    OBVIOUS
<1>11. b = End[t] /\ a = Begin[t]
    OBVIOUS
<1> HIDE DEF more, n, a, b
<1>12. ASSUME NEW i \in DOMAIN more
       PROVE  /\ more[i].from = IF i = 1 THEN 0 ELSE more[i - 1].to
              /\ more[i].from < more[i].to
                    \/ (Sends(more[i]) /\ more[i].from = more[i].to)
              /\ more[i].to <= b
              /\ Sends(more[i]) => /\ more[i].tx \in DOMAIN Txs
                                   /\ more[i].from = Begin[more[i].tx]
                                   /\ more[i].to = End[more[i].tx]
  <2>1. CASE i = n + 1
    <3>1. n = 0 => more[i].from = 0
      BY <1>1, <1>3, <1>7, <2>1
    <3>2. n # 0 => i # 1 /\ i - 1 = n /\ more[i - 1] = list[n]
      BY <1>2, <1>3, <2>1
    <3>3. more[i].from = IF i = 1 THEN 0 ELSE more[i - 1].to
      BY <1>1, <1>2, <1>3, <1>7, <2>1, <3>1, <3>2
    <3> QED
      BY <1>0, <1>1, <1>3, <1>11, <2>1, <3>3
  <2>2. CASE i \in 1 .. n
    <3>1. more[i] = list[i] /\ (i # 1 => more[i - 1] = list[i - 1])
      BY <1>3, <1>6, <2>2
    <3>2. list[i].to <= b
      BY <1>0, <1>2, <1>4, <1>8, <2>2
    <3> QED
      BY <1>2, <1>8, <2>2, <3>1, <3>2
  <2> QED
    BY <1>3, <1>5, <2>1, <2>2
<1>13. ASSUME NEW i \in DOMAIN more, NEW j \in DOMAIN more,
              i < j, Sends(more[i]), Sends(more[j])
       PROVE  more[i].to < more[j].to
  <2>1. i \in 1 .. n
    BY <1>2, <1>3, <1>13
  <2>2. CASE j \in 1 .. n
    BY <1>2, <1>3, <1>9, <1>13, <2>1, <2>2
  <2>3. CASE j = n + 1
    BY <1>1, <1>2, <1>3, <1>10, <1>13, <2>1, <2>3
  <2> QED
    BY <1>3, <1>5, <2>2, <2>3
<1>14. b = more[Len(more)].to
    BY <1>1, <1>3
<1>15. Joined(more, b)
    BY <1>3, <1>12, <1>13, <1>14 DEF Joined
<1> QED
    BY <1>15 DEF more, u, a, b

\* Whatever a key decrypts is complete where no further transaction ends.
LEMMA CompleteThrough ==
    ASSUME NEW key, NEW list \in Seq(UpdateRow), NEW u \in UpdateRow, NEW a, NEW b,
           Complete(key, list, a),
           \A t \in DOMAIN Txs : Decrypts(key, t) /\ Begin[t] < End[t] /\ End[t] <= b
              => End[t] <= a \/ (Sends(u) /\ u.tx = t)
    PROVE  Complete(key, Append(list, u), b)
<1> DEFINE more == Append(list, u)
<1>1. /\ DOMAIN more = 1 .. Len(list) + 1 /\ DOMAIN list = 1 .. Len(list) /\ Len(list) \in Nat
      /\ more[Len(list) + 1] = u /\ \A i \in 1 .. Len(list) : more[i] = list[i]
    BY AppendProperties
<1> HIDE DEF more
<1> SUFFICES ASSUME NEW t \in DOMAIN Txs, Decrypts(key, t), Begin[t] < End[t], End[t] <= b
             PROVE  \E i \in DOMAIN more : Sends(more[i]) /\ more[i].tx = t
    BY DEF Complete, more
<1>2. CASE End[t] <= a
  <2>1. PICK i \in DOMAIN list : Sends(list[i]) /\ list[i].tx = t
    BY <1>2 DEF Complete
  <2>2. i \in DOMAIN more /\ more[i] = list[i]
    BY <1>1
  <2> QED
    BY <2>1, <2>2
<1>3. CASE Sends(u) /\ u.tx = t
  <2>1. Len(list) + 1 \in DOMAIN more
    BY <1>1
  <2> QED
    BY <1>1, <1>3, <2>1
<1> QED
    BY <1>2, <1>3

\* Two lists that were put together one update at a time.
LEMMA ConcatAppend ==
    ASSUME NEW S, NEW s \in Seq(S), NEW t \in Seq(S), NEW u \in S
    PROVE  /\ s \o Append(t, u) = Append(s \o t, u)
           /\ t \o <<u>> = Append(t, u) /\ t \o <<>> = t /\ <<>> \o t = t
           /\ s \o t \in Seq(S) /\ Append(t, u) \in Seq(S)
OBVIOUS

\* The gap, if there is one, joins on to what was sent and what is about to be.
LEMMA GapJoins ==
    ASSUME NEW key, NEW sent \in Seq(UpdateRow), NEW list \in Seq(UpdateRow),
           NEW a \in Nat, NEW b \in Nat, a <= b,
           Joined(sent \o list, a), Complete(key, sent \o list, a)
    PROVE  LET more == list \o Gap(a, b)
           IN  /\ more \in Seq(UpdateRow)
               /\ Joined(sent \o more, b) /\ Complete(key, sent \o more, a)
               /\ \A i \in DOMAIN (sent \o more) :
                     Sends((sent \o more)[i]) => (sent \o more)[i].to <= a
<1>1. \A i \in DOMAIN (sent \o list) : (sent \o list)[i].to <= a
    BY DEF Joined
<1>2. CASE a = b
  <2>1. Gap(a, b) = <<>>
    BY <1>2 DEF Gap
  <2>2. list \o Gap(a, b) = list
    BY <2>1
  <2> QED
    BY <1>1, <1>2, <2>2
<1>3. CASE a < b
  <2> DEFINE u == Update("collapsed", a, b, None)
             l == sent \o list
  <2>1. u \in UpdateRow /\ ~Sends(u)
    BY TxsTyped DEF Update, UpdateRow, None, Sends
  <2>2. Gap(a, b) = <<u>>
    BY <1>3 DEF Gap
  <2> HIDE DEF u
  <2>3. /\ list \o Gap(a, b) = Append(list, u) /\ Append(list, u) \in Seq(UpdateRow)
        /\ sent \o Append(list, u) = Append(l, u) /\ l \in Seq(UpdateRow)
    BY <2>1, <2>2, ConcatAppend
  <2> HIDE DEF l
  <2>4. Joined(Append(l, u), b)
    BY <1>3, JoinedGap DEF u, l
  <2>5. Complete(key, Append(l, u), a)
    BY <2>1, <2>3, CompleteThrough DEF l
  <2>6. \A i \in DOMAIN Append(l, u) : Sends(Append(l, u)[i]) => Append(l, u)[i].to <= a
    <3> SUFFICES ASSUME NEW i \in DOMAIN Append(l, u), Sends(Append(l, u)[i])
                 PROVE  Append(l, u)[i].to <= a
        OBVIOUS
    <3>1. i \in DOMAIN l /\ Append(l, u)[i] = l[i]
        BY <2>1, <2>3
    <3> QED
        BY <1>1, <3>1 DEF l
  <2> QED
    BY <2>3, <2>4, <2>5, <2>6
<1> QED
    BY <1>2, <1>3

Put == [applied : Nat, list : Seq(UpdateRow), inside : {FALSE}]

(* What holds of the updates u after each transaction t of a pass, of those    *)
(* that a key decrypts up to a target.                                         *)
Passed(key, sent, target, u, t) ==
    /\ u \in Put
    /\ \E s \in 0 .. Len(Txs) : u.applied = End[s]
    /\ u.applied <= End[target]
    /\ \A s \in 1 .. target : Decrypts(key, s) /\ s <= t => End[s] <= u.applied
    /\ Joined(sent \o u.list, u.applied)
    /\ Complete(key, sent \o u.list, u.applied)

\* No transaction contains the end of another one: a pass never refuses.
LEMMA NeverInside ==
    ASSUME NEW s \in 0 .. Len(Txs), NEW t \in DOMAIN Txs, End[s] < End[t]
    PROVE  End[s] <= Begin[t]
<1>1. s \in Nat /\ t \in Nat /\ t \in 0 .. Len(Txs) /\ End[s] \in Nat /\ End[t] \in Nat
    BY TxsTyped, EndMonotonic
<1>2. ~(t <= s)
    BY <1>1, EndMonotonic
<1>3. s <= t - 1
    BY <1>1, <1>2
<1> QED
    BY <1>3, EndMonotonic

\* A transaction with outputs ends before the next ones do.
LEMMA EndsBefore ==
    ASSUME NEW s \in DOMAIN Txs, NEW t \in 0 .. Len(Txs), Begin[s] < End[s], End[s] <= End[t]
    PROVE  s <= t
<1>1. s \in Nat /\ t \in Nat /\ s - 1 \in 0 .. Len(Txs) /\ s \in 0 .. Len(Txs)
    BY TxsTyped
<1>2. Begin[s] = End[s - 1] /\ Begin[s] \in Nat /\ End[s] \in Nat /\ End[t] \in Nat
    BY <1>1, EndMonotonic
<1>3. t <= s - 1 => End[t] <= End[s - 1]
    BY <1>1, EndMonotonic
<1> QED
    BY <1>1, <1>2, <1>3

LEMMA ExtendedPasses ==
    ASSUME NEW key, NEW sent \in Seq(UpdateRow), NEW target \in 0 .. Len(Txs),
           NEW t \in 1 .. target, Decrypts(key, t), NEW u,
           Passed(key, sent, target, u, t - 1)
    PROVE  Passed(key, sent, target, Extended(u, t), t)
<1>1. /\ t \in DOMAIN Txs /\ t \in 0 .. Len(Txs) /\ t \in Nat
      /\ Begin[t] \in Nat /\ End[t] \in Nat /\ Begin[t] <= End[t]
      /\ End[target] \in Nat /\ End[t] <= End[target]
    BY TxsTyped, EndMonotonic
<1>2. /\ u.applied \in Nat /\ u.list \in Seq(UpdateRow) /\ u.inside = FALSE
      /\ DOMAIN u = {"applied", "list", "inside"}
    BY DEF Passed, Put
<1>3. \A s \in 1 .. target : s <= t => s = t \/ s <= t - 1
    BY <1>1
<1>4. CASE End[t] <= u.applied
  <2>1. Extended(u, t) = u
    BY <1>4 DEF Extended
  <2> QED
    BY <1>3, <1>4, <2>1 DEF Passed
<1>5. CASE u.applied < End[t]
  <2>1. u.applied <= Begin[t]
    BY <1>1, <1>5, NeverInside DEF Passed
  <2> DEFINE gapped == u.list \o Gap(u.applied, Begin[t])
             row == Update("transaction", Begin[t], End[t], t)
             l == sent \o gapped
             v == [u EXCEPT !.applied = End[t], !.list = gapped \o <<row>>]
  <2>2. Extended(u, t) = v
    BY <1>1, <1>2, <1>5, <2>1 DEF Extended
  <2>3. /\ gapped \in Seq(UpdateRow) /\ Joined(l, Begin[t]) /\ Complete(key, l, u.applied)
        /\ \A i \in DOMAIN l : Sends(l[i]) => l[i].to <= u.applied
    BY <1>1, <1>2, <2>1, GapJoins DEF Passed
  <2>4. row \in UpdateRow /\ Sends(row) /\ row.tx = t
    BY <1>1, TxsTyped DEF Update, UpdateRow, Sends
  <2> HIDE DEF gapped, row
  <2>5. /\ gapped \o <<row>> = Append(gapped, row) /\ Append(gapped, row) \in Seq(UpdateRow)
        /\ sent \o Append(gapped, row) = Append(l, row) /\ l \in Seq(UpdateRow)
    BY <2>3, <2>4, ConcatAppend
  <2>6. v \in Put /\ v.applied = End[t] /\ sent \o v.list = Append(l, row)
    BY <1>1, <1>2, <2>5 DEF Put
  <2> HIDE DEF l, v
  <2>7. Joined(Append(l, row), End[t])
    <3>1. l \in Seq(UpdateRow) /\ \A i \in DOMAIN l : l[i].to \in Nat
      <4>1. \A i \in DOMAIN l : l[i] \in UpdateRow
        BY <2>5
      <4> QED
        BY <2>5, <4>1 DEF UpdateRow
    <3>2. \A i \in DOMAIN l : Sends(l[i]) => l[i].to < End[t]
      BY <1>1, <1>2, <1>5, <2>3, <3>1
    <3> QED
      BY <1>1, <2>3, <3>2, JoinedSend DEF row
  \* What ends by now and was not sent before is this transaction.
  <2>8. Complete(key, Append(l, row), End[t])
    <3>1. ASSUME NEW s \in DOMAIN Txs, Decrypts(key, s), Begin[s] < End[s], End[s] <= End[t]
          PROVE  End[s] <= u.applied \/ (Sends(row) /\ row.tx = s)
      <4>1. s <= t
        BY <1>1, <3>1, EndsBefore
      <4>2. s \in 1 .. target
        BY <1>1, <4>1, TxsTyped
      <4>3. s = t \/ s <= t - 1
        BY <1>3, <4>1, <4>2
      <4>4. s <= t - 1 => End[s] <= u.applied
        BY <3>1, <4>2 DEF Passed
      <4> QED
        BY <2>4, <4>3, <4>4
    <3>2. \A s \in DOMAIN Txs : Decrypts(key, s) /\ Begin[s] < End[s] /\ End[s] <= End[t]
              => End[s] <= u.applied \/ (Sends(row) /\ row.tx = s)
      BY <3>1
    <3>3. Complete(key, l, u.applied)
      BY <2>3
    <3> QED
      BY <2>4, <2>5, <3>2, <3>3, CompleteThrough
  <2>9. \A s \in 1 .. target : s <= t => End[s] <= End[t]
    BY <1>1, EndMonotonic, TxsTyped
  <2> QED
    BY <1>1, <2>2, <2>6, <2>7, <2>8, <2>9 DEF Passed
<1> QED
    BY <1>1, <1>2, <1>4, <1>5

\* From what a wallet has applied, a pass gets to the last transaction.
LEMMA PassPasses ==
    ASSUME NEW key, NEW sent \in Seq(UpdateRow), NEW target \in 0 .. Len(Txs), NEW from,
           \E s \in 0 .. Len(Txs) : from = End[s], from <= End[target],
           Joined(sent, from), Complete(key, sent, from)
    PROVE  Passed(key, sent, target,
                  Pass(from, {t \in 1 .. target : Decrypts(key, t)})[Len(Txs)], Len(Txs))
<1> DEFINE txs == {t \in 1 .. target : Decrypts(key, t)}
           r == Pass(from, txs)
           T == {n \in Nat : n <= Len(Txs) => Passed(key, sent, target, r[n], n)}
<1>1. /\ r[0] = [applied |-> from, list |-> <<>>, inside |-> FALSE]
      /\ \A t \in 1 .. Len(Txs) : r[t] = IF t \in txs THEN Extended(r[t - 1], t) ELSE r[t - 1]
    BY PassIs
<1> HIDE DEF r
<1>2. 0 \in T
  <2>1. from \in Nat
    BY EndMonotonic
  <2>2. r[0] \in Put /\ r[0].applied = from /\ r[0].list = <<>>
    BY <1>1, <2>1 DEF Put
  <2>3. sent \o r[0].list = sent
    BY <2>2
  <2>4. \A s \in 1 .. target : ~(s <= 0)
    BY TxsTyped
  <2>5. Passed(key, sent, target, r[0], 0)
    BY <2>2, <2>3, <2>4 DEF Passed
  <2> QED
    BY <2>5
<1>3. ASSUME NEW n \in T PROVE n + 1 \in T
  <2>1. SUFFICES ASSUME n + 1 <= Len(Txs) PROVE Passed(key, sent, target, r[n + 1], n + 1)
    OBVIOUS
  <2>2. /\ n \in Nat /\ n + 1 \in 1 .. Len(Txs) /\ (n + 1) - 1 = n
        /\ Passed(key, sent, target, r[n], n)
    BY <2>1, TxsTyped
  <2>3. r[n + 1] = IF n + 1 \in txs THEN Extended(r[n], n + 1) ELSE r[n]
    BY <1>1, <2>2
  <2>4. CASE n + 1 \in txs
    BY <2>2, <2>3, <2>4, ExtendedPasses
  <2>5. CASE n + 1 \notin txs
    <3>1. \A s \in 1 .. target : Decrypts(key, s) /\ s <= n + 1 => s <= n
      <4> SUFFICES ASSUME NEW s \in 1 .. target, Decrypts(key, s), s <= n + 1 PROVE s <= n
        OBVIOUS
      <4>1. s # n + 1
        BY <2>5
      <4>2. s \in Nat
        BY TxsTyped
      <4> QED
        BY <2>2, <4>1, <4>2
    <3> QED
      BY <2>2, <2>3, <2>5, <3>1 DEF Passed
  <2> QED
    BY <2>4, <2>5
<1>4. T = Nat
  <2>1. T \in SUBSET Nat
    OBVIOUS
  <2> HIDE DEF T
  <2> QED
    BY <1>2, <1>3, <2>1, AllNumbers
<1> QED
    BY <1>4, TxsTyped DEF r

\* The updates of an answer continue those of the answers before.
LEMMA UpdatesContinue ==
    ASSUME NEW key, NEW sent \in Seq(UpdateRow), NEW target \in 0 .. Len(Txs), NEW from,
           \E s \in 0 .. Len(Txs) : from = End[s], from <= End[target],
           Joined(sent, from), Complete(key, sent, from)
    PROVE  LET u == Updates(from, {t \in 1 .. target : Decrypts(key, t)}, End[target])
           IN  /\ u.inside = FALSE /\ u.applied = End[target]
               /\ Joined(sent \o u.list, End[target])
               /\ Complete(key, sent \o u.list, End[target])
<1> DEFINE all == Pass(from, {t \in 1 .. target : Decrypts(key, t)})[Len(Txs)]
           highest == End[target]
           more == all.list \o Gap(all.applied, highest)
           u == [all EXCEPT !.list = more,
                            !.applied = IF all.applied < highest THEN highest ELSE all.applied]
<1>1. Passed(key, sent, target, all, Len(Txs))
    BY PassPasses
<1>2. Updates(from, {t \in 1 .. target : Decrypts(key, t)}, highest) = u
    BY DEF Updates
<1> HIDE DEF all
<1>3. /\ all.applied \in Nat /\ all.list \in Seq(UpdateRow) /\ all.inside = FALSE
      /\ DOMAIN all = {"applied", "list", "inside"} /\ highest \in Nat
      /\ all.applied <= highest
    BY <1>1, EndMonotonic DEF Passed, Put
<1>4. u.inside = FALSE /\ u.list = more /\ u.applied = highest
    BY <1>3
<1>5. Joined(sent \o more, highest) /\ Complete(key, sent \o more, all.applied)
    BY <1>1, <1>3, GapJoins DEF Passed
<1> HIDE DEF more, u
<1>6. Complete(key, sent \o more, highest)
  <2>1. ASSUME NEW t \in DOMAIN Txs, Decrypts(key, t), Begin[t] < End[t], End[t] <= highest
        PROVE  End[t] <= all.applied
    <3>1. t <= target
      BY <2>1, EndsBefore
    <3>2. t \in 1 .. target /\ t <= Len(Txs)
      BY <3>1, TxsTyped
    <3> QED
      BY <1>1, <2>1, <3>2 DEF Passed
  <2> QED
    BY <1>5, <2>1 DEF Complete
<1> QED
    BY <1>2, <1>4, <1>5, <1>6

(* The steps *)

\* More of the chain is visible and scanned: what holds of a client still does.
LEMMA SyncsGrows ==
    ASSUME NEW c, NEW m, NEW r, NEW top \in 0 .. MaxHeight, NEW up \in 0 .. MaxHeight,
           NEW done \in 0 .. Len(Txs), NEW further \in 0 .. Len(Txs),
           top <= up, done <= further, r.pc \in Scanning => further = done,
           Synced(c, m, top), Syncs(c, m, r, top, done)
    PROVE  Synced(c, m, up) /\ Syncs(c, m, r, up, further)
<1>1. /\ TxsTo[top] \in 0 .. Len(Txs) /\ TxsTo[up] \in 0 .. Len(Txs)
      /\ TxsTo[top] <= TxsTo[up]
    BY TxsToMonotonic
<1>2. /\ End[TxsTo[top]] \in Nat /\ End[TxsTo[up]] \in Nat
      /\ End[TxsTo[top]] <= End[TxsTo[up]]
    BY <1>1, EndMonotonic
<1>3. m.applied \in Nat
    BY EndMonotonic DEF Synced
<1>4. m.applied <= End[TxsTo[up]]
    BY <1>2, <1>3 DEF Synced
<1>5. Synced(c, m, up)
    BY <1>4 DEF Synced
<1>6. \A tip \in 0 .. top : tip \in 0 .. up /\ TxsTo[tip] \in 0 .. Len(Txs)
    BY MaxHeightAssumption, TxsToMonotonic
<1>7. r.kind = "shielded" /\ r.pc \in {"key", "hold", "walk"} => further >= r.target
  <2>1. SUFFICES ASSUME r.kind = "shielded", r.pc \in {"key", "hold", "walk"}
                 PROVE  further >= r.target
    OBVIOUS
  <2>2. done >= r.target /\ r.target \in 0 .. Len(Txs)
    BY <1>6, <2>1 DEF Syncs
  <2>3. done \in Nat /\ further \in Nat /\ r.target \in Nat
    BY <2>2, TxsTyped
  <2> QED
    BY <2>2, <2>3
<1>8. Syncs(c, m, r, up, further)
    BY <1>6, <1>7 DEF Syncs
<1> QED
    BY <1>5, <1>8

\* A step of a client keeps its own part of the invariant, and at most one
\* client scans.
Advances(c) ==
    /\ Synced(c, mem'[c], shown["tip"])
    /\ Syncs(c, mem'[c], req'[c], shown["tip"], progress'[KeyOf[c]])
    /\ req'[c].pc \in Scanning =>
          req[c].pc \in Scanning \/ \A d \in Client : req[d].pc \notin Scanning

\* A step after which the request has no part in the shielded sync.
Off(c) ==
    /\ req'[c].pc \in {"ok", "missing", "feed", "holdJudge", "judge", "ids", "dust"}
    /\ mem'[c].applied = mem[c].applied /\ mem'[c].updates = mem[c].updates

LEMMA OffAdvances ==
    ASSUME NEW c \in Client, SyncInv, Off(c) PROVE Advances(c)
<1>1. Synced(c, mem[c], shown["tip"])
    BY DEF SyncInv
<1>2. Synced(c, mem'[c], shown["tip"])
    BY <1>1 DEF Off, Synced
<1>3. req'[c].pc \notin {"tip", "lock", "key", "hold", "walk", "behind", "inside", "beyond"}
                           \cup Scanning
    BY DEF Off, Scanning
<1>4. Syncs(c, mem'[c], req'[c], shown["tip"], progress'[KeyOf[c]])
    BY <1>3 DEF Syncs
<1> QED
    BY <1>2, <1>3, <1>4 DEF Advances

\* Answers but those of a walk, and all steps of the other endpoints, are off.
LEMMA AnswersOff ==
    ASSUME NEW c \in Client, NEW from, NEW outcome \in {"ok", "missing"}, NEW m,
           RequestInv, m.applied = mem[c].applied, m.updates = mem[c].updates,
           Answers(c, from, outcome, m)
    PROVE  Off(c)
<1>1. mem'[c] = m /\ req'[c] = IF outcome = "ok" THEN Idle ELSE [req[c] EXCEPT !.pc = outcome]
    BY AnswersFrame DEF RequestInv
<1>2. req'[c].pc = outcome
    BY <1>1 DEF RequestInv, Idle
<1> QED
    BY <1>1, <1>2 DEF Off

LEMMA FeedsOff ==
    ASSUME NEW c \in Client, PipelineInv, RequestInv, FeedInv, Feed(c)
    PROVE  Off(c)
<1>0. DOMAIN req[c] = DOMAIN Idle /\ DOMAIN mem[c] = DOMAIN Fresh
    BY DEF RequestInv
<1>1. ASSUME NEW more \in BOOLEAN, FeedPage(c, more) PROVE Off(c)
  <2>1. PICK feed, from, cursor, anchor :
            Answers(c, "feed", "ok", [mem[c] EXCEPT !.feed = feed, !.from = from,
                                                    !.cursor = cursor, !.anchor = anchor])
    BY <1>1 DEF FeedPage
  <2> DEFINE m == [mem[c] EXCEPT !.feed = feed, !.from = from,
                                 !.cursor = cursor, !.anchor = anchor]
  <2>2. m.applied = mem[c].applied /\ m.updates = mem[c].updates
    BY <1>0 DEF Fresh
  <2> QED
    BY <2>1, <2>2, AnswersOff
<1>2. CASE Answers(c, "feed", "missing", mem[c])
    BY <1>2, AnswersOff
<1>3. CASE req[c].pc = "feed" /\ Examines(c, req[c].at + 1)
  <2> DEFINE e == req[c].at + 1
             r == [req[c] EXCEPT !.at = e, !.found = @ \cup {e}]
  <2>1. r.pc = "feed" /\ DOMAIN r = DOMAIN Idle
    BY <1>0, <1>3 DEF Idle
  <2>2. \/ Goes(c, "feed", r)
        \/ Goes(c, "feed", [r EXCEPT !.rows = Append(@, <<e, Relevance(c, e)>>)])
        \/ Goes(c, "feed", [r EXCEPT !.pc = "holdJudge"])
    BY <1>3, Zenon DEF Examines
  <2> HIDE DEF r
  <2>3. req'[c].pc \in {"feed", "holdJudge"} /\ mem'[c] = mem[c]
    BY <2>1, <2>2, GoesFrame DEF Idle, RequestInv
  <2> QED
    BY <2>3 DEF Off
<1>4. CASE HoldJudge(c)
  <2>1. req'[c] = [req[c] EXCEPT !.pc = "judge"] /\ mem'[c] = mem[c]
    BY <1>4, GoesFrame DEF HoldJudge, RequestInv
  <2> QED
    BY <1>0, <2>1 DEF Off, Idle
<1>5. CASE Judge(c)
  <2>1. PICK rows : Goes(c, "judge", [req[c] EXCEPT !.pc = "feed", !.rows = rows])
    BY <1>5 DEF Judge
  <2>2. req'[c] = [req[c] EXCEPT !.pc = "feed", !.rows = rows] /\ mem'[c] = mem[c]
    BY <2>1, GoesFrame DEF RequestInv
  <2> QED
    BY <1>0, <2>2 DEF Off, Idle
<1> QED
    BY <1>1, <1>2, <1>3, <1>4, <1>5, FeedNextCases DEF Feed

LEMMA DustOff ==
    ASSUME NEW c \in Client, RequestInv, ReadHighest(c) \/ DustNext(c) \/ Parameters(c)
    PROVE  Off(c)
<1>0. DOMAIN req[c] = DOMAIN Idle /\ DOMAIN mem[c] = DOMAIN Fresh
    BY DEF RequestInv
<1>1. CASE ReadHighest(c)
  <2>1. req'[c] = [req[c] EXCEPT !.pc = "dust", !.target = EventsTo[shown["ids"]]]
        /\ mem'[c] = mem[c]
    BY <1>1, GoesFrame DEF ReadHighest, RequestInv
  <2> QED
    BY <1>0, <2>1 DEF Off, Idle
<1>2. CASE DustNext(c)
  <2>1. \/ \E dust, from : Answers(c, "dust", "ok",
                              [mem[c] EXCEPT !.dust = dust, !.dustFrom = from])
        \/ Answers(c, "dust", "missing", mem[c])
        \/ \E at, found : Goes(c, "dust", [req[c] EXCEPT !.at = at, !.found = found])
    BY <1>2 DEF DustNext
  <2>2. ASSUME NEW dust, NEW from,
               Answers(c, "dust", "ok", [mem[c] EXCEPT !.dust = dust, !.dustFrom = from])
        PROVE  Off(c)
    <3> DEFINE m == [mem[c] EXCEPT !.dust = dust, !.dustFrom = from]
    <3>1. m.applied = mem[c].applied /\ m.updates = mem[c].updates
        BY <1>0 DEF Fresh
    <3> QED
        BY <2>2, <3>1, AnswersOff
  <2>3. CASE Answers(c, "dust", "missing", mem[c])
    BY <2>3, AnswersOff
  <2>4. ASSUME NEW at, NEW found, Goes(c, "dust", [req[c] EXCEPT !.at = at, !.found = found])
        PROVE  Off(c)
    <3>1. req'[c] = [req[c] EXCEPT !.at = at, !.found = found] /\ mem'[c] = mem[c]
          /\ req[c].pc = "dust"
        BY <2>4, GoesFrame DEF RequestInv
    <3> QED
        BY <1>0, <3>1 DEF Off, Idle
  <2> QED
    BY <2>1, <2>2, <2>3, <2>4
<1>3. CASE Parameters(c)
  <2>1. PICK outcome \in {"ok", "missing"} : Answers(c, "walk", outcome, mem[c])
    BY <1>3 DEF Parameters
  <2> QED
    BY <2>1, AnswersOff
<1> QED
    BY <1>1, <1>2, <1>3

\* A request is asked with nothing found.
LEMMA AskAdvances ==
    ASSUME NEW c \in Client, RequestInv, SyncInv, Ask(c) PROVE Advances(c)
<1>1. PICK kind, start : /\ start \in {"ids", "feed", "tip"}
                         /\ req'[c] = Asked(c, kind, start) /\ mem'[c] = mem[c]
    BY AskCases
<1>2. req'[c].pc = start /\ req'[c].found = {}
    BY <1>1 DEF Asked, Idle
<1>3. Syncs(c, mem'[c], req'[c], shown["tip"], progress'[KeyOf[c]])
    BY <1>1, <1>2 DEF Syncs, Scanning
<1> QED
    BY <1>1, <1>2, <1>3 DEF Advances, SyncInv, Scanning

\* The tip that is read is visible, and what was applied lies before its end.
LEMMA ReadTipAdvances ==
    ASSUME NEW c \in Client, PipelineInv, RequestInv, FeedInv, SyncInv, ReadTip(c)
    PROVE  Advances(c)
<1> DEFINE top == shown["tip"]
           r(state) == [req[c] EXCEPT !.tip = top, !.target = TxsTo[top], !.state = state]
<1>0. /\ DOMAIN req[c] = DOMAIN Idle /\ top \in 0 .. MaxHeight
      /\ Synced(c, mem[c], top) /\ Syncs(c, mem[c], req[c], top, progress[KeyOf[c]])
      /\ top \in 0 .. top
    BY PartitionNames, MaxHeightAssumption DEF RequestInv, PipelineInv, SyncInv
<1>1. PICK state :
         \/ req[c].kind = "shielded" /\ Goes(c, "tip", [r(state) EXCEPT !.pc = "lock"])
         \/ Goes(c, "tip", [r(state) EXCEPT !.pc = "feed"])
         \/ req[c].kind = "parameters" /\ Goes(c, "tip", [r(state) EXCEPT !.pc = "hold"])
         \/ Answers(c, "tip", "ok", mem[c])
    BY DEF ReadTip
<1>2. CASE req[c].kind = "shielded" /\ Goes(c, "tip", [r(state) EXCEPT !.pc = "lock"])
  <2>1. /\ req'[c] = [r(state) EXCEPT !.pc = "lock"] /\ mem'[c] = mem[c] /\ req[c].pc = "tip"
    BY <1>2, GoesFrame DEF RequestInv
  <2>2. /\ req'[c].pc = "lock" /\ req'[c].kind = "shielded" /\ req'[c].tip = top
        /\ req'[c].target = TxsTo[top] /\ req'[c].found = req[c].found
    BY <1>0, <1>2, <2>1 DEF Idle
  <2>3. req[c].found = {} /\ mem[c].applied <= End[TxsTo[top]]
    BY <1>0, <2>1 DEF Syncs, Synced
  <2> HIDE DEF top
  <2>4. Syncs(c, mem'[c], req'[c], top, progress'[KeyOf[c]])
    BY <1>0, <2>1, <2>2, <2>3 DEF Syncs, Scanning
  <2> QED
    BY <1>0, <2>1, <2>2, <2>4 DEF Advances, Scanning, top
<1>3. CASE Goes(c, "tip", [r(state) EXCEPT !.pc = "feed"])
  <2>1. req'[c] = [r(state) EXCEPT !.pc = "feed"] /\ mem'[c] = mem[c]
    BY <1>3, GoesFrame DEF RequestInv
  <2>2. Off(c)
    BY <1>0, <2>1 DEF Off, Idle
  <2> QED
    BY <2>2, OffAdvances
<1>4. CASE req[c].kind = "parameters" /\ Goes(c, "tip", [r(state) EXCEPT !.pc = "hold"])
  <2>1. req'[c] = [r(state) EXCEPT !.pc = "hold"] /\ mem'[c] = mem[c]
    BY <1>4, GoesFrame DEF RequestInv
  <2>2. req'[c].pc = "hold" /\ req'[c].kind = "parameters"
    BY <1>0, <1>4, <2>1 DEF Idle
  <2>3. Syncs(c, mem'[c], req'[c], top, progress'[KeyOf[c]])
    BY <2>2 DEF Syncs, Scanning
  <2> QED
    BY <1>0, <2>1, <2>2, <2>3 DEF Advances, Scanning
<1>5. CASE Answers(c, "tip", "ok", mem[c])
    BY <1>5, AnswersOff, OffAdvances
<1> QED
    BY <1>1, <1>2, <1>3, <1>4, <1>5

(* A shielded request before it walks.  What a step uses of the invariant: *)
LEMMA ShieldedKnown ==
    ASSUME NEW c \in Client, PipelineInv, RequestInv, ScanInv, SyncInv
    PROVE  LET top == shown["tip"]
               done == progress[KeyOf[c]]
               r == req[c]
           IN  /\ DOMAIN r = DOMAIN Idle /\ top \in 0 .. MaxHeight
               /\ KeyOf[c] \in Key /\ done \in 0 .. Len(Txs) /\ done \in Nat
               /\ Synced(c, mem[c], top) /\ Syncs(c, mem[c], r, top, done)
               /\ r.kind = "shielded"
                    /\ r.pc \in {"lock", "key", "hold", "walk"} \cup Scanning =>
                  /\ r.tip \in 0 .. top /\ r.tip \in 0 .. MaxHeight
                  /\ r.target \in 0 .. Len(Txs) /\ r.target \in Nat
<1>1. /\ DOMAIN req[c] = DOMAIN Idle /\ shown["tip"] \in 0 .. MaxHeight
      /\ KeyOf[c] \in Key
    BY PartitionNames, KeyAssumption DEF RequestInv, PipelineInv
<1>2. progress[KeyOf[c]] \in 0 .. Len(Txs) /\ progress[KeyOf[c]] \in Nat
    BY <1>1, TxsTyped DEF ScanInv
<1>3. /\ Synced(c, mem[c], shown["tip"])
      /\ Syncs(c, mem[c], req[c], shown["tip"], progress[KeyOf[c]])
    BY DEF SyncInv
<1>4. \A tip \in 0 .. shown["tip"] : /\ tip \in 0 .. MaxHeight /\ TxsTo[tip] \in 0 .. Len(Txs)
                                     /\ TxsTo[tip] \in Nat
    BY <1>1, TxsToMonotonic, MaxHeightAssumption, TxsTyped
<1>5. req[c].kind = "shielded" /\ req[c].pc \in {"lock", "key", "hold", "walk"} \cup Scanning
         => req[c].tip \in 0 .. shown["tip"] /\ req[c].target = TxsTo[req[c].tip]
    BY <1>3 DEF Syncs
<1> QED
    BY <1>1, <1>2, <1>3, <1>4, <1>5

\* A step within the scan, or to its start: the tip stays, and what is found
\* has the range that was examined.
LEMMA ScanKeeps ==
    ASSUME NEW c \in Client, PipelineInv, RequestInv, ScanInv, SyncInv,
           req[c].pc \in {"lock"} \cup Scanning, mem'[c] = mem[c],
           req'[c].kind = req[c].kind, req'[c].tip = req[c].tip,
           req'[c].target = req[c].target, req'[c].pc \in Scanning,
           NEW last \in Nat, last = IF req'[c].pc = "scan" THEN req'[c].at ELSE req'[c].at - 1,
           req'[c].at \in 0 .. Len(Txs), last >= progress'[KeyOf[c]],
           req'[c].found = {t \in progress'[KeyOf[c]] + 1 .. last : Decrypts(KeyOf[c], t)},
           req[c].pc \in Scanning \/ \A d \in Client : req[d].pc \notin Scanning
    PROVE  Advances(c)
<1>1. /\ Synced(c, mem[c], shown["tip"])
      /\ Syncs(c, mem[c], req[c], shown["tip"], progress[KeyOf[c]])
    BY DEF SyncInv
<1>2. req'[c].pc \notin {"tip", "lock", "key", "hold", "walk", "inside", "beyond", "behind"}
    BY DEF Scanning
<1>3. /\ req[c].kind = "shielded" /\ req[c].tip \in 0 .. shown["tip"]
      /\ req[c].target = TxsTo[req[c].tip] /\ mem[c].applied <= End[req[c].target]
    BY <1>1 DEF Syncs
<1>4. Syncs(c, mem'[c], req'[c], shown["tip"], progress'[KeyOf[c]])
    BY <1>2, <1>3 DEF Syncs
<1> QED
    BY <1>1, <1>4 DEF Advances

\* The scan examines one transaction after the other, from the progress on.
LEMMA ScanAdvances ==
    ASSUME NEW c \in Client, PipelineInv, RequestInv, ScanInv, SyncInv,
           ScanLock(c) \/ ScanNext(c) \/ HoldDecode(c) \/ Decode(c)
    PROVE  Advances(c) /\ UNCHANGED scans
<1> DEFINE key == KeyOf[c]
           done == progress[key]
           Relevant(last) == {t \in done + 1 .. last : Decrypts(key, t)}
<1>0. /\ DOMAIN req[c] = DOMAIN Idle /\ done \in 0 .. Len(Txs) /\ done \in Nat
      /\ Syncs(c, mem[c], req[c], shown["tip"], done)
      /\ req[c].kind = "shielded" /\ req[c].pc \in {"lock"} \cup Scanning
            => req[c].target \in 0 .. Len(Txs) /\ req[c].target \in Nat
    BY ShieldedKnown
<1>1. UNCHANGED scans
    BY DEF ScanLock, ScanNext, HoldDecode, Decode
<1>2. progress' = progress
    BY <1>1 DEF scans
<1>3. CASE ScanLock(c)
  <2>1. /\ req'[c] = [req[c] EXCEPT !.pc = "scan", !.at = done] /\ mem'[c] = mem[c]
        /\ req[c].pc = "lock" /\ \A d \in Client : req[d].pc \notin Scanning
    BY <1>3, GoesFrame DEF ScanLock, RequestInv
  <2>2. /\ req'[c].pc = "scan" /\ req'[c].at = done /\ req'[c].kind = req[c].kind
        /\ req'[c].tip = req[c].tip /\ req'[c].target = req[c].target
        /\ req'[c].found = req[c].found
    BY <1>0, <2>1 DEF Idle
  <2>3. req[c].found = {}
    BY <1>0, <2>1 DEF Syncs
  <2>4. Relevant(done) = {}
    BY <1>0
  <2>5. req'[c].found = {t \in progress'[key] + 1 .. done : Decrypts(key, t)}
    BY <1>2, <2>2, <2>3, <2>4
  <2>6. /\ req'[c].at \in 0 .. Len(Txs) /\ done >= progress'[key]
        /\ done = IF req'[c].pc = "scan" THEN req'[c].at ELSE req'[c].at - 1
    BY <1>0, <1>2, <2>2
  <2>7. req[c].pc \in {"lock"} \cup Scanning /\ req'[c].pc \in Scanning
    BY <2>1, <2>2 DEF Scanning
  <2> HIDE DEF done
  <2>8. done \in Nat
    BY <1>0
  <2> QED
    BY <1>1, <2>1, <2>2, <2>5, <2>6, <2>7, <2>8, ScanKeeps
<1>4. CASE ScanNext(c)
  <2>1. /\ req'[c] = [req[c] EXCEPT !.at = @ + 1, !.pc = "holdDecode"] /\ mem'[c] = mem[c]
        /\ req[c].pc = "scan" /\ req[c].at < BatchEnd(c)
    BY <1>4, GoesFrame DEF ScanNext, RequestInv
  <2>2. /\ req'[c].pc = "holdDecode" /\ req'[c].at = req[c].at + 1
        /\ req'[c].kind = req[c].kind /\ req'[c].tip = req[c].tip
        /\ req'[c].target = req[c].target /\ req'[c].found = req[c].found
    BY <1>0, <2>1 DEF Idle
  <2>3. /\ req[c].kind = "shielded" /\ req[c].at \in 0 .. Len(Txs) /\ req[c].at >= done
        /\ req[c].found = Relevant(req[c].at)
    BY <1>0, <2>1 DEF Syncs, Scanning
  <2>4. req[c].target \in 0 .. Len(Txs) /\ req[c].target \in Nat
    BY <1>0, <2>1, <2>3 DEF Scanning
  <2>5. req[c].at \in Nat /\ req[c].at < req[c].target
    BY <1>0, <2>1, <2>3, <2>4, TxsTyped, ScanBatchAssumption DEF BatchEnd
  <2>6. req[c].at + 1 \in 0 .. Len(Txs) /\ (req[c].at + 1) - 1 = req[c].at
    BY <2>4, <2>5, TxsTyped
  <2>7. req'[c].at \in 0 .. Len(Txs) /\ req'[c].at - 1 = req[c].at
    BY <2>2, <2>6
  <2> QED
    BY <1>1, <1>2, <2>1, <2>2, <2>3, <2>5, <2>7, ScanKeeps DEF Scanning
<1>5. CASE HoldDecode(c)
  <2>1. /\ req'[c] = [req[c] EXCEPT !.pc = "decode"] /\ mem'[c] = mem[c]
        /\ req[c].pc = "holdDecode"
    BY <1>5, GoesFrame DEF HoldDecode, RequestInv
  <2>2. /\ req'[c].pc = "decode" /\ req'[c].at = req[c].at
        /\ req'[c].kind = req[c].kind /\ req'[c].tip = req[c].tip
        /\ req'[c].target = req[c].target /\ req'[c].found = req[c].found
    BY <1>0, <2>1 DEF Idle
  <2>3. /\ req[c].at \in 0 .. Len(Txs) /\ req[c].at - 1 >= done
        /\ req[c].found = Relevant(req[c].at - 1)
    BY <1>0, <2>1 DEF Syncs, Scanning
  <2>4. req[c].at - 1 \in Nat
    BY <1>0, <2>3, TxsTyped
  <2>5. req'[c].at - 1 = req[c].at - 1
    BY <2>2
  <2> QED
    BY <1>1, <1>2, <2>1, <2>2, <2>3, <2>4, <2>5, ScanKeeps DEF Scanning
<1>6. CASE Decode(c)
  <2> DEFINE at == req[c].at
             found == IF Decrypts(key, at) THEN req[c].found \cup {at} ELSE req[c].found
  <2>1. /\ req'[c] = [req[c] EXCEPT !.pc = "scan", !.found = found] /\ mem'[c] = mem[c]
        /\ req[c].pc = "decode"
    BY <1>6, GoesFrame DEF Decode, RequestInv
  <2> HIDE DEF found
  <2>2. /\ req'[c].pc = "scan" /\ req'[c].at = at
        /\ req'[c].kind = req[c].kind /\ req'[c].tip = req[c].tip
        /\ req'[c].target = req[c].target /\ req'[c].found = found
    BY <1>0, <2>1 DEF Idle
  <2>3. at \in 0 .. Len(Txs) /\ at - 1 >= done /\ req[c].found = Relevant(at - 1)
    BY <1>0, <2>1 DEF Syncs, Scanning
  <2>4. at \in Nat /\ at >= done /\ done + 1 .. at = (done + 1 .. at - 1) \cup {at}
    BY <1>0, <2>3, TxsTyped
  <2>5. found = Relevant(at)
    BY <2>3, <2>4 DEF found
  <2> QED
    BY <1>1, <1>2, <2>1, <2>2, <2>3, <2>4, <2>5, ScanKeeps DEF Scanning
<1> QED
    BY <1>3, <1>4, <1>5, <1>6

\* The batch that is committed was examined in full.
LEMMA CommitAdvances ==
    ASSUME NEW c \in Client, PipelineInv, RequestInv, ScanInv, SyncInv, CommitScan(c)
    PROVE  /\ Advances(c) /\ req[c].pc \in Scanning
           /\ progress' \in [Key -> 0 .. Len(Txs)] /\ DOMAIN relevant' = Key
           /\ \A k \in Key : /\ progress[k] <= progress'[k]
                             /\ k # KeyOf[c] => progress'[k] = progress[k]
                             /\ relevant'[k] = {t \in 1 .. progress'[k] : Decrypts(k, t)}
<1> DEFINE key == KeyOf[c]
           done == progress[key]
           at == req[c].at
<1>0. /\ DOMAIN req[c] = DOMAIN Idle /\ done \in 0 .. Len(Txs) /\ done \in Nat /\ key \in Key
      /\ Syncs(c, mem[c], req[c], shown["tip"], done)
    BY ShieldedKnown
<1>1. /\ req'[c] = [req[c] EXCEPT !.found = {}] /\ mem'[c] = mem[c] /\ req[c].pc = "scan"
      /\ progress' = [progress EXCEPT ![key] = at]
      /\ relevant' = [relevant EXCEPT ![key] = @ \cup req[c].found]
    BY GoesFrame DEF CommitScan, RequestInv
<1>2. /\ req'[c].pc = "scan" /\ req'[c].at = at
      /\ req'[c].kind = req[c].kind /\ req'[c].tip = req[c].tip
      /\ req'[c].target = req[c].target /\ req'[c].found = {}
    BY <1>0, <1>1 DEF Idle
<1>3. /\ at \in 0 .. Len(Txs) /\ at >= done
      /\ req[c].found = {t \in done + 1 .. at : Decrypts(key, t)}
    BY <1>0, <1>1 DEF Syncs, Scanning
<1>4. at \in Nat
    BY <1>3, TxsTyped
<1>5. /\ progress \in [Key -> 0 .. Len(Txs)] /\ DOMAIN relevant = Key
      /\ \A k \in Key : relevant[k] = {t \in 1 .. progress[k] : Decrypts(k, t)}
    BY DEF ScanInv
<1> HIDE DEF at
<1>6. /\ progress' \in [Key -> 0 .. Len(Txs)] /\ DOMAIN relevant' = Key
      /\ progress'[key] = at /\ \A k \in Key : k # key => progress'[k] = progress[k]
    BY <1>0, <1>1, <1>3, <1>5
<1>7. /\ relevant'[key] = relevant[key] \cup req[c].found
      /\ \A k \in Key : k # key => relevant'[k] = relevant[k]
    BY <1>0, <1>1, <1>5
<1>8. 1 .. at = (1 .. done) \cup (done + 1 .. at)
    BY <1>0, <1>3, <1>4
<1>9. relevant'[key] = {t \in 1 .. at : Decrypts(key, t)}
  <2>1. relevant[key] = {t \in 1 .. done : Decrypts(key, t)}
    BY <1>0, <1>5
  <2> QED
    BY <1>3, <1>7, <1>8, <2>1
<1>10. \A k \in Key : progress[k] \in Nat
    BY <1>5, TxsTyped
<1>11. Advances(c)
  <2>1. {t \in at + 1 .. at : Decrypts(key, t)} = {}
    BY <1>4
  <2>2. req'[c].found = {t \in progress'[key] + 1 .. at : Decrypts(key, t)}
    BY <1>2, <1>6, <2>1
  <2>3. at >= progress'[key]
    BY <1>4, <1>6
  <2> QED
    BY <1>1, <1>2, <1>3, <1>4, <2>2, <2>3, ScanKeeps DEF Scanning
<1>12. ASSUME NEW k \in Key
       PROVE  /\ progress[k] <= progress'[k]
              /\ k # key => progress'[k] = progress[k]
              /\ relevant'[k] = {t \in 1 .. progress'[k] : Decrypts(k, t)}
  <2>1. CASE k = key
    BY <1>3, <1>6, <1>9, <2>1
  <2>2. CASE k # key
    <3>1. progress'[k] = progress[k] /\ relevant'[k] = relevant[k] /\ progress[k] \in Nat
      BY <1>6, <1>7, <1>10, <2>2
    <3> QED
      BY <1>5, <2>2, <3>1
  <2> QED
    BY <2>1, <2>2
<1>13. req[c].pc \in Scanning
    BY <1>1 DEF Scanning
<1> QED
    BY <1>6, <1>11, <1>12, <1>13

\* With its key scanned to the tip's last transaction, a request goes on to the
\* newest state, which lags a tip that was read before by a block at most.
LEMMA LoadAdvances ==
    ASSUME NEW c \in Client, PipelineInv, RequestInv, ScanInv, SyncInv,
           ScanEnd(c) \/ ReadWindow(c) \/ Hold(c)
    PROVE  Advances(c) /\ UNCHANGED scans
<1> DEFINE top == shown["tip"]
           done == progress[KeyOf[c]]
<1>0. /\ DOMAIN req[c] = DOMAIN Idle /\ top \in 0 .. MaxHeight
      /\ Synced(c, mem[c], top) /\ Syncs(c, mem[c], req[c], top, done)
      /\ req[c].kind = "shielded" /\ req[c].pc \in {"key", "hold"} \cup Scanning
            => req[c].tip \in 0 .. top
    BY ShieldedKnown
<1>1. UNCHANGED scans
    BY DEF ScanEnd, ReadWindow, Hold
<1>2. progress' = progress
    BY <1>1 DEF scans
\* What a step at one of these pcs has to show.
<1>3. ASSUME mem'[c] = mem[c], req'[c].pc \in {"key", "hold", "walk"},
             req'[c].kind = "shielded" =>
                /\ req'[c].tip \in 0 .. top /\ req'[c].target = TxsTo[req'[c].tip]
                /\ mem[c].applied <= End[req'[c].target] /\ done >= req'[c].target
                /\ req'[c].pc \in {"hold", "walk"} => req'[c].state >= req'[c].tip - 1,
             req'[c].pc = "key" => req'[c].kind = "shielded"
      PROVE  Advances(c)
  <2>1. req'[c].pc \notin {"tip", "lock", "inside", "beyond", "behind"} \cup Scanning
    BY <1>3 DEF Scanning
  <2> HIDE DEF top, done
  <2>2. Syncs(c, mem'[c], req'[c], top, done)
    BY <1>3, <2>1 DEF Syncs
  <2> QED
    BY <1>0, <1>2, <1>3, <2>1, <2>2 DEF Advances, top, done
<1>4. CASE ScanEnd(c)
  <2>1. CASE Goes(c, "scan", [req[c] EXCEPT !.pc = "key"]) /\ done >= req[c].target
    <3>1. req'[c] = [req[c] EXCEPT !.pc = "key"] /\ mem'[c] = mem[c] /\ req[c].pc = "scan"
      BY <2>1, GoesFrame DEF RequestInv
    <3>2. /\ req'[c].pc = "key" /\ req'[c].kind = req[c].kind
          /\ req'[c].tip = req[c].tip /\ req'[c].target = req[c].target
      BY <1>0, <3>1 DEF Idle
    <3>3. /\ req[c].kind = "shielded" /\ req[c].tip \in 0 .. top
          /\ req[c].target = TxsTo[req[c].tip] /\ mem[c].applied <= End[req[c].target]
      BY <1>0, <3>1 DEF Syncs, Scanning
    <3> HIDE DEF top, done
    <3> QED
      BY <1>1, <1>3, <2>1, <3>1, <3>2, <3>3
  <2>2. CASE Answers(c, "scan", "ok", mem[c])
    BY <1>1, <2>2, AnswersOff, OffAdvances
  <2> QED
    BY <1>1, <1>4, <2>1, <2>2 DEF ScanEnd
<1>5. CASE ReadWindow(c)
  <2>1. CASE Goes(c, "key", [req[c] EXCEPT !.pc = "hold", !.state = shown["window"]])
    <3>1. /\ req'[c] = [req[c] EXCEPT !.pc = "hold", !.state = shown["window"]]
          /\ mem'[c] = mem[c] /\ req[c].pc = "key"
      BY <2>1, GoesFrame DEF RequestInv
    <3>2. /\ req'[c].pc = "hold" /\ req'[c].kind = req[c].kind
          /\ req'[c].state = shown["window"]
          /\ req'[c].tip = req[c].tip /\ req'[c].target = req[c].target
      BY <1>0, <3>1 DEF Idle
    <3>3. /\ req[c].kind = "shielded" /\ req[c].tip \in 0 .. top
          /\ req[c].target = TxsTo[req[c].tip] /\ mem[c].applied <= End[req[c].target]
          /\ done >= req[c].target
      BY <1>0, <3>1 DEF Syncs
    <3>4. shown["window"] \in Nat /\ (top = shown["window"] \/ top = shown["window"] + 1)
      BY PartitionNames, MaxHeightAssumption DEF PipelineInv
    <3>5. shown["window"] >= req[c].tip - 1
      BY <3>3, <3>4
    <3> HIDE DEF top, done
    <3> QED
      BY <1>1, <1>3, <3>1, <3>2, <3>3, <3>5
  <2>2. CASE Answers(c, "key", "missing", mem[c])
    BY <1>1, <2>2, AnswersOff, OffAdvances
  <2> QED
    BY <1>1, <1>5, <2>1, <2>2 DEF ReadWindow
<1>6. CASE Hold(c)
  <2>1. /\ req'[c] = [req[c] EXCEPT !.pc = "walk"] /\ mem'[c] = mem[c] /\ req[c].pc = "hold"
    BY <1>6, GoesFrame DEF Hold, RequestInv
  <2>2. /\ req'[c].pc = "walk" /\ req'[c].kind = req[c].kind
        /\ req'[c].state = req[c].state
        /\ req'[c].tip = req[c].tip /\ req'[c].target = req[c].target
    BY <1>0, <2>1 DEF Idle
  <2>3. req[c].kind = "shielded" =>
           /\ req[c].tip \in 0 .. top
           /\ req[c].target = TxsTo[req[c].tip] /\ mem[c].applied <= End[req[c].target]
           /\ done >= req[c].target /\ req[c].state >= req[c].tip - 1
    BY <1>0, <2>1 DEF Syncs
  <2> HIDE DEF top, done
  <2> QED
    BY <1>1, <1>3, <2>1, <2>2, <2>3
<1> QED
    BY <1>4, <1>5, <1>6

\* The targets of a request that walks are all that its key decrypts up to the
\* tip it read: others who scan for the key only add what lies above.
LEMMA TargetsKnown ==
    ASSUME NEW c \in Client, ScanInv, KeyOf[c] \in Key,
           req[c].target \in Nat, progress[KeyOf[c]] >= req[c].target
    PROVE  Targets(c) = {t \in 1 .. req[c].target : Decrypts(KeyOf[c], t)}
<1>1. relevant[KeyOf[c]] = {t \in 1 .. progress[KeyOf[c]] : Decrypts(KeyOf[c], t)}
    BY DEF ScanInv
<1>2. progress[KeyOf[c]] \in Nat
    BY TxsTyped DEF ScanInv
<1> QED
    BY <1>1, <1>2 DEF Targets

\* The walk adds what the targets make of the updates sent before; it neither
\* finds its start inside a transaction nor beyond the tree.
LEMMA WalkAdvances ==
    ASSUME NEW c \in Client, PipelineInv, RequestInv, ScanInv, SyncInv, Walk(c)
    PROVE  Advances(c) /\ UNCHANGED scans
<1> DEFINE top == shown["tip"]
           key == KeyOf[c]
           done == progress[key]
           r == req[c]
           m == mem[c]
           highest == End[r.target]
           seen == Updates(m.applied, Targets(c), highest)
           outcome == IF r.state \notin arena THEN "missing"
                      ELSE IF End[TxsTo[r.state]] < highest THEN "behind"
                      ELSE IF m.applied > highest THEN "beyond"
                      ELSE IF seen.inside THEN "inside" ELSE "ok"
           next == [m EXCEPT !.applied = seen.applied, !.updates = m.updates \o seen.list]
<1>0. /\ DOMAIN r = DOMAIN Idle /\ DOMAIN m = DOMAIN Fresh /\ key \in Key
      /\ top \in 0 .. MaxHeight
      /\ Synced(c, m, top) /\ Syncs(c, m, r, top, done)
    BY ShieldedKnown DEF RequestInv
<1>1. r.kind = "shielded" /\ r.pc = "walk" /\ UNCHANGED scans
  <2> HIDE DEF outcome, next
  <2> QED
    BY Zenon DEF Walk, Answers
<1>2. Answers(c, "walk", outcome, IF outcome # "ok" THEN m ELSE next)
    BY Zenon DEF Walk
<1>3. /\ r.tip \in 0 .. top /\ r.target = TxsTo[r.tip] /\ m.applied <= highest
      /\ done >= r.target /\ r.state >= r.tip - 1
    BY <1>0, <1>1 DEF Syncs
<1>4. /\ r.target \in 0 .. Len(Txs) /\ r.target \in Nat /\ highest \in Nat
      /\ m.applied \in Nat /\ End[TxsTo[top]] \in Nat /\ highest <= End[TxsTo[top]]
  <2>1. /\ r.tip \in 0 .. MaxHeight /\ TxsTo[r.tip] \in 0 .. Len(Txs)
        /\ TxsTo[top] \in 0 .. Len(Txs) /\ TxsTo[r.tip] <= TxsTo[top]
    BY <1>0, <1>3, MaxHeightAssumption, TxsToMonotonic
  <2>2. m.applied \in Nat
    BY <1>0, EndMonotonic DEF Synced
  <2> HIDE DEF m, r, top
  <2> QED
    BY <1>3, <2>1, <2>2, EndMonotonic, TxsTyped
<1>5. Targets(c) = {t \in 1 .. r.target : Decrypts(key, t)}
    BY <1>0, <1>3, <1>4, TargetsKnown
<1>6. /\ seen.inside = FALSE /\ seen.applied = highest
      /\ Joined(m.updates \o seen.list, highest)
      /\ Complete(key, m.updates \o seen.list, highest)
  <2>1. /\ Joined(m.updates, m.applied) /\ Complete(key, m.updates, m.applied)
        /\ m.updates \in Seq(UpdateRow) /\ \E s \in 0 .. Len(Txs) : m.applied = End[s]
    BY <1>0 DEF Synced, Joined
  <2>2. seen = Updates(m.applied, {t \in 1 .. r.target : Decrypts(key, t)}, highest)
    BY <1>5
  <2> DEFINE u == Updates(m.applied, {t \in 1 .. r.target : Decrypts(key, t)}, highest)
  <2> HIDE DEF seen
  <2>3. /\ u.inside = FALSE /\ u.applied = highest
        /\ Joined(m.updates \o u.list, highest)
        /\ Complete(key, m.updates \o u.list, highest)
    BY <1>3, <1>4, <2>1, UpdatesContinue
  <2> QED
    BY <2>2, <2>3
<1>7. outcome \in {"ok", "missing", "behind"}
  <2>1. ~(m.applied > highest)
    BY <1>3, <1>4
  <2> HIDE DEF seen
  <2> QED
    BY <1>6, <2>1
<1> HIDE DEF outcome, seen
<1>8. CASE outcome = "missing"
    BY <1>1, <1>2, <1>8, AnswersOff, OffAdvances
<1>9. CASE outcome = "behind"
  <2>1. req'[c] = [r EXCEPT !.pc = "behind"] /\ mem'[c] = m
    BY <1>2, <1>9, AnswersFrame DEF RequestInv
  <2>2. /\ req'[c].pc = "behind" /\ req'[c].state = r.state /\ req'[c].tip = r.tip
    BY <1>0, <2>1 DEF Idle
  <2> HIDE DEF top, r
  <2>3. Syncs(c, mem'[c], req'[c], top, progress'[key])
    BY <1>3, <2>2 DEF Syncs, Scanning
  <2> QED
    BY <1>0, <1>1, <2>1, <2>2, <2>3 DEF Advances, Scanning, top
<1>10. CASE outcome = "ok"
  <2> HIDE DEF next
  <2>1. req'[c] = Idle /\ mem'[c] = next
    BY <1>2, <1>10, AnswersFrame DEF RequestInv
  <2>2. next.applied = highest /\ next.updates = m.updates \o seen.list
    BY <1>0, <1>6 DEF Fresh, next
  <2> HIDE DEF m
  <2>3. Synced(c, next, top)
    BY <1>4, <1>6, <2>2 DEF Synced
  <2>4. Syncs(c, next, Idle, top, progress'[key])
    BY DEF Syncs, Idle, Scanning
  <2> QED
    BY <1>1, <2>1, <2>3, <2>4 DEF Advances, Idle, Scanning
<1> QED
    BY <1>7, <1>8, <1>9, <1>10

LEMMA InitSync == Init => ScanInv /\ SyncInv
<1> SUFFICES ASSUME Init PROVE ScanInv /\ SyncInv
    OBVIOUS
<1>1. 0 \in 0 .. Len(Txs) /\ 0 \in 0 .. MaxHeight
    BY TxsTyped, MaxHeightAssumption
<1>2. End[0] = 0
  <2>1. {e \in DOMAIN Events : Events[e].kind = "output" /\ Events[e].tx <= 0} = {}
    BY EventsTyped, TxsTyped
  <2> QED
    BY <1>1, <2>1, FS_EmptySet DEF End
<1>3. ScanInv
  <2>1. \A k \in Key : {t \in 1 .. 0 : Decrypts(k, t)} = {}
    OBVIOUS
  <2>2. \A c \in Client : req[c].pc \notin Scanning
    BY DEF Init, Idle, Scanning
  <2> QED
    BY <1>1, <2>1, <2>2 DEF Init, ScanInv
<1>4. ASSUME NEW c \in Client
      PROVE  /\ Synced(c, mem[c], shown["tip"])
             /\ Syncs(c, mem[c], req[c], shown["tip"], progress[KeyOf[c]])
  <2>1. /\ mem[c].applied = 0 /\ mem[c].updates = <<>>
        /\ req[c].pc = "ok" /\ shown["tip"] = 0
    BY <1>4, PartitionNames DEF Init, Fresh, Idle
  <2>2. \A t \in DOMAIN Txs : Begin[t] \in Nat /\ End[t] \in Nat
    BY EndMonotonic, TxsTyped
  <2>3. \A t \in DOMAIN Txs : Begin[t] < End[t] => ~(End[t] <= 0)
    BY <2>2
  <2>4. Complete(KeyOf[c], <<>>, 0)
    BY <2>3 DEF Complete
  <2>5. 0 <= End[TxsTo[0]]
    BY <1>1, EndMonotonic, TxsToMonotonic
  <2> QED
    BY <1>1, <1>2, <2>1, <2>4, <2>5, JoinedEmpty DEF Synced, Syncs, Scanning
<1> QED
    BY <1>3, <1>4 DEF SyncInv

LEMMA SyncStep ==
    PipelineInv /\ RequestInv /\ FeedInv /\ ScanInv /\ SyncInv /\ [Next]_vars
       => ScanInv' /\ SyncInv'
<1> SUFFICES ASSUME PipelineInv, RequestInv, FeedInv, ScanInv, SyncInv, [Next]_vars
             PROVE  ScanInv' /\ SyncInv'
    OBVIOUS
<1> DEFINE top == shown["tip"]
<1>0. /\ top \in 0 .. MaxHeight /\ top \in Nat
      /\ \A c \in Client : KeyOf[c] \in Key /\ progress[KeyOf[c]] \in 0 .. Len(Txs)
      /\ \A c \in Client : Synced(c, mem[c], top)
                           /\ Syncs(c, mem[c], req[c], top, progress[KeyOf[c]])
    BY PartitionNames, MaxHeightAssumption, KeyAssumption
    DEF PipelineInv, ScanInv, SyncInv
<1>1. CASE UNCHANGED vars
    BY <1>1 DEF ScanInv, SyncInv, vars, scans, pipeline
\* More blocks become visible.
<1>2. CASE Index
  <2>1. /\ req' = req /\ mem' = mem /\ progress' = progress /\ relevant' = relevant
    BY <1>2, IndexFrame DEF scans
  <2>2. shown'["tip"] \in 0 .. MaxHeight /\ top <= shown'["tip"]
    BY <1>2, VisibleGrows, PartitionNames
  <2>3. ScanInv'
    BY <2>1 DEF ScanInv
  <2>4. ASSUME NEW c \in Client
        PROVE  /\ Synced(c, mem[c], shown'["tip"])
               /\ Syncs(c, mem[c], req[c], shown'["tip"], progress[KeyOf[c]])
    <3>1. progress[KeyOf[c]] <= progress[KeyOf[c]]
      BY <1>0, TxsTyped
    <3> QED
      BY <1>0, <2>2, <3>1, SyncsGrows
  <2> QED
    BY <2>1, <2>3, <2>4 DEF SyncInv
<1>3. ASSUME NEW c \in Client, Ask(c) \/ Serve(c) PROVE ScanInv' /\ SyncInv'
  <2>1. Frame(c) /\ shown' = shown
    BY <1>3, RequestFrame DEF RequestInv, Frame, pipeline
  <2>2. /\ Advances(c)
        /\ UNCHANGED scans \/ CommitScan(c)
    <3>1. CASE Ask(c)
      BY <3>1, AskAdvances DEF Ask
    <3>2. CASE ReadTip(c)
      BY <3>2, ReadTipAdvances DEF ReadTip
    <3>3. CASE ScanLock(c) \/ ScanNext(c) \/ HoldDecode(c) \/ Decode(c)
      BY <3>3, ScanAdvances
    <3>4. CASE CommitScan(c)
      BY <3>4, CommitAdvances
    <3>5. CASE ScanEnd(c) \/ ReadWindow(c) \/ Hold(c)
      BY <3>5, LoadAdvances
    <3>6. CASE Walk(c)
      BY <3>6, WalkAdvances
    <3>7. CASE Parameters(c) \/ ReadHighest(c) \/ DustNext(c)
      <4>1. UNCHANGED scans
        BY <3>7, Zenon DEF Parameters, ReadHighest, DustNext
      <4> QED
        BY <3>7, <4>1, DustOff, OffAdvances
    <3>8. CASE Feed(c)
      <4>1. UNCHANGED scans
        BY <3>8, Zenon DEF Feed, FeedNext, HoldJudge, Judge
      <4> QED
        BY <3>8, <4>1, FeedsOff, OffAdvances
    <3> QED
      BY <1>3, <3>1, <3>2, <3>3, <3>4, <3>5, <3>6, <3>7, <3>8 DEF Serve, Shielded
  \* Whatever the step commits, it does not touch a scan of another client.
  <2>3. /\ progress' \in [Key -> 0 .. Len(Txs)] /\ DOMAIN relevant' = Key
        /\ \A k \in Key : relevant'[k] = {t \in 1 .. progress'[k] : Decrypts(k, t)}
        /\ \A k \in Key : progress[k] <= progress'[k]
        /\ progress' = progress \/ req[c].pc \in Scanning
    <3>1. CASE UNCHANGED scans
      <4>1. \A k \in Key : progress[k] \in Nat
        BY TxsTyped DEF ScanInv
      <4> QED
        BY <3>1, <4>1 DEF ScanInv, scans
    <3>2. CASE CommitScan(c)
      BY <3>2, CommitAdvances
    <3> QED
      BY <2>2, <3>1, <3>2
  <2>4. \A d \in Client \ {c} : req'[d] = req[d] /\ mem'[d] = mem[d]
    BY <2>1 DEF Frame
  <2>5. \A d, e \in Client : req[d].pc \in Scanning /\ req[e].pc \in Scanning => d = e
    BY DEF ScanInv
  <2>6. \A d, e \in Client : req'[d].pc \in Scanning /\ req'[e].pc \in Scanning => d = e
    BY <2>2, <2>4, <2>5 DEF Advances
  <2>7. ScanInv'
    BY <2>3, <2>6 DEF ScanInv
  <2>8. ASSUME NEW d \in Client \ {c}
        PROVE  /\ Synced(d, mem'[d], top)
               /\ Syncs(d, mem'[d], req'[d], top, progress'[KeyOf[d]])
    <3>1. /\ progress[KeyOf[d]] <= progress'[KeyOf[d]]
          /\ progress'[KeyOf[d]] \in 0 .. Len(Txs) /\ progress[KeyOf[d]] \in 0 .. Len(Txs)
          /\ KeyOf[d] \in Key
      BY <1>0, <2>3
    <3>2. req[d].pc \in Scanning => progress'[KeyOf[d]] = progress[KeyOf[d]]
      BY <2>3, <2>5
    <3>3. top <= top
      BY <1>0
    <3>4. Synced(d, mem[d], top) /\ Syncs(d, mem[d], req[d], top, progress[KeyOf[d]])
      BY <1>0
    <3> HIDE DEF top
    <3> QED
      BY <1>0, <2>4, <3>1, <3>2, <3>3, <3>4, SyncsGrows
  <2>9. SyncInv'
    BY <2>1, <2>2, <2>8 DEF SyncInv, Advances
  <2> QED
    BY <2>7, <2>9
<1> QED
    BY <1>1, <1>2, <1>3 DEF Next

\* No transaction is among the updates twice: two of them do not end alike.
LEMMA SentOnce ==
    ASSUME NEW u, NEW applied, Joined(u, applied)
    PROVE  LET sent == {i \in DOMAIN u : u[i].kind = "transaction"}
           IN  Cardinality({u[i].tx : i \in sent}) = Cardinality(sent)
<1> DEFINE sent == {i \in DOMAIN u : u[i].kind = "transaction"}
           txs == {u[i].tx : i \in sent}
           f == [i \in sent |-> u[i].tx]
<1>1. /\ \A i \in sent : u[i].to = End[u[i].tx] /\ i \in Nat
      /\ \A i, j \in sent : i < j => u[i].to < u[j].to
    BY DEF Joined, Sends
<1>2. \A i \in sent : u[i].to \in Nat
  <2>1. \A i \in DOMAIN u : u[i] \in UpdateRow
    BY DEF Joined
  <2> QED
    BY <2>1 DEF UpdateRow
<1>3. IsFiniteSet(sent)
  <2>1. DOMAIN u = 1 .. Len(u) /\ Len(u) \in Nat
    BY DEF Joined
  <2>2. IsFiniteSet(DOMAIN u)
    BY <2>1, FS_Interval
  <2> QED
    BY <2>2, FS_Subset
<1> HIDE DEF sent
<1>4. \A i, j \in sent : u[i].tx = u[j].tx => i = j
  <2> SUFFICES ASSUME NEW i \in sent, NEW j \in sent, u[i].tx = u[j].tx PROVE i = j
    OBVIOUS
  <2>1. u[i].to = u[j].to /\ u[i].to \in Nat /\ i \in Nat /\ j \in Nat
    BY <1>1, <1>2
  <2>2. ~(u[i].to < u[j].to) /\ ~(u[j].to < u[i].to)
    BY <2>1
  <2> QED
    BY <1>1, <2>1, <2>2
<1>5. f \in Bijection(sent, txs)
    BY <1>4 DEF Bijection, Injection, Surjection, IsInjective
<1>6. ExistsBijection(sent, txs)
    BY <1>5, Zenon DEF ExistsBijection
<1> HIDE DEF txs
<1>7. Cardinality(txs) = Cardinality(sent)
    BY <1>3, <1>6, FS_Bijection
<1> QED
    BY <1>7 DEF sent, txs

LEMMA JoinedExact ==
    ASSUME NEW key, NEW u, NEW applied, Joined(u, applied), Complete(key, u, applied)
    PROVE  UpdatesExact(key, u, applied)
<1> DEFINE sent == {i \in DOMAIN u : u[i].kind = "transaction"}
<1>1. \A i \in DOMAIN u :
         /\ u[i].from = IF i = 1 THEN 0 ELSE u[i - 1].to
         /\ u[i].from < u[i].to \/ (i \in sent /\ u[i].from = u[i].to)
    BY DEF Joined, Sends
<1>2. applied = IF u = <<>> THEN 0 ELSE Last(u).to
    BY DEF Joined, Last
<1>3. ASSUME NEW t \in DOMAIN Txs, Decrypts(key, t), Begin[t] < End[t], End[t] <= applied
      PROVE  \E i \in sent : u[i].tx = t /\ u[i].from = Begin[t] /\ u[i].to = End[t]
  <2>1. PICK i \in DOMAIN u : Sends(u[i]) /\ u[i].tx = t
    BY <1>3 DEF Complete
  <2>2. u[i].from = Begin[t] /\ u[i].to = End[t] /\ i \in sent
    BY <2>1 DEF Joined, Sends
  <2> QED
    BY <2>1, <2>2
<1>4. Cardinality({u[i].tx : i \in sent}) = Cardinality(sent)
    BY SentOnce
<1> HIDE DEF sent
<1>5. \A t \in DOMAIN Txs : Decrypts(key, t) /\ Begin[t] < End[t] /\ End[t] <= applied
         => \E i \in sent : u[i].tx = t /\ u[i].from = Begin[t] /\ u[i].to = End[t]
    BY <1>3
<1> QED
    BY <1>1, <1>2, <1>4, <1>5 DEF UpdatesExact, sent

(* The theorems *)

LEMMA InitInv == Init => IInv
BY InitPipeline, InitRequests, InitFeed, InitDust, InitSync DEF IInv

LEMMA StepInv == IInv /\ [Next]_vars => IInv'
BY PipelineStep, RequestStep, FeedStep, DustStep, SyncStep DEF IInv

LEMMA InvWalks == IInv => WalksWhole
<1> SUFFICES ASSUME IInv, NEW c \in Client, req[c].pc \in Walking
             PROVE  /\ pc \notin Changing
                    /\ req[c].pc = "walk" =>
                          \/ req[c].state \in arena
                          \/ shown["window"] >= req[c].state + Retention
    BY DEF WalksWhole
<1>1. pc \notin Changing
    BY DEF IInv, RequestInv
<1>2. SUFFICES ASSUME req[c].pc = "walk"
               PROVE  \/ req[c].state \in arena
                      \/ shown["window"] >= req[c].state + Retention
    BY <1>1
<1> DEFINE top == shown["window"]
           s == req[c].state
<1>3. s \in 1 .. shown["tip"]
    BY <1>2 DEF IInv, RequestInv
<1>4. shown["tip"] = top /\ top \in Nat
    BY <1>1, PartitionNames DEF IInv, PipelineInv, Changing
<1>5. /\ Len(window) \in Nat /\ Len(window) <= top
      /\ Len(window) = top \/ Len(window) >= Retention
      /\ (top - Len(window) + 1) .. top \subseteq arena
  <2>1. pc \notin {"apply", "commit"}
    BY <1>1 DEF Changing
  <2> QED
    BY <2>1 DEF IInv, PipelineInv
<1> HIDE DEF top, s
<1>6. CASE s > top - Len(window)
    BY <1>3, <1>4, <1>5, <1>6 DEF s
<1>7. CASE s <= top - Len(window)
    BY <1>3, <1>4, <1>5, <1>7, RetentionAssumption DEF top, s
<1> QED
    BY <1>3, <1>4, <1>5, <1>6, <1>7 DEF s

\* Requests and the pipeline exclude each other on the arena, and a state whose
\* key was read before the lock was taken is whole under it for Retention - 1
\* further blocks, for any number of clients and blocks.
THEOREM WalksNeverTorn == Spec => []WalksWhole
BY InitInv, StepInv, InvWalks, PTL DEF Spec

\* Pages of /wallet/events, joined by cursors and scanned_through, are the
\* Zswap and DUST events in order, each once, with the right relevance,
\* wherever in a commit each page was read.
THEOREM FeedLosesNothing == Spec => []FeedExact
<1>1. IInv => FeedExact
    BY DEF IInv, FeedInv, FeedJoins, FeedExact
<1> QED
    BY <1>1, InitInv, StepInv, PTL DEF Spec

\* Pages of /wallet/dust-sync skip no DUST event, wherever in a commit their two
\* reads fall.
THEOREM DustLosesNothing == Spec => []DustComplete
<1>1. IInv => DustComplete
    BY DEF IInv, DustInv, DustJoins, DustComplete, DustAmong
<1> QED
    BY <1>1, InitInv, StepInv, PTL DEF Spec

\* The updates of all answers of /wallet/shielded-sync lie end to end up to the
\* index that is applied, with every transaction the viewing key decrypts among
\* them and none twice, for any number of wallets that scan for the same key
\* while blocks are indexed.
THEOREM SyncLosesNothing == Spec => []SyncExact
<1>1. IInv => SyncExact
    BY JoinedExact DEF IInv, SyncInv, Synced, SyncExact
<1> QED
    BY <1>1, InitInv, StepInv, PTL DEF Spec

\* A wallet that goes on from its last answer is never told that its index lies
\* inside a transaction or beyond the tree, and the state it is served from lags
\* the tip it read by the block that is being written at most.
THEOREM SyncGoesOn == Spec => []SyncServed
<1>1. IInv => SyncServed
  <2> SUFFICES ASSUME IInv, NEW c \in Client, req[c].kind = "shielded"
               PROVE  /\ req[c].pc \notin {"inside", "beyond"}
                      /\ req[c].pc \in {"walk", "behind"} => req[c].state >= req[c].tip - 1
    BY DEF SyncServed
  <2>1. Syncs(c, mem[c], req[c], shown["tip"], progress[KeyOf[c]])
    BY DEF IInv, SyncInv
  <2> QED
    BY <2>1 DEF Syncs
<1> QED
    BY <1>1, InitInv, StepInv, PTL DEF Spec
=============================================================================
