----------------------------- MODULE BundleProofs -----------------------------
(***************************************************************************)
(* Proofs about the bundle publisher, for any number of processes and any  *)
(* bytes: a visible bundle is whole, a success is true, and the path is a  *)
(* write-once register.                                                    *)
(***************************************************************************)
EXTENDS BundlePublisher, TLAPS

Unpublished == {"write", "verify", "syncRaw", "syncStaging", "syncParent",
                "publish", "recheck"}

\* The path: nobody's entry is no entry, an entry of ours is whole and every
\* file of it is on disk, and CREATED was returned only for what is on disk.
PathInv ==
  /\ final.by = "nobody" <=> final = None
  /\ final.by \in Publishers => final.files = Files /\ final.safe = Files
  /\ final.by = Foreign => final.safe = final.files
  /\ onDisk => final # None
  /\ told => onDisk

\* One call: what it has staged and synced at each step, and what it may say.
CallInv(p) ==
  /\ pc[p] \in Unpublished \ {"write"} => staged[p] = Files
  /\ pc[p] = "syncStaging" => "raw" \in synced[p]
  /\ pc[p] \in {"syncParent", "publish", "recheck"} => synced[p] = Files
  /\ pc[p] \in {"check", "mkdir", "confirm", "syncPublished"} => ~hidden[p]
  /\ pc[p] \in Unpublished => hidden[p]
  /\ pc[p] \in {"confirm", "syncPublished"} =>
       final.by = p /\ final.bytes = want[p]
  /\ result[p] # "none" => pc[p] = "idle"
  /\ result[p] \in Success =>
       final.files = Files /\ final.bytes = want[p] /\ ~hidden[p]
  /\ result[p] = "CREATED" => final.by = p /\ onDisk

Inv == TypeOK /\ PathInv /\ \A p \in Publishers : CallInv(p)

LEMMA InitInv == Init => Inv
<1> SUFFICES ASSUME Init PROVE Inv
  OBVIOUS
<1>1. final = None \/ \E c \in Contents, fs \in SUBSET Files :
        final = [by |-> Foreign, bytes |-> c, files |-> fs, safe |-> fs]
  BY DEF Init, Files
<1>2. /\ final \in [by : Publishers \cup {Foreign, "nobody"}, bytes : Contents \cup {"none"},
                    files : SUBSET Files, safe : SUBSET Files]
      /\ final.by = "nobody" <=> final = None
      /\ final.by \notin Publishers
      /\ final.safe = final.files
  BY <1>1, PublisherAssumption DEF None, Foreign
<1>3. TypeOK
  BY <1>2 DEF Init, TypeOK, Steps
<1>4. PathInv
  BY <1>2 DEF Init, PathInv
<1>5. \A p \in Publishers : CallInv(p)
  BY DEF Init, CallInv, Success, Unpublished
<1> QED
  BY <1>3, <1>4, <1>5 DEF Inv

\* A step of one call that leaves the path alone.
LEMMA QuietStep ==
  ASSUME Inv, NEW p \in Publishers,
         Call(p) \/ CheckExisting(p) \/ MakeStaging(p) \/ VerifyStaging(p)
         \/ SyncRaw(p) \/ SyncStaging(p) \/ Recheck(p) \/ Confirm(p)
         \/ Fail(p) \/ Die(p)
  PROVE  Inv'
<1> USE DEF Inv, TypeOK, PathInv, CallInv, Steps, Success, Unpublished, Goto, Return
<1>1. CASE Call(p)
  BY <1>1 DEF Call
<1>2. CASE CheckExisting(p)
  BY <1>2 DEF CheckExisting, IsIdentical
<1>3. CASE MakeStaging(p)
  BY <1>3 DEF MakeStaging
<1>4. CASE VerifyStaging(p)
  BY <1>4 DEF VerifyStaging
<1>5. CASE SyncRaw(p)
  BY <1>5 DEF SyncRaw, Files
<1>6. CASE SyncStaging(p)
  BY <1>6 DEF SyncStaging, Files
<1>7. CASE Recheck(p)
  BY <1>7 DEF Recheck, IsIdentical
<1>8. CASE Confirm(p)
  BY <1>8 DEF Confirm
<1>9. CASE Fail(p)
  BY <1>9 DEF Fail
<1>10. CASE Die(p)
  BY <1>10 DEF Die
<1> QED
  BY <1>1, <1>2, <1>3, <1>4, <1>5, <1>6, <1>7, <1>8, <1>9, <1>10

LEMMA WriteStep ==
  ASSUME Inv, NEW p \in Publishers, WriteArtifact(p)
  PROVE  Inv'
<1> USE DEF Inv, TypeOK, PathInv, CallInv, Steps, Success, Unpublished, Goto
<1>1. PICK f \in Files : staged' = [staged EXCEPT ![p] = @ \cup {f}]
  BY DEF WriteArtifact
<1>2. staged' \in [Publishers -> SUBSET Files]
  BY <1>1
<1> QED
  BY <1>1, <1>2 DEF WriteArtifact

\* The rename: the staged files become the entry only where there was none.
LEMMA PublishStep ==
  ASSUME Inv, NEW p \in Publishers, AtomicPublish(p)
  PROVE  Inv'
<1> USE PublisherAssumption
    DEF Inv, TypeOK, PathInv, CallInv, Steps, Success, Unpublished, Goto
<1>1. staged[p] = Files /\ synced[p] = Files
  BY DEF AtomicPublish
<1>2. CASE final = None
  <2>1. /\ final' = [by |-> p, bytes |-> want[p], files |-> Files, safe |-> Files]
        /\ ~onDisk' /\ ~told
    BY <1>1, <1>2 DEF AtomicPublish
  <2>2. final' # None /\ final'.by # "nobody" /\ final'.by # Foreign
    BY <2>1 DEF None, Foreign
  <2>3. \A q \in Publishers : result[q] \notin Success
                              /\ pc[q] \notin {"confirm", "syncPublished"}
    BY <1>2 DEF None, Files
  <2>4. TypeOK'
    BY <1>2, <2>1 DEF AtomicPublish
  <2>5. PathInv'
    BY <2>1, <2>2 DEF AtomicPublish
  <2>6. \A q \in Publishers : CallInv(q)'
    BY <1>2, <2>1, <2>3 DEF AtomicPublish
  <2> QED
    BY <2>4, <2>5, <2>6
<1>3. CASE final # None
  BY <1>3 DEF AtomicPublish
<1> QED
  BY <1>2, <1>3

LEMMA DiskStep ==
  ASSUME Inv, NEW p \in Publishers, SyncParent(p) \/ SyncPublished(p)
  PROVE  Inv'
<1> USE DEF Inv, TypeOK, PathInv, CallInv, Steps, Success, Unpublished, Goto
<1>1. CASE SyncParent(p)
  BY <1>1 DEF SyncParent
<1>2. CASE SyncPublished(p)
  <2>1. final # None
    BY <1>2, PublisherAssumption DEF SyncPublished
  <2>2. final.files = Files /\ final.by = p /\ final.bytes = want[p] /\ ~hidden[p]
    BY <1>2 DEF SyncPublished
  <2> QED
    BY <1>2, <2>1, <2>2 DEF SyncPublished, Return
<1> QED
  BY <1>1, <1>2

\* What a power loss leaves at the path: all of it, or nothing if it was not
\* fsynced.
LEMMA PowerLossPath ==
  ASSUME Inv, PowerLoss
  PROVE  final' = final \/ (~onDisk /\ final' = None)
<1>1. CASE ~onDisk /\ final' = None
  BY <1>1
<1>2. CASE \E fs \in SUBSET final.files :
             /\ final.safe \subseteq fs
             /\ final' = [final EXCEPT !.files = fs, !.safe = fs]
  <2>1. final.safe = final.files
    BY DEF Inv, TypeOK, PathInv, None, Foreign
  <2>2. PICK fs \in SUBSET final.files :
          final.safe \subseteq fs /\ final' = [final EXCEPT !.files = fs, !.safe = fs]
    BY <1>2
  <2>3. fs = final.files
    BY <2>1, <2>2
  <2> QED
    BY <2>1, <2>2, <2>3 DEF Inv, TypeOK
<1> QED
  BY <1>1, <1>2 DEF PowerLoss

LEMMA PowerStep == ASSUME Inv, PowerLoss PROVE Inv'
<1>1. onDisk' = (final' # None) /\ (told' => onDisk')
  BY PowerLossPath DEF PowerLoss, Inv, PathInv
<1>2. PathInv'
  <2>1. CASE final' = final
    BY <1>1, <2>1 DEF Inv, PathInv
  <2>2. CASE final' = None
    BY <1>1, <2>2, PublisherAssumption DEF PathInv, None, Foreign
  <2> QED
    BY <2>1, <2>2, PowerLossPath
<1>3. TypeOK'
  <2>1. final' = final \/ final' = None
    BY PowerLossPath
  <2>2. final' \in [by : Publishers \cup {Foreign, "nobody"}, bytes : Contents \cup {"none"},
                   files : SUBSET Files, safe : SUBSET Files]
    BY <2>1 DEF Inv, TypeOK, None
  <2> QED
    BY <1>1, <2>2 DEF PowerLoss, Inv, TypeOK, Steps
<1>4. \A p \in Publishers : CallInv(p)'
  BY DEF PowerLoss, CallInv, Success, Unpublished
<1> QED
  BY <1>2, <1>3, <1>4 DEF Inv

LEMMA NextInv == Inv /\ [Next]_vars => Inv'
<1> SUFFICES ASSUME Inv, [Next]_vars PROVE Inv'
  OBVIOUS
<1>1. CASE UNCHANGED vars
  BY <1>1 DEF vars, Inv, TypeOK, PathInv, CallInv
<1>2. CASE PowerLoss
  BY <1>2, PowerStep
<1>3. CASE \E p \in Publishers : WriteArtifact(p) \/ AtomicPublish(p)
                                 \/ SyncParent(p) \/ SyncPublished(p)
  BY <1>3, WriteStep, PublishStep, DiskStep
<1> QED
  BY <1>1, <1>2, <1>3, QuietStep DEF Next

LEMMA Inductive == Spec => []Inv
  BY InitInv, NextInv, PTL DEF Spec

\* Every variable keeps its type.
THEOREM TypeCorrect == Spec => []TypeOK
  BY Inductive, PTL DEF Inv

\* A bundle exposed by any of the calls has all its files, also after failures,
\* deaths and power losses.
THEOREM NeverPartialBundle == Spec => []NeverPartial
<1>1. Inv => NeverPartial
  BY DEF Inv, PathInv, NeverPartial
<1> QED
  BY Inductive, <1>1, PTL

\* A call that returned success finds its bytes at the path and left no staging.
THEOREM SuccessTrue == Spec => []SuccessIsTrue
<1>1. Inv => SuccessIsTrue
  BY DEF Inv, CallInv, SuccessIsTrue, Success
<1> QED
  BY Inductive, <1>1, PTL

-----------------------------------------------------------------------------
\* Every step maps to a step of the register, or to none.
LEMMA StepImplements == Inv /\ [Next]_vars => [Register!Next]_Register!vars
<1> SUFFICES ASSUME Inv, [Next]_vars PROVE [Register!Next]_Register!vars
  OBVIOUS
<1> USE DEF Register!Next, Register!vars
<1>1. CASE final' = final /\ told' = told
  BY <1>1 DEF PathValue
<1>2. ASSUME NEW p \in Publishers, SyncPublished(p) PROVE Register!Acknowledge
  <2>1. final.by = p /\ final.files = Files /\ final.bytes \in Contents
    BY <1>2 DEF SyncPublished, Inv, PathInv, CallInv, TypeOK
  <2>2. final # None /\ PathValue # "absent"
    BY <2>1, PublisherAssumption DEF None, PathValue
  <2> QED
    BY <1>2, <2>2 DEF SyncPublished, Register!Acknowledge, PathValue
<1>3. ASSUME NEW p \in Publishers, AtomicPublish(p), final = None
      PROVE  Register!Publish
  <2>1. final' = [by |-> p, bytes |-> want[p], files |-> Files, safe |-> Files]
    BY <1>3 DEF AtomicPublish, Inv, CallInv, Unpublished
  <2>2. PathValue = "absent" /\ PathValue' = want[p]
    BY <1>3, <2>1, PublisherAssumption DEF PathValue, None
  <2> QED
    BY <1>3, <2>2 DEF AtomicPublish, Register!Publish, Inv, TypeOK
<1>4. ASSUME PowerLoss, final' # final PROVE Register!Lose
  <2>1. final' = None /\ ~told /\ told' = told
    BY <1>4, PowerLossPath DEF PowerLoss, Inv, PathInv
  <2> QED
    BY <2>1 DEF Register!Lose, PathValue
<1>5. CASE PowerLoss
  BY <1>1, <1>4, <1>5 DEF PowerLoss
<1>6. CASE \E p \in Publishers :
             \/ Call(p) \/ CheckExisting(p) \/ MakeStaging(p) \/ WriteArtifact(p)
             \/ VerifyStaging(p) \/ SyncRaw(p) \/ SyncStaging(p) \/ SyncParent(p)
             \/ Recheck(p) \/ Confirm(p) \/ Fail(p) \/ Die(p)
  BY <1>1, <1>6 DEF Call, CheckExisting, MakeStaging, WriteArtifact, VerifyStaging,
     SyncRaw, SyncStaging, SyncParent, Recheck, Confirm, Fail, Die
<1>7. CASE \E p \in Publishers : AtomicPublish(p)
  <2> PICK p \in Publishers : AtomicPublish(p)
    BY <1>7
  <2>1. CASE final = None
    BY <1>3, <2>1
  <2>2. CASE final # None
    BY <1>1, <2>2 DEF AtomicPublish
  <2> QED
    BY <2>1, <2>2
<1> QED
  BY <1>1, <1>2, <1>5, <1>6, <1>7 DEF Next, vars

LEMMA InitImplements == Init => Register!Init
  BY PublisherAssumption DEF Init, Register!Init, PathValue, None

\* write_bundle implements the write-once register.
THEOREM PathIsWriteOnce == Spec => ImplementsWriteOnce
  BY Inductive, StepImplements, InitImplements, PTL
  DEF Spec, ImplementsWriteOnce, Register!Spec
=============================================================================
