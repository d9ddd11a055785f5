--------------------------- MODULE BundlePublisher ---------------------------
(***************************************************************************)
(* write_bundle of the prospective result recorder (P272): a call stages   *)
(* the four files of an observation in a hidden directory of its own and   *)
(* exposes them under the final path with one no-replace rename.  Several  *)
(* processes publish to the same path at once, a call may fail or its      *)
(* process die at any step, and the machine may lose power, which keeps    *)
(* only the directory entries that were fsynced.                           *)
(*                                                                         *)
(* The bytes of a bundle are one member of Contents: a later capture of    *)
(* the same game has other bytes (its observation time), an offline        *)
(* verification of saved bytes has the same ones.  Each call has a random  *)
(* staging name, so stagings never meet; one left behind is never read     *)
(* again and is forgotten here.  The identity checks against an entry      *)
(* swapped by somebody else are left out: only write_bundle writes here.   *)
(***************************************************************************)
EXTENDS FiniteSets

CONSTANTS
  Publishers,   \* processes that call write_bundle on one path
  Contents      \* the different bytes an observation may have

ASSUME PublisherAssumption ==
  /\ Contents # {} /\ {"absent", "partial"} \cap Contents = {}
  /\ {"nobody", "foreign"} \cap Publishers = {}

Files == {"observation", "raw", "source_index", "checksum"}

None == [by |-> "nobody", bytes |-> "none", files |-> {}, safe |-> {}]
Foreign == "foreign"   \* who made an entry found at the path by the first call

VARIABLES
  final,     \* the entry at the final path: its maker, bytes and files, and the
             \* files whose own directory entry survives a power loss
  onDisk,    \* whether that entry survives a power loss
  pc,        \* the step each call is at
  want,      \* the bytes each call is to publish
  staged,    \* the files in the call's staging directory
  synced,    \* the files whose entry in that directory was fsynced
  hidden,    \* whether the call's staging name exists
  result,    \* what the last finished call of a process returned
  told       \* whether some call has ever returned CREATED

vars == <<final, onDisk, pc, want, staged, synced, hidden, result, told>>

Steps == {"idle", "check", "mkdir", "write", "verify", "syncRaw", "syncStaging",
          "syncParent", "publish", "recheck", "confirm", "syncPublished"}
Success == {"CREATED", "VERIFIED_IDENTICAL"}

\* _verify_bundle_contents: the exact inventory, then every file's bytes
IsIdentical(p) == final.files = Files /\ final.bytes = want[p]

TypeOK ==
  /\ final \in [by : Publishers \cup {Foreign, "nobody"},
                bytes : Contents \cup {"none"},
                files : SUBSET Files, safe : SUBSET Files]
  /\ onDisk \in BOOLEAN /\ told \in BOOLEAN
  /\ pc \in [Publishers -> Steps]
  /\ want \in [Publishers -> Contents]
  /\ staged \in [Publishers -> SUBSET Files]
  /\ synced \in [Publishers -> SUBSET Files]
  /\ hidden \in [Publishers -> BOOLEAN]
  /\ result \in [Publishers -> Success \cup {"none", "failed"}]

\* the path may hold nothing, or a directory an earlier program left, whole or not
Init ==
  /\ \/ final = None
     \/ \E c \in Contents, fs \in {{"observation"}, Files} :
          final = [by |-> Foreign, bytes |-> c, files |-> fs, safe |-> fs]
  /\ onDisk = (final # None)
  /\ pc = [p \in Publishers |-> "idle"]
  /\ want \in [Publishers -> Contents]
  /\ staged = [p \in Publishers |-> {}]
  /\ synced = [p \in Publishers |-> {}]
  /\ hidden = [p \in Publishers |-> FALSE]
  /\ result = [p \in Publishers |-> "none"]
  /\ told = FALSE

Goto(p, step) == pc' = [pc EXCEPT ![p] = step]

\* Mutant: a call that retains its staging returns what it found, flagged.
ReturnFlagged(p, state) ==
  /\ Goto(p, "idle")
  /\ result' = [result EXCEPT ![p] = IF hidden[p] THEN "retained" ELSE state]
\* Mutant: the retained staging does not count.
ReturnRegardless(p, state) ==
  /\ Goto(p, "idle")
  /\ result' = [result EXCEPT ![p] = state]
\* A call ends.  A staging that was not published is retained, never deleted,
\* and a call that retains one fails whatever it found at the final path.
Return(p, state) ==
  /\ Goto(p, "idle")
  /\ result' = [result EXCEPT ![p] = IF hidden[p] THEN "failed" ELSE state]

\* capture, offline_verify: the bytes are built in memory before the call
Call(p) ==
  /\ pc[p] = "idle"
  /\ Goto(p, "check")
  /\ \E c \in Contents : want' = [want EXCEPT ![p] = c]
  /\ staged' = [staged EXCEPT ![p] = {}]
  /\ synced' = [synced EXCEPT ![p] = {}]
  /\ hidden' = [hidden EXCEPT ![p] = FALSE]
  /\ result' = [result EXCEPT ![p] = "none"]
  /\ UNCHANGED <<final, onDisk, told>>

\* _verify_existing_bundle before anything is staged
CheckExisting(p) ==
  /\ pc[p] = "check"
  /\ \/ final = None /\ Goto(p, "mkdir") /\ UNCHANGED result
     \/ final # None /\ IsIdentical(p) /\ Return(p, "VERIFIED_IDENTICAL")
     \/ final # None /\ ~IsIdentical(p) /\ Return(p, "failed")
  /\ UNCHANGED <<final, onDisk, want, staged, synced, hidden, told>>

MakeStaging(p) ==
  /\ pc[p] = "mkdir"
  /\ Goto(p, "write")
  /\ hidden' = [hidden EXCEPT ![p] = TRUE]
  /\ UNCHANGED <<final, onDisk, want, staged, synced, result, told>>

\* _write_bundle_artifact: the checksums last, the others in any order
WriteArtifact(p) ==
  /\ pc[p] = "write"
  /\ \E f \in Files \ staged[p] :
       /\ f = "checksum" => staged[p] = Files \ {"checksum"}
       /\ staged' = [staged EXCEPT ![p] = @ \cup {f}]
  /\ Goto(p, IF staged'[p] = Files THEN "verify" ELSE "write")
  /\ UNCHANGED <<final, onDisk, want, synced, hidden, result, told>>

\* _verify_staging_before_publish reads back what this call wrote
VerifyStaging(p) ==
  /\ pc[p] = "verify"
  /\ Goto(p, "syncRaw")
  /\ UNCHANGED <<final, onDisk, want, staged, synced, hidden, result, told>>

SyncRaw(p) ==
  /\ pc[p] = "syncRaw"
  /\ synced' = [synced EXCEPT ![p] = @ \cup {"raw"}]
  /\ Goto(p, "syncStaging")
  /\ UNCHANGED <<final, onDisk, want, staged, hidden, result, told>>

\* Mutant: the staging directory is not fsynced before the rename.
SkipSyncStaging(p) ==
  /\ pc[p] = "syncStaging"
  /\ Goto(p, "syncParent")
  /\ UNCHANGED <<final, onDisk, want, staged, synced, hidden, result, told>>
SyncStaging(p) ==
  /\ pc[p] = "syncStaging"
  /\ synced' = [synced EXCEPT ![p] = @ \cup (Files \ {"raw"})]
  /\ Goto(p, "syncParent")
  /\ UNCHANGED <<final, onDisk, want, staged, hidden, result, told>>

\* fsync of the parent: it also keeps a rename of another process
SyncParent(p) ==
  /\ pc[p] = "syncParent"
  /\ onDisk' = (final # None)
  /\ Goto(p, "publish")
  /\ UNCHANGED <<final, want, staged, synced, hidden, result, told>>

\* _atomic_publish_noreplace: RENAME_NOREPLACE, or EEXIST
AtomicPublish(p) ==
  /\ pc[p] = "publish"
  /\ \/ /\ final = None
        /\ final' = [by |-> p, bytes |-> want[p],
                     files |-> staged[p], safe |-> synced[p]]
        /\ onDisk' = FALSE
        /\ hidden' = [hidden EXCEPT ![p] = FALSE]
        /\ Goto(p, "confirm")
     \/ /\ final # None
        /\ Goto(p, "recheck")
        /\ UNCHANGED <<final, onDisk, hidden>>
  /\ UNCHANGED <<want, staged, synced, result, told>>

\* the rename lost the race: the winner's bundle is compared.  It may be gone
\* again only by a power loss, which ends this call too.
Recheck(p) ==
  /\ pc[p] = "recheck"
  /\ Return(p, IF IsIdentical(p) THEN "VERIFIED_IDENTICAL" ELSE "failed")
  /\ UNCHANGED <<final, onDisk, want, staged, synced, hidden, told>>

\* identity and contents of the published bundle, read back
Confirm(p) ==
  /\ pc[p] = "confirm"
  /\ Goto(p, "syncPublished")
  /\ UNCHANGED <<final, onDisk, want, staged, synced, hidden, result, told>>

\* Mutant: CREATED is returned before the parent directory is fsynced.
ReportUnsynced(p) ==
  /\ pc[p] = "syncPublished"
  /\ told' = TRUE
  /\ Return(p, "CREATED")
  /\ UNCHANGED <<final, onDisk, want, staged, synced, hidden>>
SyncPublished(p) ==
  /\ pc[p] = "syncPublished"
  /\ onDisk' = TRUE
  /\ told' = TRUE
  /\ Return(p, "CREATED")
  /\ UNCHANGED <<final, want, staged, synced, hidden>>

\* A step of the call raises: after the rename the bundle stays visible.
Fail(p) ==
  /\ pc[p] # "idle"
  /\ Return(p, "failed")
  /\ UNCHANGED <<final, onDisk, want, staged, synced, hidden, told>>

\* the process dies: nothing is returned, its staging stays
Die(p) ==
  /\ pc[p] # "idle"
  /\ Goto(p, "idle")
  /\ result' = [result EXCEPT ![p] = "none"]
  /\ UNCHANGED <<final, onDisk, want, staged, synced, hidden, told>>

\* The entry survives if its parent was fsynced, and may survive if not; of its
\* own entries the fsynced ones survive, and any others may.
PowerLoss ==
  /\ \/ ~onDisk /\ final' = None
     \/ \E fs \in SUBSET final.files :
          /\ final.safe \subseteq fs
          /\ final' = [final EXCEPT !.files = fs, !.safe = fs]
  /\ onDisk' = (final' # None)
  /\ pc' = [p \in Publishers |-> "idle"]
  /\ result' = [p \in Publishers |-> "none"]
  /\ UNCHANGED <<want, staged, synced, hidden, told>>

Next ==
  \/ \E p \in Publishers :
       \/ Call(p) \/ CheckExisting(p) \/ MakeStaging(p) \/ WriteArtifact(p)
       \/ VerifyStaging(p) \/ SyncRaw(p) \/ SyncStaging(p) \/ SyncParent(p)
       \/ AtomicPublish(p) \/ Recheck(p) \/ Confirm(p) \/ SyncPublished(p)
       \/ Fail(p) \/ Die(p)
  \/ PowerLoss

Spec == Init /\ [][Next]_vars

-----------------------------------------------------------------------------
(* Properties *)

\* A bundle that write_bundle exposed has all its files, whichever calls
\* failed or died half-way and even after a power loss: every directory is
\* fsynced before the rename.
NeverPartial == final.by \in Publishers => final.files = Files

\* A call that returned success finds exactly its own bytes at the final path,
\* all of them, for as long as the machine stays up, and it kept no staging;
\* only the call that renamed reports CREATED, so the loser of a race between
\* identical bundles reports failure.
SuccessIsTrue ==
  \A p \in Publishers :
    result[p] \in Success =>
      /\ final.files = Files /\ final.bytes = want[p] /\ ~hidden[p]
      /\ result[p] = "CREATED" => final.by = p /\ onDisk

\* The path behaves as a write-once register: no call replaces an entry, its
\* own or a stranger's, and no power loss undoes a bundle once any call has
\* returned CREATED.
PathValue ==
  IF final = None THEN "absent" ELSE IF final.files = Files THEN final.bytes ELSE "partial"
Register == INSTANCE WriteOnce WITH
  Values <- Contents \cup {"partial"}, None <- "absent",
  value <- PathValue, acknowledged <- told
ImplementsWriteOnce == Register!Spec
=============================================================================
