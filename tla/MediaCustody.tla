---------------------------- MODULE MediaCustody ----------------------------
(***************************************************************************)
(* Who may still have a file of the media library: its row and its bytes   *)
(* (upload, trash, restore, the four ways to delete and the retention      *)
(* pass), its scan verdict and its quarantine (overlapping scan sweeps and *)
(* releases).                                                              *)
(*                                                                         *)
(* A statement is a step and sees what is committed.  The two transactions *)
(* that matter, apply_verdict and close_quarantine, are split into their   *)
(* statements: the update of a media row locks it until the commit.        *)
(* Versions, derivatives and folders follow their file and are left out;   *)
(* the age of a trashed file is a subset the retention pass may pick.      *)
(***************************************************************************)
EXTENDS Naturals, FiniteSets

CONSTANTS
  Files,      \* files of one site
  Sweepers,   \* scan sweeps that may be under way at once
  Releasers,  \* administrators releasing a quarantine
  Purgers     \* requests and retention passes that delete

Verdicts == {"clean", "flagged", "error", "skipped"}
Kinds == {"file", "trash", "bulk", "delete", "retention"}

VARIABLES
  row,        \* media: "absent" before the upload, "live", "trashed" or "gone"
  bytes,      \* files whose object is in the store
  scan,       \* media.scan_status
  open,       \* open rows of media_quarantines, by file
  kept,       \* files under a legal hold or referenced by content
  sweeper,    \* local state of every scan sweep
  releaser,   \* the file a release is closing the quarantine of
  purger,     \* local state of every deletion
  overlapped, \* history: files two sweeps had claimed at the same time
  doomed,     \* history: files an operator deleted without trashing them first
  raced       \* history: files restored after or during their deletion

vars == <<row, bytes, scan, open, kept, sweeper, releaser, purger, overlapped, doomed, raced>>
library == <<row, bytes, kept, purger, doomed, raced>>
scanning == <<scan, open, sweeper, releaser, overlapped>>

NoFile == "none"
Sweeper == [phase : {"idle", "claimed", "locked", "added"}, left : SUBSET Files,
            at : Files \cup {NoFile}, verdict : Verdicts, adds : BOOLEAN]
IdleSweeper == [phase |-> "idle", left |-> {}, at |-> NoFile, verdict |-> "clean", adds |-> FALSE]
Purger == [phase : {"idle", "objects", "rows"}, kind : Kinds, ids : SUBSET Files]
IdlePurger == [phase |-> "idle", kind |-> "file", ids |-> {}]

Init ==
  /\ row = [f \in Files |-> "absent"]
  /\ bytes = {}
  /\ scan = [f \in Files |-> "pending"]
  /\ open = [f \in Files |-> 0]
  /\ kept = {}
  /\ sweeper = [s \in Sweepers |-> IdleSweeper]
  /\ releaser = [r \in Releasers |-> NoFile]
  /\ purger = [p \in Purgers |-> IdlePurger]
  /\ overlapped = {} /\ doomed = {} /\ raced = {}

Exists(f) == row[f] \in {"live", "trashed"}

\* No scan verdict is being written to the row.
Free(f) == \A s \in Sweepers : sweeper[s].phase \in {"locked", "added"} => sweeper[s].at # f
BeingReleased(f) == \E r \in Releasers : releaser[r] = f
BeingPurged(f) == \E p \in Purgers : f \in purger[p].ids

-----------------------------------------------------------------------------
(* The library *)

\* The object is stored before the row is written.
Upload(f) ==
  /\ row[f] = "absent"
  /\ row' = [row EXCEPT ![f] = "live"]
  /\ bytes' = bytes \cup {f}
  /\ UNCHANGED <<kept, purger, doomed, raced>> /\ UNCHANGED scanning

Trash(f) ==
  /\ row[f] = "live" /\ Free(f)
  /\ row' = [row EXCEPT ![f] = "trashed"]
  /\ UNCHANGED <<bytes, kept, purger, doomed, raced>> /\ UNCHANGED scanning

\* Nothing asks whether somebody is deleting the file, or has begun to.
Restore(f) ==
  /\ row[f] = "trashed" /\ Free(f)
  /\ row' = [row EXCEPT ![f] = "live"]
  /\ raced' = IF f \notin bytes \/ BeingPurged(f) THEN raced \cup {f} ELSE raced
  /\ UNCHANGED <<bytes, kept, purger, doomed>> /\ UNCHANGED scanning

\* A hold is set or lifted, a reference appears or goes.
Keep(f) ==
  /\ Exists(f) /\ Free(f)
  /\ kept' \in {kept \cup {f}, kept \ {f}}
  /\ UNCHANGED <<row, bytes, purger, doomed, raced>> /\ UNCHANGED scanning

-----------------------------------------------------------------------------
(* Deleting *)

\* Mutant: purge_file takes a file of any state.
PurgeableAny(f) == Exists(f)

\* purge_file refuses a file that is not in the trash.
Purgeable(f) == row[f] = "trashed"

\* What each way to delete picks.  The bulk purge and the old delete route take
\* files in any state; the retention pass spares held and referenced files and
\* skips locked rows.
Picks(kind) ==
  CASE kind = "file" -> {{f} : f \in {g \in Files : Purgeable(g)}}
    [] kind = "trash" -> {{f \in Files : row[f] = "trashed"}}
    [] kind = "bulk" -> SUBSET {f \in Files : Exists(f)}
    [] kind = "delete" -> {{f} : f \in {g \in Files : Exists(g)}}
    [] kind = "retention" ->
         SUBSET {f \in Files : row[f] = "trashed" /\ f \notin kept /\ Free(f)}

\* The pass deletes rows before objects, the routes objects before rows.
PickFiles(p) ==
  /\ purger[p].phase = "idle"
  /\ \E kind \in Kinds :
       \E ids \in Picks(kind) \ {{}} :
         /\ purger' = [purger EXCEPT ![p] =
              [phase |-> IF kind = "retention" THEN "rows" ELSE "objects",
               kind |-> kind, ids |-> ids]]
         /\ doomed' = IF kind \in {"bulk", "delete"}
                        THEN doomed \cup {f \in ids : row[f] = "live"} ELSE doomed
  /\ UNCHANGED <<row, bytes, kept, raced>> /\ UNCHANGED scanning

Onward(p, phase) ==
  purger' = [purger EXCEPT ![p] = IF phase = "idle" THEN IdlePurger
               ELSE [phase |-> phase, kind |-> purger[p].kind, ids |-> purger[p].ids]]

\* The store may refuse an object: purge_file and delete stop there, the others
\* go on.
RemoveObjects(p) ==
  /\ purger[p].phase = "objects"
  /\ \E done \in SUBSET purger[p].ids :
       /\ bytes' = bytes \ done
       /\ Onward(p, IF \/ purger[p].kind = "retention"
                       \/ purger[p].kind \in {"file", "delete"} /\ done # purger[p].ids
                      THEN "idle" ELSE "rows")
  /\ UNCHANGED <<row, kept, doomed, raced>> /\ UNCHANGED scanning

\* The delete waits for every lock; all but the old route leave a restored row.
Deleted(p) ==
  {f \in purger[p].ids : row[f] = "trashed" \/ (purger[p].kind = "delete" /\ Exists(f))}

DeleteRows(p) ==
  /\ purger[p].phase = "rows"
  /\ \A f \in Deleted(p) : Free(f) /\ ~BeingReleased(f)
  /\ row' = [f \in Files |-> IF f \in Deleted(p) THEN "gone" ELSE row[f]]
  /\ open' = [f \in Files |-> IF f \in Deleted(p) THEN 0 ELSE open[f]]
  /\ Onward(p, IF purger[p].kind = "retention" THEN "objects" ELSE "idle")
  /\ UNCHANGED <<bytes, kept, doomed, raced, scan, sweeper, releaser, overlapped>>

\* The request is dropped or the process stops.
PurgeStops(p) ==
  /\ purger[p].phase # "idle"
  /\ Onward(p, "idle")
  /\ UNCHANGED <<row, bytes, kept, doomed, raced>> /\ UNCHANGED scanning

-----------------------------------------------------------------------------
(* Scanning *)

Becomes(s, phase, left, at, verdict, adds) ==
  sweeper' = [sweeper EXCEPT ![s] = [phase |-> phase, left |-> left, at |-> at,
                                     verdict |-> verdict, adds |-> adds]]

\* Files another sweep has claimed and not yet written.
Claimed(s) == UNION {sweeper[t].left : t \in Sweepers \ {s}}

\* Mutant: the claim takes files of every verdict.
ClaimableAny(f) == row[f] = "live" /\ Free(f)

\* The claim locks, reads and commits: nothing marks the rows it returns.
Claimable(f) == row[f] = "live" /\ scan[f] = "pending" /\ Free(f)

ClaimPending(s) ==
  LET new == {f \in Files : Claimable(f)} IN
  /\ sweeper[s].phase = "idle"
  /\ new # {}
  /\ Becomes(s, "claimed", new, NoFile, "clean", FALSE)
  /\ overlapped' = overlapped \cup (new \cap Claimed(s))
  /\ UNCHANGED <<scan, open, releaser>> /\ UNCHANGED library

\* apply_verdict: the update, which locks the row.
LockRow(s) ==
  /\ sweeper[s].phase = "claimed"
  /\ \E f \in sweeper[s].left, v \in Verdicts :
       /\ Exists(f) /\ Free(f)
       /\ Becomes(s, "locked", sweeper[s].left, f, v, FALSE)
  /\ UNCHANGED <<scan, open, releaser, overlapped>> /\ UNCHANGED library

\* The file is gone and the update finds nothing, or the verdict cannot be
\* written: the sweep goes on with the next file.
SkipFile(s) ==
  /\ sweeper[s].phase # "idle"
  /\ \E f \in sweeper[s].left :
       /\ sweeper[s].at \in {NoFile, f}
       /\ Becomes(s, "claimed", sweeper[s].left \ {f}, NoFile, "clean", FALSE)
  /\ UNCHANGED <<scan, open, releaser, overlapped>> /\ UNCHANGED library

\* Mutant: the quarantine is inserted without looking for an open one.
AddsAlways(s) == sweeper[s].verdict = "flagged"

\* The insert, where no open quarantine is committed.
Adds(s) == sweeper[s].verdict = "flagged" /\ open[sweeper[s].at] = 0

AddQuarantine(s) ==
  /\ sweeper[s].phase = "locked"
  /\ Becomes(s, "added", sweeper[s].left, sweeper[s].at, sweeper[s].verdict, Adds(s))
  /\ UNCHANGED <<scan, open, releaser, overlapped>> /\ UNCHANGED library

CommitVerdict(s) ==
  LET f == sweeper[s].at IN
  /\ sweeper[s].phase = "added"
  /\ scan' = [scan EXCEPT ![f] = sweeper[s].verdict]
  /\ open' = [open EXCEPT ![f] = IF sweeper[s].adds THEN open[f] + 1 ELSE open[f]]
  /\ Becomes(s, "claimed", sweeper[s].left \ {f}, NoFile, "clean", FALSE)
  /\ UNCHANGED <<releaser, overlapped>> /\ UNCHANGED library

\* The sweep is through, or its request ends early and its transaction with it.
SweepEnds(s) ==
  /\ sweeper[s].phase # "idle"
  /\ sweeper' = [sweeper EXCEPT ![s] = IdleSweeper]
  /\ UNCHANGED <<scan, open, releaser, overlapped>> /\ UNCHANGED library

-----------------------------------------------------------------------------
(* Releasing *)

\* close_quarantine: the first statement locks the quarantine.
BeginRelease(r, f) ==
  /\ releaser[r] = NoFile
  /\ open[f] > 0 /\ ~BeingReleased(f)
  /\ releaser' = [releaser EXCEPT ![r] = f]
  /\ UNCHANGED <<scan, open, sweeper, overlapped>> /\ UNCHANGED library

\* The second waits for the media row; a flagged file becomes skipped.
CommitRelease(r) ==
  LET f == releaser[r] IN
  /\ f # NoFile
  /\ Free(f)
  /\ open' = [open EXCEPT ![f] = open[f] - 1]
  /\ scan' = [scan EXCEPT ![f] = IF scan[f] = "flagged" THEN "skipped" ELSE scan[f]]
  /\ releaser' = [releaser EXCEPT ![r] = NoFile]
  /\ UNCHANGED <<sweeper, overlapped>> /\ UNCHANGED library

ReleaseFails(r) ==
  /\ releaser[r] # NoFile
  /\ releaser' = [releaser EXCEPT ![r] = NoFile]
  /\ UNCHANGED <<scan, open, sweeper, overlapped>> /\ UNCHANGED library

-----------------------------------------------------------------------------
(* Specification *)

Next ==
  \/ \E f \in Files : Upload(f) \/ Trash(f) \/ Restore(f) \/ Keep(f)
  \/ \E p \in Purgers : PickFiles(p) \/ RemoveObjects(p) \/ DeleteRows(p) \/ PurgeStops(p)
  \/ \E s \in Sweepers : \/ ClaimPending(s) \/ LockRow(s) \/ SkipFile(s)
                         \/ AddQuarantine(s) \/ CommitVerdict(s) \/ SweepEnds(s)
  \/ \E r \in Releasers : \/ \E f \in Files : BeginRelease(r, f)
                          \/ CommitRelease(r) \/ ReleaseFails(r)

Spec == Init /\ [][Next]_vars

-----------------------------------------------------------------------------
(* Properties *)

\* ensure_scan_allows and may_serve, under the policy that serves most: a clean
\* verdict is enough, any other asks for the quarantine first.  Neither looks at
\* deleted_at, and public_media loads a file of any state: a trashed file passes.
MayServe(f) ==
  Exists(f) /\ (scan[f] = "clean" \/ (open[f] = 0 /\ scan[f] # "flagged"))

\* Rows, verdicts and actors stay in their types.  A file has at most one open
\* quarantine, which no index of the table enforces, and none once its row is gone.
TypeOK ==
  /\ row \in [Files -> {"absent", "live", "trashed", "gone"}]
  /\ bytes \subseteq Files /\ kept \subseteq Files
  /\ scan \in [Files -> {"pending"} \cup Verdicts]
  /\ open \in [Files -> 0 .. 1]
  /\ sweeper \in [Sweepers -> Sweeper]
  /\ releaser \in [Releasers -> Files \cup {NoFile}]
  /\ purger \in [Purgers -> Purger]
  /\ \A f \in Files : open[f] > 0 => Exists(f)

\* A file under an open quarantine is withheld: a clean verdict lifts it only when
\* two sweeps had claimed the file at the same time and the later one, which
\* overwrites without a test, disagreed.
WithheldUnlessOverlapped ==
  \A f \in Files : open[f] > 0 /\ f \notin overlapped => ~MayServe(f)

\* A file of the library has its bytes, unless an operator deleted it without the
\* trash or it was restored after its deletion began.
LossIsExplained ==
  \A f \in Files : row[f] = "live" /\ f \notin doomed \cup raced => f \in bytes
=============================================================================
