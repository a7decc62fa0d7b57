------------------------- MODULE MediaCustodyProofs -------------------------
(***************************************************************************)
(* Proofs that MediaCustody keeps its types, withholds quarantined files   *)
(* and explains every loss, for every set of files, sweeps, releases and   *)
(* deletions.                                                              *)
(*                                                                         *)
(* The library half (row, bytes, purger) and the scanning half (scan,      *)
(* open, sweeper, releaser) share only the existence of a row: each half   *)
(* has an invariant of its own, and a step of the one preserves the        *)
(* other's because it keeps the rows the other one relies on.              *)
(***************************************************************************)
EXTENDS MediaCustody, TLAPS

LibTypes ==
  /\ row \in [Files -> {"absent", "live", "trashed", "gone"}]
  /\ bytes \subseteq Files /\ kept \subseteq Files
  /\ purger \in [Purgers -> Purger]

ScanTypes ==
  /\ scan \in [Files -> {"pending"} \cup Verdicts]
  /\ open \in [Files -> 0 .. 1]
  /\ sweeper \in [Sweepers -> Sweeper]
  /\ releaser \in [Releasers -> Files \cup {NoFile}]

\* A deletion of a file still in the library was ordered without the trash, or
\* the file was restored under it.
DeletionsExplained ==
  \A p \in Purgers : \A f \in purger[p].ids :
     row[f] \in {"trashed", "gone"} \/ f \in doomed \cup raced

LibInv == LibTypes /\ DeletionsExplained /\ LossIsExplained

\* A sweep that writes holds the only lock of an existing row it claimed, and
\* inserts only where nothing is open.
LocksOK ==
  /\ \A s \in Sweepers : sweeper[s].phase \in {"locked", "added"} =>
       /\ sweeper[s].at \in Files /\ Exists(sweeper[s].at)
       /\ sweeper[s].at \in sweeper[s].left
       /\ sweeper[s].adds => sweeper[s].verdict = "flagged" /\ open[sweeper[s].at] = 0
  /\ \A s, t \in Sweepers :
       /\ sweeper[s].phase \in {"locked", "added"} /\ sweeper[t].phase \in {"locked", "added"}
       /\ sweeper[s].at = sweeper[t].at
       => s = t

\* A release closes a quarantine that is open, and no two close the same.
ReleasesOK ==
  /\ \A r \in Releasers : releaser[r] # NoFile =>
       releaser[r] \in Files /\ open[releaser[r]] = 1
  /\ \A q, r \in Releasers : releaser[r] # NoFile /\ releaser[q] = releaser[r] => q = r

\* A file of one claim only has no verdict yet.
ClaimsOK ==
  /\ \A s \in Sweepers : \A f \in sweeper[s].left :
       f \notin overlapped => scan[f] = "pending"
  /\ \A s, t \in Sweepers : \A f \in sweeper[s].left \cap sweeper[t].left :
       f \notin overlapped => s = t

QuarantinesOK ==
  /\ \A f \in Files : open[f] > 0 => Exists(f)
  /\ \A f \in Files : scan[f] = "pending" => open[f] = 0
  /\ \A f \in Files : open[f] > 0 /\ f \notin overlapped => scan[f] # "clean"

ScanInv == ScanTypes /\ LocksOK /\ ReleasesOK /\ ClaimsOK /\ QuarantinesOK

KeepsRows == \A f \in Files : Exists(f) => Exists(f)'

-----------------------------------------------------------------------------
(* The library *)

LEMMA OnwardKeeps ==
  ASSUME LibTypes, NEW p \in Purgers, NEW phase \in {"idle", "objects", "rows"},
         Onward(p, phase)
  PROVE  /\ purger' \in [Purgers -> Purger]
         /\ \A q \in Purgers : purger'[q].ids \subseteq purger[q].ids
<1> DEFINE d == IF phase = "idle" THEN IdlePurger
                  ELSE [phase |-> phase, kind |-> purger[p].kind, ids |-> purger[p].ids]
<1>1. purger[p] \in Purger
  BY DEF LibTypes
<1>2. purger[p].kind \in Kinds /\ purger[p].ids \subseteq Files
  BY <1>1 DEF Purger
<1>3. d \in Purger /\ d.ids \subseteq purger[p].ids
  <2>1. CASE phase = "idle"
    BY <2>1 DEF IdlePurger, Purger, Kinds
  <2>2. CASE phase # "idle"
    BY <2>2, <1>2 DEF Purger
  <2> QED BY <2>1, <2>2
<1>4. purger' = [purger EXCEPT ![p] = d]
  BY DEF Onward
<1> HIDE DEF d
<1> QED BY <1>3, <1>4 DEF LibTypes

LEMMA LibraryStep ==
  ASSUME LibInv, ScanTypes, NEW f \in Files,
         Upload(f) \/ Trash(f) \/ Restore(f) \/ Keep(f)
  PROVE  LibInv' /\ KeepsRows /\ UNCHANGED scanning
<1> USE DEF LibInv
<1>1. CASE Upload(f)
  <2>1. LibTypes'
    BY <1>1 DEF Upload, LibTypes
  <2>2. DeletionsExplained'
    BY <1>1 DEF Upload, DeletionsExplained, LibTypes, Purger
  <2>3. LossIsExplained'
    BY <1>1 DEF Upload, LossIsExplained, LibTypes
  <2> QED BY <1>1, <2>1, <2>2, <2>3 DEF Upload, KeepsRows, Exists, LibTypes
<1>2. CASE Trash(f)
  <2>1. LibTypes'
    BY <1>2 DEF Trash, LibTypes
  <2>2. DeletionsExplained'
    BY <1>2 DEF Trash, DeletionsExplained, LibTypes, Purger
  <2>3. LossIsExplained'
    BY <1>2 DEF Trash, LossIsExplained, LibTypes
  <2> QED BY <1>2, <2>1, <2>2, <2>3 DEF Trash, KeepsRows, Exists, LibTypes
<1>3. CASE Restore(f)
  <2>1. LibTypes'
    BY <1>3 DEF Restore, LibTypes
  <2>2. DeletionsExplained'
    <3> SUFFICES ASSUME NEW p \in Purgers, NEW g \in purger'[p].ids
                 PROVE  row'[g] \in {"trashed", "gone"} \/ g \in doomed' \cup raced'
      BY DEF DeletionsExplained
    <3>1. g \in purger[p].ids /\ g \in Files
      BY <1>3 DEF Restore, LibTypes, Purger
    <3>2. CASE g = f
      BY <3>1, <3>2, <1>3 DEF Restore, BeingPurged
    <3>3. CASE g # f
      BY <3>1, <3>3, <1>3 DEF Restore, LibTypes, DeletionsExplained
    <3> QED BY <3>2, <3>3
  <2>3. LossIsExplained'
    BY <1>3 DEF Restore, LossIsExplained, LibTypes
  <2> QED BY <1>3, <2>1, <2>2, <2>3 DEF Restore, KeepsRows, Exists, LibTypes
<1>4. CASE Keep(f)
  <2>1. LibTypes'
    BY <1>4 DEF Keep, LibTypes
  <2>2. DeletionsExplained'
    BY <1>4 DEF Keep, DeletionsExplained
  <2>3. LossIsExplained'
    BY <1>4 DEF Keep, LossIsExplained
  <2> QED BY <1>4, <2>1, <2>2, <2>3 DEF Keep, KeepsRows, Exists
<1> QED BY <1>1, <1>2, <1>3, <1>4

\* Whatever is picked is in the trash, or an operator ordered it.
LEMMA PicksExist ==
  ASSUME LibTypes, NEW kind \in Kinds, NEW ids \in Picks(kind), NEW f \in ids
  PROVE  /\ f \in Files
         /\ row[f] = "trashed" \/ (kind \in {"bulk", "delete"} /\ row[f] = "live")
<1>1. CASE kind = "file"
  BY <1>1 DEF Picks, Purgeable
<1>2. CASE kind = "trash"
  BY <1>2 DEF Picks
<1>3. CASE kind = "bulk"
  BY <1>3 DEF Picks, Exists
<1>4. CASE kind = "delete"
  BY <1>4 DEF Picks, Exists
<1>5. CASE kind = "retention"
  BY <1>5 DEF Picks
<1> QED BY <1>1, <1>2, <1>3, <1>4, <1>5 DEF Kinds

LEMMA PickStep ==
  ASSUME LibInv, NEW p \in Purgers, PickFiles(p)
  PROVE  LibInv' /\ KeepsRows /\ UNCHANGED scanning
<1> USE DEF LibInv
<1>0. PICK kind \in Kinds : \E ids \in Picks(kind) \ {{}} :
        /\ purger' = [purger EXCEPT ![p] =
             [phase |-> IF kind = "retention" THEN "rows" ELSE "objects",
              kind |-> kind, ids |-> ids]]
        /\ doomed' = IF kind \in {"bulk", "delete"}
                       THEN doomed \cup {f \in ids : row[f] = "live"} ELSE doomed
  BY DEF PickFiles
<1>1. PICK ids \in Picks(kind) \ {{}} :
        /\ purger' = [purger EXCEPT ![p] =
             [phase |-> IF kind = "retention" THEN "rows" ELSE "objects",
              kind |-> kind, ids |-> ids]]
        /\ doomed' = IF kind \in {"bulk", "delete"}
                       THEN doomed \cup {f \in ids : row[f] = "live"} ELSE doomed
  BY <1>0
<1>2. UNCHANGED <<row, bytes, kept, raced>> /\ UNCHANGED scanning
  BY DEF PickFiles
<1>3. \A f \in ids : f \in Files /\ (row[f] = "trashed"
                     \/ (kind \in {"bulk", "delete"} /\ row[f] = "live"))
  BY PicksExist
<1> DEFINE d == [phase |-> IF kind = "retention" THEN "rows" ELSE "objects",
                 kind |-> kind, ids |-> ids]
<1>4. d \in Purger /\ d.ids = ids
  BY <1>3 DEF Purger
<1>5. purger' = [purger EXCEPT ![p] = d]
  BY <1>1
<1> HIDE DEF d
<1>6. LibTypes'
  BY <1>2, <1>4, <1>5 DEF LibTypes
<1>7. doomed \subseteq doomed' /\ \A f \in ids : row[f] = "trashed" \/ f \in doomed'
  BY <1>1, <1>3
<1>8. DeletionsExplained'
  <2> SUFFICES ASSUME NEW q \in Purgers, NEW g \in purger'[q].ids
               PROVE  row'[g] \in {"trashed", "gone"} \/ g \in doomed' \cup raced'
    BY DEF DeletionsExplained
  <2>1. CASE q = p
    BY <2>1, <1>2, <1>4, <1>5, <1>7 DEF LibTypes
  <2>2. CASE q # p
    BY <2>2, <1>2, <1>5, <1>7 DEF LibTypes, DeletionsExplained
  <2> QED BY <2>1, <2>2
<1>9. LossIsExplained'
  BY <1>2, <1>7 DEF LossIsExplained
<1> QED BY <1>2, <1>6, <1>8, <1>9 DEF KeepsRows, Exists

LEMMA RemoveStep ==
  ASSUME LibInv, NEW p \in Purgers, RemoveObjects(p) \/ PurgeStops(p)
  PROVE  LibInv' /\ KeepsRows /\ UNCHANGED scanning
<1> USE DEF LibInv
<1>1. /\ UNCHANGED <<row, kept, doomed, raced>> /\ UNCHANGED scanning
      /\ \E phase \in {"idle", "objects", "rows"} : Onward(p, phase)
      /\ \E done \in SUBSET purger[p].ids : bytes' = bytes \ done
  <2>1. CASE RemoveObjects(p)
    BY <2>1 DEF RemoveObjects
  <2>2. CASE PurgeStops(p)
    <3>1. bytes' = bytes \ {}
      BY <2>2 DEF PurgeStops
    <3> QED BY <2>2, <3>1 DEF PurgeStops
  <2> QED BY <2>1, <2>2
<1>2. /\ purger' \in [Purgers -> Purger]
      /\ \A q \in Purgers : purger'[q].ids \subseteq purger[q].ids
  BY <1>1, OnwardKeeps
<1>3. LibTypes'
  BY <1>1, <1>2 DEF LibTypes
<1>4. DeletionsExplained'
  BY <1>1, <1>2 DEF DeletionsExplained
<1>5. LossIsExplained'
  <2> SUFFICES ASSUME NEW f \in Files, row'[f] = "live", f \notin doomed' \cup raced'
               PROVE  f \in bytes'
    BY DEF LossIsExplained
  <2>1. f \in bytes
    BY <1>1 DEF LossIsExplained
  <2>2. f \notin purger[p].ids
    BY <1>1 DEF DeletionsExplained
  <2> QED BY <1>1, <2>1, <2>2
<1> QED BY <1>1, <1>3, <1>4, <1>5 DEF KeepsRows, Exists

\* What a library step leaves alone is all that scanning relies on.
LEMMA ScanKept ==
  ASSUME ScanInv, KeepsRows, UNCHANGED scanning
  PROVE  ScanInv'
<1> USE DEF ScanInv, scanning
<1>1. ScanTypes'
  BY DEF ScanTypes
<1>2. LocksOK'
  BY DEF LocksOK, KeepsRows, Exists
<1>3. ReleasesOK'
  BY DEF ReleasesOK
<1>4. ClaimsOK'
  BY DEF ClaimsOK
<1>5. QuarantinesOK'
  BY DEF QuarantinesOK, KeepsRows, Exists
<1> QED BY <1>1, <1>2, <1>3, <1>4, <1>5

LEMMA DeleteStep ==
  ASSUME LibInv, ScanInv, NEW p \in Purgers, DeleteRows(p)
  PROVE  LibInv' /\ ScanInv'
<1> USE DEF LibInv, ScanInv
<1>1. /\ row' = [f \in Files |-> IF f \in Deleted(p) THEN "gone" ELSE row[f]]
      /\ open' = [f \in Files |-> IF f \in Deleted(p) THEN 0 ELSE open[f]]
      /\ UNCHANGED <<bytes, kept, doomed, raced, scan, sweeper, releaser, overlapped>>
      /\ \A f \in Deleted(p) : Free(f) /\ ~BeingReleased(f)
  BY DEF DeleteRows
<1>2. /\ purger' \in [Purgers -> Purger]
      /\ \A q \in Purgers : purger'[q].ids \subseteq purger[q].ids
  BY OnwardKeeps DEF DeleteRows
<1> HIDE DEF LibInv, ScanInv
<1>3. LibTypes'
  BY <1>1, <1>2 DEF LibTypes, LibInv
<1>4. DeletionsExplained'
  <2> SUFFICES ASSUME NEW q \in Purgers, NEW g \in purger'[q].ids
               PROVE  row'[g] \in {"trashed", "gone"} \/ g \in doomed' \cup raced'
    BY DEF DeletionsExplained
  <2>1. g \in purger[q].ids /\ g \in Files
    BY <1>2 DEF Purger
  <2> QED BY <2>1, <1>1 DEF LibInv, DeletionsExplained
<1>5. LossIsExplained'
  BY <1>1 DEF LibInv, LossIsExplained
<1>6. ScanTypes'
  BY <1>1 DEF ScanInv, ScanTypes
<1>7. LocksOK'
  <2>1. ASSUME NEW s \in Sweepers, sweeper[s].phase \in {"locked", "added"}
        PROVE  /\ sweeper[s].at \in Files /\ row'[sweeper[s].at] = row[sweeper[s].at]
               /\ open'[sweeper[s].at] = open[sweeper[s].at]
    <3>1. sweeper[s].at \in Files
      BY <2>1 DEF ScanInv, LocksOK
    <3>2. sweeper[s].at \notin Deleted(p)
      BY <2>1, <1>1 DEF Free
    <3> QED BY <3>1, <3>2, <1>1
  <2> QED BY <2>1, <1>1 DEF ScanInv, LocksOK, Exists
<1>8. ReleasesOK'
  <2>1. ASSUME NEW r \in Releasers, releaser[r] # NoFile
        PROVE  releaser[r] \in Files /\ open'[releaser[r]] = 1
    <3>1. releaser[r] \notin Deleted(p)
      BY <2>1, <1>1 DEF BeingReleased
    <3> QED BY <2>1, <3>1, <1>1 DEF ScanInv, ReleasesOK
  <2> QED BY <2>1, <1>1 DEF ScanInv, ReleasesOK
<1>9. ClaimsOK'
  BY <1>1 DEF ScanInv, ClaimsOK
<1>10. QuarantinesOK'
  BY <1>1 DEF ScanInv, QuarantinesOK, Exists
<1> QED BY <1>3, <1>4, <1>5, <1>6, <1>7, <1>8, <1>9, <1>10 DEF LibInv, ScanInv

LEMMA LibKept ==
  ASSUME LibInv, UNCHANGED library
  PROVE  LibInv'
BY DEF LibInv, LibTypes, DeletionsExplained, LossIsExplained, library

-----------------------------------------------------------------------------
(* Scanning *)

LEMMA BecomesOK ==
  ASSUME ScanTypes, NEW s \in Sweepers,
         NEW phase \in {"idle", "claimed", "locked", "added"}, NEW left \in SUBSET Files,
         NEW at \in Files \cup {NoFile}, NEW verdict \in Verdicts, NEW adds \in BOOLEAN,
         Becomes(s, phase, left, at, verdict, adds)
  PROVE  /\ sweeper' \in [Sweepers -> Sweeper]
         /\ \A t \in Sweepers : t # s => sweeper'[t] = sweeper[t]
         /\ sweeper'[s].phase = phase /\ sweeper'[s].left = left /\ sweeper'[s].at = at
         /\ sweeper'[s].verdict = verdict /\ sweeper'[s].adds = adds
<1> DEFINE d == [phase |-> phase, left |-> left, at |-> at, verdict |-> verdict, adds |-> adds]
<1>1. /\ d \in Sweeper
      /\ d.phase = phase /\ d.left = left /\ d.at = at /\ d.verdict = verdict /\ d.adds = adds
  BY DEF Sweeper
<1>2. sweeper' = [sweeper EXCEPT ![s] = d]
  BY DEF Becomes
<1> HIDE DEF d
<1> QED BY <1>1, <1>2 DEF ScanTypes

\* A sweep that lets go of files and locks leaves the rest as it was.
LEMMA LettingGo ==
  ASSUME ScanInv, NEW s \in Sweepers, UNCHANGED <<scan, open, releaser, overlapped, row>>,
         sweeper' \in [Sweepers -> Sweeper],
         \A t \in Sweepers : t # s => sweeper'[t] = sweeper[t],
         sweeper'[s].phase \in {"idle", "claimed"},
         sweeper'[s].left \subseteq sweeper[s].left
  PROVE  ScanInv'
<1>1. ScanTypes'
  BY DEF ScanInv, ScanTypes
<1>2. LocksOK'
  BY DEF ScanInv, LocksOK, Exists
<1>3. ReleasesOK'
  BY DEF ScanInv, ReleasesOK
<1>4. ClaimsOK'
  BY DEF ScanInv, ClaimsOK
<1>5. QuarantinesOK'
  BY DEF ScanInv, QuarantinesOK, Exists
<1> QED BY <1>1, <1>2, <1>3, <1>4, <1>5 DEF ScanInv

LEMMA ClaimStep ==
  ASSUME ScanInv, NEW s \in Sweepers, ClaimPending(s)
  PROVE  ScanInv'
<1> DEFINE new == {f \in Files : Claimable(f)}
<1>1. /\ Becomes(s, "claimed", new, NoFile, "clean", FALSE)
      /\ overlapped' = overlapped \cup (new \cap Claimed(s))
      /\ UNCHANGED <<scan, open, releaser, row>>
  BY DEF ClaimPending, library
<1>2. /\ sweeper' \in [Sweepers -> Sweeper]
      /\ \A t \in Sweepers : t # s => sweeper'[t] = sweeper[t]
      /\ sweeper'[s].phase = "claimed" /\ sweeper'[s].left = new
  BY <1>1, BecomesOK DEF ScanInv, Verdicts
<1>3. \A f \in new : scan[f] = "pending"
  BY DEF Claimable
<1>4. \A t \in Sweepers : \A f \in new : t # s /\ f \in sweeper[t].left => f \in overlapped'
  BY <1>1 DEF Claimed
<1>5. overlapped \subseteq overlapped'
  BY <1>1
<1> HIDE DEF new
<1>6. ScanTypes'
  BY <1>1, <1>2 DEF ScanInv, ScanTypes
<1>7. LocksOK'
  BY <1>1, <1>2 DEF ScanInv, LocksOK, Exists
<1>8. ReleasesOK'
  BY <1>1 DEF ScanInv, ReleasesOK
<1>9. ClaimsOK'
  <2>1. \A t \in Sweepers : \A f \in sweeper'[t].left : f \notin overlapped' => scan'[f] = "pending"
    BY <1>1, <1>2, <1>3, <1>5 DEF ScanInv, ClaimsOK
  <2>2. \A t, u \in Sweepers : \A f \in sweeper'[t].left \cap sweeper'[u].left :
          f \notin overlapped' => t = u
    BY <1>2, <1>4, <1>5 DEF ScanInv, ClaimsOK
  <2> QED BY <2>1, <2>2 DEF ClaimsOK
<1>10. QuarantinesOK'
  BY <1>1, <1>5 DEF ScanInv, QuarantinesOK, Exists
<1> QED BY <1>6, <1>7, <1>8, <1>9, <1>10 DEF ScanInv

LEMMA LockStep ==
  ASSUME ScanInv, NEW s \in Sweepers, LockRow(s)
  PROVE  ScanInv'
<1>1. PICK f \in sweeper[s].left, v \in Verdicts :
        /\ Exists(f) /\ Free(f)
        /\ Becomes(s, "locked", sweeper[s].left, f, v, FALSE)
  BY DEF LockRow
<1>2. UNCHANGED <<scan, open, releaser, overlapped, row>>
  BY DEF LockRow, library
<1>3. sweeper[s].left \in SUBSET Files
  BY DEF ScanInv, ScanTypes, Sweeper
<1>4. /\ sweeper' \in [Sweepers -> Sweeper]
      /\ \A t \in Sweepers : t # s => sweeper'[t] = sweeper[t]
      /\ sweeper'[s].phase = "locked" /\ sweeper'[s].left = sweeper[s].left
      /\ sweeper'[s].at = f /\ sweeper'[s].adds = FALSE
  BY <1>1, <1>3, BecomesOK DEF ScanInv
<1>5. f \in Files
  BY <1>3
<1>6. ScanTypes'
  BY <1>2, <1>4 DEF ScanInv, ScanTypes
<1>7. LocksOK'
  <2>1. \A t \in Sweepers : t # s /\ sweeper[t].phase \in {"locked", "added"} => sweeper[t].at # f
    BY <1>1 DEF Free
  <2>2. ASSUME NEW t \in Sweepers, sweeper'[t].phase \in {"locked", "added"}
        PROVE  /\ sweeper'[t].at \in Files /\ row'[sweeper'[t].at] \in {"live", "trashed"}
               /\ sweeper'[t].at \in sweeper'[t].left
               /\ sweeper'[t].adds => sweeper'[t].verdict = "flagged" /\ open'[sweeper'[t].at] = 0
    <3>1. CASE t = s
      BY <3>1, <1>1, <1>2, <1>4, <1>5 DEF Exists
    <3>2. CASE t # s
      BY <3>2, <2>2, <1>2, <1>4 DEF ScanInv, LocksOK, Exists
    <3> QED BY <3>1, <3>2
  <2>3. ASSUME NEW t \in Sweepers, NEW u \in Sweepers,
               sweeper'[t].phase \in {"locked", "added"}, sweeper'[u].phase \in {"locked", "added"},
               sweeper'[t].at = sweeper'[u].at
        PROVE  t = u
    BY <2>1, <2>3, <1>4 DEF ScanInv, LocksOK
  <2> QED BY <2>2, <2>3 DEF LocksOK, Exists
<1>8. ReleasesOK'
  BY <1>2 DEF ScanInv, ReleasesOK
<1>9. ClaimsOK'
  BY <1>2, <1>4 DEF ScanInv, ClaimsOK
<1>10. QuarantinesOK'
  BY <1>2 DEF ScanInv, QuarantinesOK, Exists
<1> QED BY <1>6, <1>7, <1>8, <1>9, <1>10 DEF ScanInv

LEMMA AddStep ==
  ASSUME ScanInv, NEW s \in Sweepers, AddQuarantine(s)
  PROVE  ScanInv'
<1>1. /\ sweeper[s].phase = "locked"
      /\ Becomes(s, "added", sweeper[s].left, sweeper[s].at, sweeper[s].verdict, Adds(s))
      /\ UNCHANGED <<scan, open, releaser, overlapped, row>>
  BY DEF AddQuarantine, library
<1>2. sweeper[s].left \in SUBSET Files /\ sweeper[s].at \in Files \cup {NoFile}
      /\ sweeper[s].verdict \in Verdicts
  BY DEF ScanInv, ScanTypes, Sweeper
<1> DEFINE a == Adds(s)
           d == [phase |-> "added", left |-> sweeper[s].left, at |-> sweeper[s].at,
                 verdict |-> sweeper[s].verdict, adds |-> a]
<1>3. a \in BOOLEAN /\ (a => sweeper[s].verdict = "flagged" /\ open[sweeper[s].at] = 0)
  BY DEF Adds
<1>4. /\ sweeper' \in [Sweepers -> Sweeper]
      /\ \A t \in Sweepers : t # s => sweeper'[t] = sweeper[t]
      /\ sweeper'[s].phase = "added" /\ sweeper'[s].left = sweeper[s].left
      /\ sweeper'[s].at = sweeper[s].at /\ sweeper'[s].verdict = sweeper[s].verdict
      /\ sweeper'[s].adds = a
  <2>1. sweeper' = [sweeper EXCEPT ![s] = d]
    BY <1>1 DEF Becomes
  <2> HIDE DEF a
  <2>2. /\ d \in Sweeper
        /\ d.phase = "added" /\ d.left = sweeper[s].left /\ d.at = sweeper[s].at
        /\ d.verdict = sweeper[s].verdict /\ d.adds = a
    BY <1>2, <1>3 DEF Sweeper
  <2> HIDE DEF d
  <2> QED BY <2>1, <2>2 DEF ScanInv, ScanTypes
<1> HIDE DEF a
<1>5. sweeper'[s].adds => sweeper[s].verdict = "flagged" /\ open[sweeper[s].at] = 0
  BY <1>3, <1>4
<1>6. ScanTypes'
  BY <1>1, <1>4 DEF ScanInv, ScanTypes
<1>7. LocksOK'
  <2>1. ASSUME NEW t \in Sweepers, sweeper'[t].phase \in {"locked", "added"}
        PROVE  /\ sweeper'[t].at \in Files /\ row'[sweeper'[t].at] \in {"live", "trashed"}
               /\ sweeper'[t].at \in sweeper'[t].left
               /\ sweeper'[t].adds => sweeper'[t].verdict = "flagged" /\ open'[sweeper'[t].at] = 0
    <3>1. CASE t = s
      <4>1. sweeper[s].at \in Files /\ Exists(sweeper[s].at) /\ sweeper[s].at \in sweeper[s].left
        BY <1>1 DEF ScanInv, LocksOK
      <4> QED BY <3>1, <4>1, <1>1, <1>4, <1>5 DEF Exists
    <3>2. CASE t # s
      BY <3>2, <2>1, <1>1, <1>4 DEF ScanInv, LocksOK, Exists
    <3> QED BY <3>1, <3>2
  <2>2. ASSUME NEW t \in Sweepers, NEW u \in Sweepers,
               sweeper'[t].phase \in {"locked", "added"}, sweeper'[u].phase \in {"locked", "added"},
               sweeper'[t].at = sweeper'[u].at
        PROVE  t = u
    BY <2>2, <1>1, <1>4 DEF ScanInv, LocksOK
  <2> QED BY <2>1, <2>2 DEF LocksOK, Exists
<1>8. ReleasesOK'
  BY <1>1 DEF ScanInv, ReleasesOK
<1>9. ClaimsOK'
  BY <1>1, <1>4 DEF ScanInv, ClaimsOK
<1>10. QuarantinesOK'
  BY <1>1 DEF ScanInv, QuarantinesOK, Exists
<1> QED BY <1>6, <1>7, <1>8, <1>9, <1>10 DEF ScanInv

LEMMA CommitStep ==
  ASSUME ScanInv, NEW s \in Sweepers, CommitVerdict(s)
  PROVE  ScanInv'
<1> DEFINE f == sweeper[s].at
<1>1. /\ sweeper[s].phase = "added"
      /\ scan' = [scan EXCEPT ![f] = sweeper[s].verdict]
      /\ open' = [open EXCEPT ![f] = IF sweeper[s].adds THEN open[f] + 1 ELSE open[f]]
      /\ Becomes(s, "claimed", sweeper[s].left \ {f}, NoFile, "clean", FALSE)
      /\ UNCHANGED <<releaser, overlapped, row>>
  BY DEF CommitVerdict, library
<1>2. /\ sweeper[s].left \in SUBSET Files /\ sweeper[s].verdict \in Verdicts
      /\ sweeper[s].adds \in BOOLEAN
  BY DEF ScanInv, ScanTypes, Sweeper
<1>3. /\ f \in Files /\ Exists(f) /\ f \in sweeper[s].left
      /\ sweeper[s].adds => sweeper[s].verdict = "flagged" /\ open[f] = 0
      /\ \A t \in Sweepers : t # s /\ sweeper[t].phase \in {"locked", "added"} => sweeper[t].at # f
  BY <1>1 DEF ScanInv, LocksOK
<1>4. /\ sweeper' \in [Sweepers -> Sweeper]
      /\ \A t \in Sweepers : t # s => sweeper'[t] = sweeper[t]
      /\ sweeper'[s].phase = "claimed" /\ sweeper'[s].left = sweeper[s].left \ {f}
  <2>1. sweeper[s].left \ {f} \in SUBSET Files
    BY <1>2
  <2> QED BY <1>1, <2>1, BecomesOK DEF ScanInv, Verdicts
<1> HIDE DEF f
<1>5. open[f] \in 0 .. 1
  BY <1>3 DEF ScanInv, ScanTypes
<1>6. /\ open'[f] \in 0 .. 1 /\ open'[f] >= open[f]
      /\ open'[f] > open[f] => open[f] = 0 /\ sweeper[s].verdict = "flagged"
      /\ scan'[f] = sweeper[s].verdict /\ scan'[f] # "pending"
  BY <1>1, <1>2, <1>3, <1>5 DEF ScanInv, ScanTypes, Verdicts
<1>7. \A g \in Files : g # f => scan'[g] = scan[g] /\ open'[g] = open[g]
  BY <1>1 DEF ScanInv, ScanTypes
<1>8. ScanTypes'
  <2>1. open' \in [Files -> 0 .. 1]
    BY <1>1, <1>3, <1>6, <1>7 DEF ScanInv, ScanTypes
  <2>2. scan' \in [Files -> {"pending"} \cup Verdicts]
    BY <1>1, <1>2, <1>3 DEF ScanInv, ScanTypes
  <2> QED BY <1>1, <1>4, <2>1, <2>2 DEF ScanInv, ScanTypes
<1>9. LocksOK'
  <2>1. ASSUME NEW t \in Sweepers, sweeper'[t].phase \in {"locked", "added"}
        PROVE  t # s /\ sweeper'[t] = sweeper[t] /\ sweeper[t].at # f
    BY <2>1, <1>3, <1>4
  <2> QED BY <2>1, <1>1, <1>7 DEF ScanInv, LocksOK, Exists
<1>10. ReleasesOK'
  <2>1. ASSUME NEW r \in Releasers, releaser[r] # NoFile
        PROVE  releaser[r] \in Files /\ open'[releaser[r]] = 1
    <3>1. releaser[r] \in Files /\ open[releaser[r]] = 1
      BY <2>1 DEF ScanInv, ReleasesOK
    <3> QED BY <3>1, <1>6, <1>7
  <2> QED BY <2>1, <1>1 DEF ScanInv, ReleasesOK
<1>11. ClaimsOK'
  <2>1. ASSUME NEW t \in Sweepers, NEW g \in sweeper'[t].left, g \notin overlapped'
        PROVE  scan'[g] = "pending"
    <3>1. g \in sweeper[t].left /\ g \notin overlapped /\ g \in Files
      BY <2>1, <1>1, <1>4 DEF Sweeper
    <3>2. g # f
      <4>1. CASE t = s
        BY <4>1, <1>4
      <4>2. CASE t # s
        BY <4>2, <3>1, <1>3 DEF ScanInv, ClaimsOK
      <4> QED BY <4>1, <4>2
    <3> QED BY <3>1, <3>2, <1>7 DEF ScanInv, ClaimsOK
  <2>2. \A t, u \in Sweepers : \A g \in sweeper'[t].left \cap sweeper'[u].left :
          g \notin overlapped' => t = u
    BY <1>1, <1>4 DEF ScanInv, ClaimsOK
  <2> QED BY <2>1, <2>2 DEF ClaimsOK
<1>12. QuarantinesOK'
  <2>1. ASSUME f \notin overlapped
        PROVE  scan[f] = "pending" /\ open[f] = 0
    BY <2>1, <1>3 DEF ScanInv, ClaimsOK, QuarantinesOK
  <2>2. open'[f] > 0 /\ f \notin overlapped => scan'[f] # "clean"
    BY <2>1, <1>5, <1>6
  <2>3. row'[f] \in {"live", "trashed"}
    BY <1>1, <1>3 DEF Exists
  <2> QED BY <2>2, <2>3, <1>1, <1>6, <1>7 DEF ScanInv, QuarantinesOK, Exists
<1> QED BY <1>8, <1>9, <1>10, <1>11, <1>12 DEF ScanInv

LEMMA EndStep ==
  ASSUME ScanInv, NEW s \in Sweepers, SkipFile(s) \/ SweepEnds(s)
  PROVE  ScanInv'
<1>1. CASE SkipFile(s)
  <2>1. PICK f \in sweeper[s].left : Becomes(s, "claimed", sweeper[s].left \ {f}, NoFile, "clean", FALSE)
    BY <1>1 DEF SkipFile
  <2>2. sweeper[s].left \ {f} \in SUBSET Files
    BY DEF ScanInv, ScanTypes, Sweeper
  <2>3. /\ sweeper' \in [Sweepers -> Sweeper]
        /\ \A t \in Sweepers : t # s => sweeper'[t] = sweeper[t]
        /\ sweeper'[s].phase = "claimed" /\ sweeper'[s].left = sweeper[s].left \ {f}
    BY <2>1, <2>2, BecomesOK DEF ScanInv, Verdicts
  <2>4. UNCHANGED <<scan, open, releaser, overlapped, row>>
    BY <1>1 DEF SkipFile, library
  <2> QED BY <2>3, <2>4, LettingGo
<1>2. CASE SweepEnds(s)
  <2>1. IdleSweeper \in Sweeper /\ IdleSweeper.phase = "idle" /\ IdleSweeper.left = {}
    BY DEF IdleSweeper, Sweeper, Verdicts
  <2>2. /\ sweeper' \in [Sweepers -> Sweeper]
        /\ \A t \in Sweepers : t # s => sweeper'[t] = sweeper[t]
        /\ sweeper'[s].phase = "idle" /\ sweeper'[s].left \subseteq sweeper[s].left
    BY <1>2, <2>1 DEF SweepEnds, ScanInv, ScanTypes
  <2>3. UNCHANGED <<scan, open, releaser, overlapped, row>>
    BY <1>2 DEF SweepEnds, library
  <2> QED BY <2>2, <2>3, LettingGo
<1> QED BY <1>1, <1>2

LEMMA ReleaseStep ==
  ASSUME ScanInv, NEW r \in Releasers,
         (\E f \in Files : BeginRelease(r, f)) \/ CommitRelease(r) \/ ReleaseFails(r)
  PROVE  ScanInv'
<1>1. CASE \E f \in Files : BeginRelease(r, f)
  <2>1. PICK f \in Files : BeginRelease(r, f)
    BY <1>1
  <2>2. /\ releaser' = [releaser EXCEPT ![r] = f] /\ open[f] = 1
        /\ \A q \in Releasers : releaser[q] # f
        /\ UNCHANGED <<scan, open, sweeper, overlapped, row>>
    BY <2>1 DEF BeginRelease, BeingReleased, library, ScanInv, ScanTypes
  <2>3. ScanTypes'
    BY <2>2 DEF ScanInv, ScanTypes
  <2>4. ReleasesOK'
    BY <2>2 DEF ScanInv, ScanTypes, ReleasesOK
  <2>5. LocksOK' /\ ClaimsOK' /\ QuarantinesOK'
    BY <2>2 DEF ScanInv, LocksOK, ClaimsOK, QuarantinesOK, Exists
  <2> QED BY <2>3, <2>4, <2>5 DEF ScanInv
<1>2. CASE CommitRelease(r)
  <2> DEFINE f == releaser[r]
  <2>1. /\ f # NoFile /\ Free(f)
        /\ open' = [open EXCEPT ![f] = open[f] - 1]
        /\ scan' = [scan EXCEPT ![f] = IF scan[f] = "flagged" THEN "skipped" ELSE scan[f]]
        /\ releaser' = [releaser EXCEPT ![r] = NoFile]
        /\ UNCHANGED <<sweeper, overlapped, row>>
    BY <1>2 DEF CommitRelease, library
  <2>2. /\ f \in Files /\ open[f] = 1
        /\ \A q \in Releasers : q # r => releaser[q] # f
    BY <2>1 DEF ScanInv, ReleasesOK
  <2> HIDE DEF f
  <2>3. /\ open'[f] = 0
        /\ scan'[f] # "pending"
        /\ \A g \in Files : g # f => scan'[g] = scan[g] /\ open'[g] = open[g]
    BY <2>1, <2>2 DEF ScanInv, ScanTypes, QuarantinesOK
  <2>4. ScanTypes'
    <3>1. open' \in [Files -> 0 .. 1]
      BY <2>1, <2>2 DEF ScanInv, ScanTypes
    <3>2. scan' \in [Files -> {"pending"} \cup Verdicts]
      BY <2>1, <2>2 DEF ScanInv, ScanTypes, Verdicts
    <3> QED BY <2>1, <3>1, <3>2 DEF ScanInv, ScanTypes
  <2>5. LocksOK'
    <3>1. \A s \in Sweepers : sweeper[s].phase \in {"locked", "added"} => sweeper[s].at # f
      BY <2>1 DEF Free
    <3> QED BY <3>1, <2>1, <2>3 DEF ScanInv, LocksOK, Exists
  <2>6. ReleasesOK'
    BY <2>1, <2>2, <2>3 DEF ScanInv, ScanTypes, ReleasesOK
  <2>7. ClaimsOK'
    <3>1. ASSUME NEW s \in Sweepers, NEW g \in sweeper[s].left, g \notin overlapped
          PROVE  scan'[g] = "pending"
      <4>1. scan[g] = "pending" /\ g \in Files
        BY <3>1 DEF ScanInv, ScanTypes, ClaimsOK, Sweeper
      <4>2. g # f
        BY <4>1, <2>2 DEF ScanInv, QuarantinesOK
      <4> QED BY <4>1, <4>2, <2>3
    <3> QED BY <3>1, <2>1 DEF ScanInv, ClaimsOK
  <2>8. QuarantinesOK'
    BY <2>1, <2>2, <2>3 DEF ScanInv, QuarantinesOK, Exists
  <2> QED BY <2>4, <2>5, <2>6, <2>7, <2>8 DEF ScanInv
<1>3. CASE ReleaseFails(r)
  <2>1. /\ releaser' = [releaser EXCEPT ![r] = NoFile]
        /\ UNCHANGED <<scan, open, sweeper, overlapped, row>>
    BY <1>3 DEF ReleaseFails, library
  <2>2. ScanTypes'
    BY <2>1 DEF ScanInv, ScanTypes
  <2>3. ReleasesOK'
    BY <2>1 DEF ScanInv, ScanTypes, ReleasesOK
  <2>4. LocksOK' /\ ClaimsOK' /\ QuarantinesOK'
    BY <2>1 DEF ScanInv, LocksOK, ClaimsOK, QuarantinesOK, Exists
  <2> QED BY <2>2, <2>3, <2>4 DEF ScanInv
<1> QED BY <1>1, <1>2, <1>3

-----------------------------------------------------------------------------
(* The invariant and what follows from it *)

LEMMA InitInv ==
  ASSUME Init
  PROVE  LibInv /\ ScanInv
<1>1. IdlePurger \in Purger /\ IdlePurger.ids = {}
  BY DEF IdlePurger, Purger, Kinds
<1>2. /\ IdleSweeper \in Sweeper /\ IdleSweeper.phase = "idle" /\ IdleSweeper.left = {}
  BY DEF IdleSweeper, Sweeper, Verdicts
<1>3. LibTypes
  BY <1>1 DEF Init, LibTypes
<1>4. DeletionsExplained /\ LossIsExplained
  BY <1>1 DEF Init, DeletionsExplained, LossIsExplained
<1>5. ScanTypes
  BY <1>2 DEF Init, ScanTypes
<1>6. LocksOK /\ ReleasesOK /\ ClaimsOK /\ QuarantinesOK
  BY <1>2 DEF Init, LocksOK, ReleasesOK, ClaimsOK, QuarantinesOK
<1> QED BY <1>3, <1>4, <1>5, <1>6 DEF LibInv, ScanInv

LEMMA NextInv ==
  ASSUME LibInv, ScanInv, [Next]_vars
  PROVE  LibInv' /\ ScanInv'
<1>1. ASSUME NEW f \in Files, Upload(f) \/ Trash(f) \/ Restore(f) \/ Keep(f)
      PROVE  LibInv' /\ ScanInv'
  BY <1>1, LibraryStep, ScanKept DEF ScanInv
<1>2. ASSUME NEW p \in Purgers, PickFiles(p) \/ RemoveObjects(p) \/ DeleteRows(p) \/ PurgeStops(p)
      PROVE  LibInv' /\ ScanInv'
  BY <1>2, PickStep, RemoveStep, DeleteStep, ScanKept
<1>3. ASSUME NEW s \in Sweepers,
             \/ ClaimPending(s) \/ LockRow(s) \/ SkipFile(s)
             \/ AddQuarantine(s) \/ CommitVerdict(s) \/ SweepEnds(s)
      PROVE  LibInv' /\ ScanInv'
  <2>1. UNCHANGED library
    BY <1>3 DEF ClaimPending, LockRow, SkipFile, AddQuarantine, CommitVerdict, SweepEnds
  <2>2. ScanInv'
    BY <1>3, ClaimStep, LockStep, AddStep, CommitStep, EndStep
  <2> QED BY <2>1, <2>2, LibKept
<1>4. ASSUME NEW r \in Releasers,
             (\E f \in Files : BeginRelease(r, f)) \/ CommitRelease(r) \/ ReleaseFails(r)
      PROVE  LibInv' /\ ScanInv'
  <2>1. UNCHANGED library
    BY <1>4 DEF BeginRelease, CommitRelease, ReleaseFails
  <2> QED BY <1>4, <2>1, LibKept, ReleaseStep
<1>5. CASE UNCHANGED vars
  <2>1. UNCHANGED library /\ UNCHANGED scanning /\ KeepsRows
    BY <1>5 DEF vars, library, scanning, KeepsRows, Exists
  <2> QED BY <2>1, LibKept, ScanKept
<1> QED BY <1>1, <1>2, <1>3, <1>4, <1>5 DEF Next

LEMMA InvHolds == Spec => [](LibInv /\ ScanInv)
<1>1. Init => LibInv /\ ScanInv
  BY InitInv
<1>2. LibInv /\ ScanInv /\ [Next]_vars => (LibInv /\ ScanInv)'
  BY NextInv
<1> QED BY <1>1, <1>2, PTL DEF Spec

\* Rows, verdicts and the local state of sweeps, releases and deletions stay in
\* their types, and no file has two open quarantines or one without a row: the row
\* lock of apply_verdict does what no index of media_quarantines does.
THEOREM TypeCorrect == Spec => []TypeOK
<1>1. LibInv /\ ScanInv => TypeOK
  BY DEF LibInv, LibTypes, ScanInv, ScanTypes, QuarantinesOK, TypeOK
<1> QED BY <1>1, InvHolds, PTL

\* ensure_scan_allows withholds every file with an open quarantine that two sweeps
\* had not claimed at the same time, for any number of sweeps, releases and files.
THEOREM QuarantineWithholds == Spec => []WithheldUnlessOverlapped
<1>1. LibInv /\ ScanInv => WithheldUnlessOverlapped
  BY DEF ScanInv, ScanTypes, QuarantinesOK, WithheldUnlessOverlapped, MayServe
<1> QED BY <1>1, InvHolds, PTL

\* A file of the library without its bytes was deleted without the trash or restored
\* after its deletion began: no other interleaving of the deletions loses one.
THEOREM LossHasACause == Spec => []LossIsExplained
<1>1. LibInv /\ ScanInv => LossIsExplained
  BY DEF LibInv
<1> QED BY <1>1, InvHolds, PTL
=============================================================================
