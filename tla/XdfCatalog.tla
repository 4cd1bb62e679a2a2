----------------------------- MODULE XdfCatalog -----------------------------
(***************************************************************************)
(* What a random XDF file promises to the application: a catalogue of      *)
(* records, each under a handle, that an open file shows and that closing  *)
(* the file saves.  Nothing is said of directory pages, addresses, headers *)
(* or positions: XdfRandom, the model of the code, implements this one.    *)
(***************************************************************************)
CONSTANTS
  Handle,   \* what names a record
  Keys,     \* its primary keys
  Lens,     \* its length
  Values    \* its data

VARIABLES
  st,       \* "closed", "open" or "refused"
  cat,      \* the records that the open file shows
  saved     \* the records that opening the file would show

vars == <<st, cat, saved>>

Record == [key : Keys, lng : Lens, data : Values]
None   == [key |-> "none", lng |-> 0, data |-> "none"]
Empty  == [h \in Handle |-> None]

TypeOK ==
  /\ st \in {"closed", "open", "refused"}
  /\ cat \in [Handle -> Record \cup {None}]
  /\ saved \in [Handle -> Record \cup {None}]

Init ==
  /\ st = "closed"
  /\ cat = Empty
  /\ saved = Empty

Create ==
  /\ st = "closed" /\ saved = Empty
  /\ st' = "open"
  /\ UNCHANGED <<cat, saved>>

Open ==
  /\ st = "closed"
  /\ st' = "open"
  /\ cat' = saved
  /\ UNCHANGED saved

Refuse ==
  /\ st = "closed"
  /\ st' = "refused"
  /\ UNCHANGED <<cat, saved>>

\* Only the records of H change in the open file.
Only(H) == \A h \in Handle \ H : cat'[h] = cat[h]

\* A new record gets a handle that no record of the file has.
Append(h) ==
  /\ st = "open" /\ st' = "open"
  /\ cat[h] = None
  /\ cat'[h] \in Record
  /\ Only({h})
  /\ UNCHANGED saved

\* The data of a record of the same length is replaced where it is, so that the saved
\* record has the new data at once and the old key until it is saved again.
RewriteInPlace(h) ==
  /\ st = "open" /\ st' = "open"
  /\ cat[h] # None
  /\ cat'[h] \in Record /\ cat'[h].lng = cat[h].lng
  /\ Only({h})
  /\ saved' = IF saved[h] = None THEN saved ELSE [saved EXCEPT ![h].data = cat'[h].data]

\* The record old is replaced by one under another handle.
RewriteToEnd(old, h) ==
  /\ st = "open" /\ st' = "open"
  /\ cat[old] # None /\ cat'[old] = None
  /\ cat[h] = None /\ cat'[h] \in Record
  /\ Only({old, h})
  /\ UNCHANGED saved

Delete(h) ==
  /\ st = "open" /\ st' = "open"
  /\ cat[h] # None /\ cat'[h] = None
  /\ Only({h})
  /\ UNCHANGED saved

Edit(h) ==
  /\ st = "open" /\ st' = "open"
  /\ cat[h] # None
  /\ \E k \in Keys : cat'[h] = [cat[h] EXCEPT !.key = k]
  /\ Only({h})
  /\ UNCHANGED saved

\* Some of the records have reached the disk: each handle shows there either what it
\* showed before or what the open file shows.
SavePart ==
  /\ st = "open"
  /\ \A h \in Handle : saved'[h] \in {saved[h], cat[h]}
  /\ UNCHANGED <<st, cat>>

\* A file is closed only when everything is saved.
Close ==
  /\ st = "open" /\ saved = cat
  /\ st' = "closed"
  /\ cat' = Empty
  /\ UNCHANGED saved

CloseRefused ==
  /\ st = "refused"
  /\ st' = "closed"
  /\ UNCHANGED <<cat, saved>>

Crash ==
  /\ st # "closed"
  /\ st' = "closed"
  /\ cat' = Empty
  /\ UNCHANGED saved

Next ==
  \/ Create \/ Open \/ Refuse
  \/ \E h \in Handle : Append(h) \/ RewriteInPlace(h) \/ Delete(h) \/ Edit(h)
  \/ \E old, h \in Handle : RewriteToEnd(old, h)
  \/ SavePart
  \/ Close \/ CloseRefused \/ Crash

Spec == Init /\ [][Next]_vars

=============================================================================
