-------------------------- MODULE ArtifactArchive --------------------------
(***************************************************************************)
(* The append-only artifact container of src/XTA/artifact_archive.py.  A   *)
(* transaction writes its members over the TAR footer left by the last     *)
(* committed one, makes them durable, writes its COMMIT record and a new   *)
(* footer, and makes those durable.  The file is never truncated, so what  *)
(* an interrupted append wrote stays behind the committed prefix.          *)
(*                                                                         *)
(* The file is a sequence of TAR blocks.  A member is one header block and *)
(* Blocks[name] payload blocks, a COMMIT record is a header and one block  *)
(* of rows.  A payload block read where a header belongs is a corrupt      *)
(* header; payloads that look like TAR blocks themselves are left out.     *)
(*                                                                         *)
(* Faults, at most MaxFaults of them: the append raises; its process dies, *)
(* or fails in the undo; the machine loses power, when the disk holds some *)
(* content the file had since the last fsync (writes reach it in order).   *)
(***************************************************************************)
EXTENDS Naturals, Sequences, FiniteSets

CONSTANTS Names,               \* the logical member names
          Blocks,              \* payload blocks of each name
          Calls,               \* how many append_members calls are made
          MaxFaults,           \* bound on the faults of a behaviour
          DirectoryMayForget   \* may power loss forget a name never fsynced?

ASSUME BlocksAssumption == Blocks \in [Names -> Nat]
ASSUME CallsAssumption == Calls \in Nat
ASSUME FaultsAssumption == MaxFaults \in Nat /\ DirectoryMayForget \in BOOLEAN

VARIABLES file,      \* the content every process sees
          platter,   \* the contents a power loss may leave
          link,      \* the directory entry: "none", "volatile", "durable"
          writer,    \* the append holding the writer lock, or Nobody
          fate,      \* what each call has come to
          asked,     \* the names each started call writes
          faults
archiveVars == <<file, platter, link, writer, fate, asked, faults>>


Appends == 1 .. Calls
Nobody == [call |-> 0]
NoEntry == [call |-> 0, at |-> 0]
--------------------------------------------------------------------------
(* Blocks *)
Zero == [kind |-> "zero"]
Header(t, n) == [kind |-> "data", call |-> t, name |-> n]
Payload(t, n) == [kind |-> "payload", call |-> t, name |-> n]
CommitHeader(t) == [kind |-> "commit", call |-> t]
Rows(t, names, replace) ==
  [kind |-> "rows", call |-> t, names |-> names, replace |-> replace]

\* _write_member: a header, then the payload padded to whole blocks.
Member(t, n) ==
  <<Header(t, n)>> \o [i \in 1 .. Blocks[n] |-> Payload(t, n)]
Record(t, names, replace) == <<CommitHeader(t), Rows(t, names, replace)>>
Footer == <<Zero, Zero>>

Members(t, names) ==
  LET upTo[i \in 0 .. Len(names)] ==
        IF i = 0 THEN <<>> ELSE upTo[i - 1] \o Member(t, names[i])
  IN  upTo[Len(names)]
--------------------------------------------------------------------------
(* _scan: one pass over the blocks.  `state` is "header" where a header is *)
(* expected, "payload" and "rows" inside a member, and "corrupt" once      *)
(* ArchiveError is raised; "stop" ends the walk quietly.                   *)
Scan0 == [state |-> "header", left |-> 0, call |-> 0, pending |-> <<>>,
          entries |-> [n \in Names |-> NoEntry], calls |-> {}, end |-> 0]

\* The header at p is added to the members of the pending transaction.
Pending(s, b, p) ==
  [n \in DOMAIN s.pending \cup {b.name} |->
     IF n = b.name THEN [call |-> b.call, at |-> p] ELSE s.pending[n]]

\* mutant: the header's transaction is not compared with the pending one
ReadDataAnyCall(s, b, p) ==
  [s EXCEPT !.state = IF Blocks[b.name] = 0 THEN "header" ELSE "payload",
            !.left = Blocks[b.name], !.call = b.call,
            !.pending = Pending(s, b, p)]

\* A data header (lines 197-206): its transaction must be the pending one.
ReadData(s, b, p) ==
  IF \/ s.call # 0 /\ s.call # b.call
     \/ b.name \in DOMAIN s.pending
  THEN [s EXCEPT !.state = "corrupt"]
  ELSE [s EXCEPT !.state = IF Blocks[b.name] = 0 THEN "header" ELSE "payload",
                 !.left = Blocks[b.name], !.call = b.call,
                 !.pending = Pending(s, b, p)]

\* The rows of a COMMIT record (lines 213-230): they must belong to the pending
\* transaction, name exactly its members, and replace only if they say so.
Mismatch(s, b) ==
  \/ b.kind # "rows"
  \/ b.call # s.call
  \/ b.names # DOMAIN s.pending
  \/ ~b.replace /\ \E n \in b.names : s.entries[n] # NoEntry

\* mutant: the end of the committed prefix is not advanced
ReadRowsKeepingEnd(s, b, p) ==
  IF Mismatch(s, b)
  THEN [s EXCEPT !.state = "corrupt"]
  ELSE [s EXCEPT !.state = "header", !.call = 0, !.pending = <<>>,
                 !.entries = [n \in Names |-> IF n \in b.names
                                              THEN s.pending[n] ELSE @[n]],
                 !.calls = @ \cup {b.call}]

ReadRows(s, b, p) ==
  IF Mismatch(s, b)
  THEN [s EXCEPT !.state = "corrupt"]
  ELSE [s EXCEPT !.state = "header", !.call = 0, !.pending = <<>>,
                 !.entries = [n \in Names |-> IF n \in b.names
                                              THEN s.pending[n] ELSE @[n]],
                 !.calls = @ \cup {b.call}, !.end = p]

Walk(s, b, p) ==
  CASE s.state \in {"stop", "corrupt"} -> s
    [] s.state = "payload" -> [s EXCEPT !.left = @ - 1,
                                        !.state = IF s.left = 1 THEN "header" ELSE @]
    [] s.state = "rows" -> ReadRows(s, b, p)
    [] s.state = "header" /\ b.kind = "zero" -> [s EXCEPT !.state = "stop"]
    [] s.state = "header" /\ b.kind = "data" -> ReadData(s, b, p)
    [] s.state = "header" /\ b.kind = "commit" ->
         [s EXCEPT !.state = IF b.call = s.call THEN "rows" ELSE "corrupt"]
    [] OTHER -> [s EXCEPT !.state = "corrupt"]

Scan(content) ==
  LET walk[p \in 0 .. Len(content)] ==
        IF p = 0 THEN Scan0 ELSE Walk(walk[p - 1], content[p], p)
  IN  walk[Len(content)]

Readable(scan) == scan.state # "corrupt"
--------------------------------------------------------------------------
(* The steps of an append, in the order the code takes them *)
Sync == [op |-> "sync"]
SyncDirectory == [op |-> "directory"]
Write(from, blocks) ==
  [i \in 1 .. Len(blocks) |-> [op |-> "write", at |-> from + i, block |-> blocks[i]]]

\* stream.read(2 * _BLOCK) != zeros: the footer is missing (or never was).
FooterMissing(content, end) ==
  \E i \in 1 .. 2 : end + i > Len(content) \/ content[end + i] # Zero

Clearing(end) == Write(end, Footer) \o <<Sync>>

Appending(t, names, replace, end, created) ==
  LET data == Members(t, names)
      tail == Record(t, {names[i] : i \in DOMAIN names}, replace) \o Footer
  IN  Write(end, data) \o <<Sync>>
        \o Write(end + Len(data), tail) \o <<Sync>>
        \o IF created THEN <<SyncDirectory>> ELSE <<>>

\* mutant: the failed transaction is left where it is
UndoingNothing(end) == <<Sync>>
Undoing(end) == Write(end, Footer) \o <<Sync>>

Requests == {s \in UNION {[1 .. k -> Names] : k \in 1 .. Cardinality(Names)} :
               \A i, j \in DOMAIN s : s[i] = s[j] => i = j}

ArchiveInit ==
  /\ file = <<>>
  /\ platter = {<<>>}
  /\ link = "none"
  /\ writer = Nobody
  /\ fate = [t \in Appends |-> "new"]
  /\ asked = [t \in Appends |-> {}]
  /\ faults = 0

(* append_members, up to the first write: the lock, the index, the refusals. *)
Begin(t, names, replace) ==
  LET scan == Scan(file)
      distinct == {names[i] : i \in DOMAIN names}
      created == link = "none"
      clear == IF FooterMissing(file, scan.end) THEN Clearing(scan.end) ELSE <<>>
  IN  /\ writer = Nobody
      /\ fate[t] = "new"
      /\ \A u \in Appends : u < t => fate[u] # "new"
      /\ Readable(scan)
      /\ replace \/ \A n \in distinct : scan.entries[n] = NoEntry
      /\ writer' = [call |-> t, end |-> scan.end, clear |-> Len(clear),
                    undoing |-> FALSE, lent |-> scan.entries,
                    todo |-> clear \o Appending(t, names, replace, scan.end, created)]
      /\ link' = IF created THEN "volatile" ELSE link
      /\ fate' = [fate EXCEPT ![t] = "open"]
      /\ asked' = [asked EXCEPT ![t] = distinct]
      /\ UNCHANGED <<file, platter, faults>>

Advance == writer' = [writer EXCEPT !.todo = Tail(@),
                                    !.clear = IF @ = 0 THEN 0 ELSE @ - 1]

WriteBlock ==
  /\ writer # Nobody
  /\ writer.todo # <<>>
  /\ Head(writer.todo).op = "write"
  /\ LET w == Head(writer.todo)
     IN  file' = IF w.at \in DOMAIN file THEN [file EXCEPT ![w.at] = w.block]
                 ELSE Append(file, w.block)
  /\ platter' = platter \cup {file'}
  /\ Advance
  /\ UNCHANGED <<link, fate, asked, faults>>

SyncFile ==
  /\ writer # Nobody
  /\ writer.todo # <<>>
  /\ Head(writer.todo).op = "sync"
  /\ platter' = {file}
  /\ Advance
  /\ UNCHANGED <<file, link, fate, asked, faults>>

SyncLink ==
  /\ writer # Nobody
  /\ writer.todo # <<>>
  /\ Head(writer.todo).op = "directory"
  /\ link' = "durable"
  /\ Advance
  /\ UNCHANGED <<file, platter, fate, asked, faults>>

\* append_members returns, or re-raises once the footer is back.
Finish ==
  /\ writer # Nobody
  /\ writer.todo = <<>>
  /\ fate' = [fate EXCEPT ![writer.call] =
                IF writer.undoing THEN "failed" ELSE "done"]
  /\ writer' = Nobody
  /\ UNCHANGED <<file, platter, link, asked, faults>>

\* Anything raised inside the try: the undo writes a footer over the start of
\* the transaction.  Past the last fsync only the directory's can still raise.
Raise ==
  /\ writer # Nobody
  /\ writer.todo # <<>>
  /\ ~writer.undoing
  /\ writer.clear = 0
  /\ faults < MaxFaults
  /\ faults' = faults + 1
  /\ writer' = [writer EXCEPT !.undoing = TRUE, !.todo = Undoing(writer.end)]
  /\ UNCHANGED <<file, platter, link, fate, asked>>

\* The process dies, or raises where nothing is undone: in the clearing of the
\* old tail or in the undo itself.
Die ==
  /\ writer # Nobody
  /\ faults < MaxFaults
  /\ faults' = faults + 1
  /\ fate' = [fate EXCEPT ![writer.call] = "torn"]
  /\ writer' = Nobody
  /\ UNCHANGED <<file, platter, link, asked>>

PowerLoss ==
  /\ faults < MaxFaults
  /\ faults' = faults + 1
  /\ \/ file' \in platter /\ link' = (IF link = "none" THEN link ELSE "durable")
     \/ DirectoryMayForget /\ link = "volatile" /\ file' = <<>> /\ link' = "none"
  /\ platter' = {file'}
  /\ fate' = [t \in Appends |-> IF fate[t] = "open" THEN "torn" ELSE fate[t]]
  /\ writer' = Nobody
  /\ UNCHANGED asked

ArchiveNext ==
  \/ \E t \in Appends, names \in Requests, replace \in BOOLEAN :
       Begin(t, names, replace)
  \/ WriteBlock \/ SyncFile \/ SyncLink \/ Finish
  \/ Raise \/ Die \/ PowerLoss

ArchiveSpec == ArchiveInit /\ [][ArchiveNext]_archiveVars
--------------------------------------------------------------------------
(* Properties *)

\* Every variable keeps its shape, and the writer's plan holds known steps.
ArchiveTypeOK ==
  /\ \A p \in DOMAIN file :
       file[p].kind \in {"zero", "data", "payload", "commit", "rows"}
  /\ file \in platter
  /\ link \in {"none", "volatile", "durable"}
  /\ fate \in [Appends -> {"new", "open", "done", "failed", "torn"}]
  /\ asked \in [Appends -> SUBSET Names]
  /\ faults \in 0 .. MaxFaults
  /\ writer = Nobody \/ fate[writer.call] = "open"

Idle == writer = Nobody
InFate(f) == {t \in Appends : fate[t] = f}

\* The payload an entry points to is the one its transaction wrote.
Intact(entry, n) ==
  entry = NoEntry
    \/ \A i \in 1 .. Blocks[n] :
         /\ entry.at + i \in DOMAIN file
         /\ file[entry.at + i] = Payload(entry.call, n)

\* The newest of these transactions that writes n, 0 if none does.
Newest(calls, n) ==
  LET writers == {t \in calls : n \in asked[t]}
  IN  IF writers = {} THEN 0
      ELSE CHOOSE t \in writers : \A u \in writers : u <= t

\* What readers are shown between appends (_index under the lock) is whole
\* transactions: each name has the version of the newest exposed one that
\* writes it, with its own payload, whatever tail was overwritten.  And one
\* interrupted append never makes the archive unreadable: the next reader stops
\* at the torn tail, and the next writer overwrites it.
ExposureIsAtomic ==
  LET scan == Scan(file)
  IN  /\ ArchiveTypeOK
      /\ Idle /\ faults <= 1 => Readable(scan)
      /\ Idle /\ Readable(scan) =>
           \A n \in Names : /\ scan.entries[n].call = Newest(scan.calls, n)
                             /\ Intact(scan.entries[n], n)

\* Once append_members has returned, its transaction is on every platter image:
\* no later failure, crash or power loss takes it away from the readers of a
\* readable archive.
AcknowledgedIsKept ==
  LET scan == Scan(file)
  IN  Idle /\ Readable(scan) => InFate("done") \subseteq scan.calls

\* A readable archive shows what append_members told its callers and nothing
\* else, whatever was interrupted: every transaction it acknowledged, and none
\* that raised after undoing itself, not even when a crash of a later append
\* stops short of the leftover COMMIT record.
CallersAreToldTheTruth ==
  LET scan == Scan(file)
  IN  Idle /\ Readable(scan) =>
        /\ AcknowledgedIsKept
        /\ scan.calls \subseteq InFate("done") \cup InFate("torn")

\* The entries a reader may hold: what the idle archive shows, or the prefix
\* lent to the readers of the writer's own process (_APPEND_SNAPSHOTS).
Lent == IF Idle THEN Scan(file).entries ELSE writer.lent

Lending ==
  \/ Idle /\ ~Readable(Scan(file))
  \/ \A n \in Names :
       LET e == Lent[n]
       IN  e # NoEntry /\ (fate[e.call] = "done" \/ faults' = faults) =>
             \A i \in 0 .. Blocks[n] :
               e.at + i \in DOMAIN file' /\ file'[e.at + i] = file[e.at + i]

\* The blocks behind an entry in a reader's hands never change: not by any step
\* of an append, and for an acknowledged transaction not by a fault either.
LentBytesNeverChange == [][Lending]_archiveVars

\* ARCHITECTURE.md:1304 and docs/run_transport.md:16: an interrupted append
\* does not hide the transactions committed before it.
TornAppendHidesNothing ==
  Idle /\ InFate("done") # {} => Readable(Scan(file))
=============================================================================
