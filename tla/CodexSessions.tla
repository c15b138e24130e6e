--------------------------- MODULE CodexSessions ---------------------------
(***************************************************************************)
(* The import of Codex rollout files (session-usage-core/src/codex.rs): a  *)
(* thread and a thread forked from it.  The fork's file begins with copies *)
(* of its parent's token lines, which must not be counted again; which     *)
(* lines are copies is told by comparing them with the parent's file up to *)
(* the time of the fork, once that file is known to be complete so far.    *)
(* Codex writes both files behind its own progress and while they are read.*)
(*                                                                         *)
(* One counter stands for the three token counters, a call costs one       *)
(* token, and a parent in several pages is one file.                       *)
(***************************************************************************)
EXTENDS Integers, Sequences, FiniteSets, FiniteSetsExt

CONSTANTS
  Sources,   \* rate limit ids
  MaxCalls,  \* bound on API calls
  LastOf,    \* what the line of each call says the call used, or 0
  SourceOf,  \* and the rate limit id it is under
  Refreshed, \* the calls that a rate limit refresh may follow, a bound
  MaxTurns   \* bound on turns of the parent

ASSUME BoundAssumption ==
  MaxCalls \in Nat /\ MaxTurns \in Nat /\ Refreshed \subseteq 1..MaxCalls

ASSUME LineAssumption ==
  LastOf \in [1..MaxCalls -> {0, 1}] /\ SourceOf \in [1..MaxCalls -> Sources]

VARIABLES
  now,       \* the time of the last line
  log,       \* the lines of both threads, the parent's ahead of its file
  flushed,   \* how many of the parent's are in its file
  inTurn,    \* is a turn of the parent running
  forkedAt,  \* the time of the fork, or 0
  archived,  \* was the parent's file moved to archived_sessions
  calls, turns,
  ledger,    \* proxy_request_logs
  cursors,   \* session_log_sync: the length a file was imported at
  pc, seen   \* the pass, and how much of the fork's file it has parsed, or 0

codexVars == <<now, log, flushed, inTurn, forkedAt, archived, calls, turns>>
vars == <<codexVars, ledger, cursors, pc, seen>>

Threads == {"parent", "child"}
Kinds == {"started", "token", "ended"}

(* A token line carries the thread's total and, from newer versions, what  *)
(* the call itself used.  The call is not in the file.                     *)
Line == [kind : Kinds, at : Nat, total : Nat, last : Nat,
         source : Sources \cup {"none"}, call : Nat]
Row == [thread : Threads, index : 1..MaxCalls, tokens : Nat, call : 1..MaxCalls]

Marker(kind, time) ==
  [kind |-> kind, at |-> time, total |-> 0, last |-> 0, source |-> "none", call |-> 0]

Written(t) == IF t = "parent" THEN flushed ELSE Len(log[t])
File(t) == SubSeq(log[t], 1, Written(t))
TokenLines(lines) == {i \in DOMAIN lines : lines[i].kind = "token"}
Totals(lines, S) == {0} \cup {lines[i].total : i \in S}

Init ==
  /\ now = 0
  /\ log = [t \in Threads |-> <<>>] /\ flushed = 0
  /\ inTurn = FALSE /\ forkedAt = 0 /\ archived = FALSE
  /\ calls = 0 /\ turns = 0
  /\ ledger = {} /\ cursors = [t \in Threads |-> 0]
  /\ pc = "idle" /\ seen = 0

-----------------------------------------------------------------------------
(* Codex.                                                                  *)

Running(t) == IF t = "parent" THEN inTurn ELSE forkedAt # 0

Write(t, line) ==
  /\ log' = [log EXCEPT ![t] = Append(@, line)]
  /\ now' = now + 1

TurnStarted ==
  /\ ~inTurn /\ ~archived /\ turns < MaxTurns
  /\ inTurn' = TRUE /\ turns' = turns + 1
  /\ Write("parent", Marker("started", now + 1))
  /\ UNCHANGED <<flushed, forkedAt, archived, calls, ledger, cursors, pc, seen>>

(* task_complete or turn_aborted. *)
TurnEnded ==
  /\ inTurn /\ ~archived
  /\ inTurn' = FALSE
  /\ Write("parent", Marker("ended", now + 1))
  /\ UNCHANGED <<flushed, forkedAt, archived, calls, turns, ledger, cursors, pc, seen>>

(* An API call, one token above the thread's total, which all rate limit   *)
(* ids and models share.                                                   *)
Call(t) ==
  /\ Running(t) /\ (t = "parent" => ~archived)
  /\ calls < MaxCalls
  /\ calls' = calls + 1
  /\ Write(t, [kind |-> "token", at |-> now + 1,
               total |-> Max(Totals(log[t], TokenLines(log[t]))) + 1,
               last |-> LastOf[calls + 1], source |-> SourceOf[calls + 1],
               call |-> calls + 1])
  /\ UNCHANGED <<flushed, inTurn, forkedAt, archived, turns, ledger, cursors, pc, seen>>

Again(line, source) == [line EXCEPT !.at = now + 1, !.source = source]

(* A rate limit refresh writes a token info again: the last one, under any *)
(* id, or the last one of its own id.  One refresh after a call, a bound.  *)
Refresh(t) ==
  /\ Running(t) /\ (t = "parent" => ~archived)
  /\ calls \in Refreshed
  /\ {i \in DOMAIN log[t] : log[t][i].call = calls} = {Len(log[t])}
  /\ \E i \in TokenLines(log[t]), source \in Sources :
       /\ \A j \in TokenLines(log[t]) :
            j > i => log[t][i].source = source /\ log[t][j].source # source
       /\ Write(t, Again(log[t][i], source))
  /\ UNCHANGED <<flushed, inTurn, forkedAt, archived, calls, turns,
                 ledger, cursors, pc, seen>>

(* The fork's file begins with the lines of its parent so far.  The        *)
(* beginning of the turn that forked is in the parent's file by then.      *)
Fork ==
  /\ forkedAt = 0 /\ ~archived
  /\ TokenLines(log["parent"]) # {}
  /\ \A i \in (flushed + 1)..Len(log["parent"]) :
       log["parent"][i].kind # "started"
  /\ forkedAt' = now + 1 /\ now' = now + 1
  /\ log' = [log EXCEPT !["child"] = log["parent"]]
  /\ UNCHANGED <<flushed, inTurn, archived, calls, turns, ledger, cursors, pc, seen>>

Flush ==
  /\ flushed < Len(log["parent"])
  /\ flushed' = flushed + 1
  /\ UNCHANGED <<now, log, inTurn, forkedAt, archived, calls, turns,
                 ledger, cursors, pc, seen>>

(* A thread is archived when nothing more is written to it, whether or not *)
(* its last turn came to an end.                                           *)
Archive ==
  /\ ~archived /\ flushed = Len(log["parent"]) /\ flushed # 0
  /\ archived' = TRUE
  /\ UNCHANGED <<now, log, flushed, inTurn, forkedAt, calls, turns,
                 ledger, cursors, pc, seen>>

-----------------------------------------------------------------------------
(* parse_codex_file: what each token line of a file adds and, if that is   *)
(* not nothing, its number in the file.                                    *)

Signature(line) == <<line.total, line.last>>

(* A refresh repeats the latest snapshot of its id or the preceding one.   *)
Repeated(lines, i) ==
  \E j \in TokenLines(lines) :
    /\ j < i /\ Signature(lines[j]) = Signature(lines[i])
    /\ LET between == {k \in TokenLines(lines) : j < k /\ k < i}
       IN \/ between = {}
          \/ /\ lines[j].source = lines[i].source
             /\ \A k \in between : lines[k].source # lines[i].source

HighWater(lines, i) == Max(Totals(lines, {j \in TokenLines(lines) : j < i}))

(* The call's own use where it is given, else what the total has risen by. *)
Delta(lines, i) ==
  IF Repeated(lines, i) THEN 0
  ELSE IF lines[i].last # 0 THEN lines[i].last
  ELSE IF lines[i].total > HighWater(lines, i) THEN lines[i].total - HighWater(lines, i) ELSE 0

(* The lines that add tokens. *)
Billed(lines) == {i \in TokenLines(lines) : Delta(lines, i) # 0}

(* Mutant: the number is taken before it is counted up.                    *)
NumberedFromZero(lines, i) == Cardinality({j \in Billed(lines) : j < i})

Number(lines, i) == Cardinality({j \in Billed(lines) : j <= i})

-----------------------------------------------------------------------------
(* ParentTokenTimeline: how far the parent's file is known to be complete. *)

(* Every line here is activity of a turn or its end.                       *)
Ends(lines) == {i \in DOMAIN lines : lines[i].kind = "ended"}
Unfinalized(lines) == {i \in DOMAIN lines : \A e \in Ends(lines) : e < i}

(* Mutant: a newer turn that is still running does not count.              *)
SealedByAnyTurn(lines, cutoff) == archived \/ Ends(lines) # {}

(* Mutant: only a turn that ended after the fork seals the file.           *)
SealedAfterFork(lines, cutoff) ==
  \/ archived
  \/ /\ \E e \in Ends(lines) : lines[e].at >= cutoff
     /\ \A i \in Unfinalized(lines) : lines[i].at > cutoff

(* Archived, or covered up to the cutoff by turns that ended, or ending    *)
(* where a turn ends.                                                      *)
Sealed(lines, cutoff) ==
  \/ archived
  \/ /\ \E e \in Ends(lines) : lines[e].at >= cutoff
     /\ \A i \in Unfinalized(lines) : lines[i].at > cutoff
  \/ Len(lines) \in Ends(lines)

(* Mutant: the parent's signatures are not cut off at the fork.            *)
AllSignatures(lines, cutoff) == TokenLines(lines)

SignaturesAt(lines, cutoff) == {i \in TokenLines(lines) : lines[i].at <= cutoff}

(* matching_replay_prefix: each token line in turn is matched with the     *)
(* next line of the parent with its signature; the first that finds none   *)
(* ends the prefix.                                                        *)
Matches(line, parent, cutoff, offset) ==
  {j \in SignaturesAt(parent, cutoff) :
     j > offset /\ Signature(parent[j]) = Signature(line)}

Offsets(lines, parent, cutoff) ==
  LET offset[i \in 0..Len(lines)] ==
        IF i = 0 THEN 0
        ELSE IF i \notin TokenLines(lines) THEN offset[i - 1]
        ELSE IF Matches(lines[i], parent, cutoff, offset[i - 1]) = {} THEN Len(parent) + 1
        ELSE Min(Matches(lines[i], parent, cutoff, offset[i - 1]))
  IN  offset

MatchingReplayPrefix(lines, parent, cutoff) ==
  {i \in TokenLines(lines) : Offsets(lines, parent, cutoff)[i] <= Len(parent)}

-----------------------------------------------------------------------------
(* The pass of the importer.                                               *)

Lines(t) == IF t = "parent" THEN File(t) ELSE SubSeq(log[t], 1, seen)

(* A file is parsed unless it is as it was when it was imported.  Codex    *)
(* writes on between the parsing of the fork's file and the rest of the    *)
(* pass, which reads the parent's.                                         *)
Parse ==
  /\ pc = "idle"
  /\ \E t \in Threads : cursors[t] # Written(t)
  /\ seen' = IF cursors["child"] # Written("child") THEN Written("child") ELSE 0
  /\ pc' = "commit"
  /\ UNCHANGED <<codexVars, ledger, cursors>>

(* A fork waits for its parent. *)
Deferred(t) ==
  /\ t = "child"
  /\ Billed(Lines(t)) # {}
  /\ flushed = 0 \/ ~Sealed(File("parent"), forkedAt)

Replayed(t) ==
  IF t = "parent" THEN {}
  ELSE MatchingReplayPrefix(Lines(t), File("parent"), forkedAt)

(* The rows of a file: the lines that add tokens behind the replayed ones. *)
RowOf(t, i) ==
  [thread |-> t, index |-> Number(Lines(t), i), tokens |-> Delta(Lines(t), i),
   call |-> Lines(t)[i].call]

RowsOf(t) == {RowOf(t, i) : i \in Billed(Lines(t)) \ Replayed(t)}

(* Stored under (thread, index). *)
Upserted(rows) ==
  {old \in ledger : \A row \in rows : row.thread # old.thread \/ row.index # old.index}
    \cup rows

(* A file that was deferred, or has grown since, is read again. *)
CursorsAfter ==
  [t \in Threads |->
    IF ~Deferred(t) /\ (t = "parent" \/ seen = Written(t)) THEN Written(t) ELSE cursors[t]]

(* The parent's file is read, as a session and as the parent of the fork,  *)
(* and then all is stored in one transaction.  That a file which grows     *)
(* between its reading and that transaction is read again is LocalUsage's. *)
Commit ==
  /\ pc = "commit"
  /\ ledger' = Upserted(UNION {RowsOf(t) : t \in {t \in Threads : ~Deferred(t)}})
  /\ cursors' = CursorsAfter
  /\ pc' = "idle" /\ seen' = 0
  /\ UNCHANGED codexVars

Import == Parse \/ Commit

Codex ==
  \/ TurnStarted \/ TurnEnded \/ Fork \/ Archive \/ Flush
  \/ \E t \in Threads : Call(t) \/ Refresh(t)

Next == Codex \/ Import

Spec == Init /\ [][Next]_vars

(* What a commit does to the pass: no other step does it.                  *)
Committed == pc = "commit" /\ pc' = "idle"

(* The client keeps importing, what Codex has in hand reaches the file,    *)
(* and a turn comes to an end unless its thread is archived.               *)
Fairness ==
  /\ WF_vars(Parse) /\ WF_pc(Committed)
  /\ WF_vars(TurnEnded)
  /\ WF_vars(Flush)

LiveSpec == Spec /\ Fairness

-----------------------------------------------------------------------------
(* Lines, rows and cursors are well formed: a row has a number from one on,*)
(* a file is never ahead of its thread nor a cursor of the file, and only  *)
(* a thread that was forked has lines of its own.                          *)
TypeOK ==
  /\ now \in Nat /\ forkedAt \in 0..now
  /\ log \in [Threads -> Seq(Line)]
  /\ flushed \in 0..Len(log["parent"])
  /\ cursors \in [Threads -> Nat] /\ \A t \in Threads : cursors[t] <= Written(t)
  /\ forkedAt = 0 => log["child"] = <<>>
  /\ inTurn \in BOOLEAN /\ archived \in BOOLEAN
  /\ calls \in 0..MaxCalls /\ turns \in 0..MaxTurns
  /\ ledger \subseteq Row
  /\ seen \in 0..Written("child")
  /\ pc \in {"idle", "commit"}

(* No call is counted twice, neither because it was written twice nor      *)
(* because a fork repeats it, and each is counted with what it used,       *)
(* whenever the two files were read.                                       *)
CallsCountedOnce ==
  \A row \in ledger :
    /\ row.tokens = 1
    /\ \A other \in ledger : other.call = row.call => other = row

(* The calls a thread made itself, up to a line of its file. *)
OwnCalls(t, length) ==
  {log[t][i].call : i \in {i \in TokenLines(log[t]) : i <= length}}
    \ (IF t = "child"
       THEN {log["parent"][i].call :
              i \in {i \in DOMAIN log["parent"] : log["parent"][i].at <= forkedAt}}
       ELSE {})

(* A file that will not be read again as it is has no call that was not    *)
(* counted, for its own thread.                                            *)
NothingSkipped ==
  \A t \in Threads :
    \A call \in OwnCalls(t, cursors[t]) :
      \E row \in ledger : row.thread = t /\ row.call = call

(* Every call is counted in the end: no fork waits for its parent for ever.*)
CallsArrive ==
  \A call \in 1..MaxCalls :
    calls >= call ~> \E row \in ledger : row.call = call

-----------------------------------------------------------------------------
(* The inductive invariant.                                                *)

(* The line of a call that the thread made, not of a refresh. *)
New(lines, i) ==
  /\ lines[i].total = HighWater(lines, i) + 1
  /\ \A j \in TokenLines(lines) : j < i => lines[j].call # lines[i].call

(* Every token line is of a new call or repeats one. *)
TokensSound(lines) ==
  \A i \in TokenLines(lines) :
    /\ lines[i].total \in 1..calls /\ lines[i].call \in 1..calls
    /\ lines[i].last \in {0, 1}
    /\ \/ New(lines, i)
       \/ /\ Repeated(lines, i)
          /\ \E j \in TokenLines(lines) :
               j < i /\ New(lines, j) /\ lines[j].call = lines[i].call

(* Time passes with each line, and turns do not overlap. *)
ParentSound ==
  LET parent == log["parent"]
  IN  /\ \A i \in DOMAIN parent : parent[i].at \in 1..now
      /\ \A i, j \in DOMAIN parent : i < j => parent[i].at < parent[j].at
      /\ \A i \in Ends(parent) : i + 1 \in DOMAIN parent => parent[i + 1].kind = "started"
      /\ inTurn => Len(parent) \notin Ends(parent)
      /\ archived => flushed = Len(parent)

(* What the fork copied; each turn of that had begun in the parent's file. *)
Copied == {i \in DOMAIN log["parent"] : log["parent"][i].at <= forkedAt}

CopiesSound ==
  /\ \A i \in Copied : i \in DOMAIN log["child"] /\ log["child"][i] = log["parent"][i]
  /\ \A i \in Copied : i > flushed => log["parent"][i].kind # "started"
  /\ seen # 0 => \A i \in Copied : i <= seen

(* The calls a thread made itself, and the row each of them is due. *)
Own(t) ==
  {i \in TokenLines(log[t]) : New(log[t], i)} \ (IF t = "child" THEN Copied ELSE {})

CallRow(t, i) ==
  [thread |-> t, index |-> Number(log[t], i), tokens |-> 1, call |-> log[t][i].call]

OwnDisjoint ==
  \A i \in Own("child"), j \in TokenLines(log["parent"]) :
    log["child"][i].call # log["parent"][j].call

LedgerSound ==
  /\ \A row \in ledger : \E t \in Threads : \E i \in Own(t) : row = CallRow(t, i)
  /\ \A t \in Threads : \A i \in Own(t) : i <= cursors[t] => CallRow(t, i) \in ledger

CodexInv ==
  /\ TypeOK
  /\ \A t \in Threads : TokensSound(log[t])
  /\ ParentSound /\ CopiesSound /\ OwnDisjoint /\ LedgerSound
=============================================================================
