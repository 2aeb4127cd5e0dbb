---------------------------- MODULE HistoryBuffer ----------------------------
(***************************************************************************)
(* The resolution history of dns_relay/src/handler.rs: handlers push       *)
(* (domain, ips) entries into a bounded lock-free queue; whoever finds it  *)
(* full spawns a task that flushes it into history.txt, one such task at a *)
(* time; close flushes what is left.  A domain and an ip are texts, that   *)
(* is sequences of symbols: patterns of matched_list are compared with the *)
(* end of a domain, and a write that stops in the middle of a text leaves  *)
(* a shorter one in the file.                                              *)
(*                                                                         *)
(* push_many runs inside a handler's task and loops, without yielding,     *)
(* until the queue takes its entry: it keeps the runtime thread it runs    *)
(* on.  The flush task needs a thread for each of its steps, and none      *)
(* while its file operations run (tokio does those on other threads).      *)
(***************************************************************************)
EXTENDS Naturals, Sequences, FiniteSets, SequencesExt

CONSTANTS
    Symbols,    \* what texts are made of
    Threads,    \* worker threads of the runtime
    Pushers,    \* handlers that have an entry to push
    EntryOf,    \* the entry of each: its domain and its ips
    MatchedList,\* the patterns of domains to record; none records them all
    Cap,        \* CAP, the capacity of the queue
    Lines,      \* lines_count, the domains the file may hold
    Faults      \* the faults that happen: a subset of {"crash", "io"}

\* A domain or an ip: not empty, and without white space.
Text == Seq(Symbols) \ {<<>>}

ASSUME HistoryAssumption ==
    /\ Cap \in Nat \ {0}
    /\ \A pattern \in MatchedList : pattern # <<>>
    /\ \A p \in Pushers : EntryOf[p].domain \in Text /\ EntryOf[p].ips \in Seq(Text)
    /\ Lines \in Nat
    /\ Faults \subseteq {"crash", "io"}

VARIABLES
    push,       \* where each push is
    thread,     \* the push each thread runs, or {} if it is free
    queue,      \* the pushes whose entries are queued
    flushing,   \* the flag of the same name
    flush,      \* the flushes under way: of the spawned task, and of close
    file,       \* history.txt: lines of a domain and its ips
    evicted,    \* history: the pushes whose entries the line limit took out
    faults      \* history: the faults that have happened, "torn" if one left a
                \* line cut in two, "panic" if a flush has panicked

vars == <<push, thread, queue, flushing, flush, file, evicted, faults>>

Flushes == {"task", "close"}
Off == [stage |-> "off", batch |-> <<>>, lines |-> <<>>]

Init ==
    /\ push = [p \in Pushers |-> "new"]
    /\ thread = [t \in Threads |-> {}]
    /\ queue = <<>>
    /\ flushing = FALSE
    /\ flush = [f \in Flushes |-> Off]
    /\ file = <<>>
    /\ evicted = {}
    /\ faults = {}

-----------------------------------------------------------------------------
(* push_many, on thread t.                                                  *)

domain_matches(pattern, domain) ==
    IF Head(pattern) # "*" THEN domain = pattern
    ELSE LET suffix == Tail(pattern)
             n == Len(domain) - Len(suffix)
         IN  domain = suffix \/ (n > 0 /\ IsSuffix(suffix, domain) /\ domain[n] = ".")

Recorded(p) ==
    /\ EntryOf[p].ips # <<>>
    /\ MatchedList = {} \/ \E m \in MatchedList : domain_matches(m, EntryOf[p].domain)

\* Bug: a second flush is started over the first, without compare_exchange.
try_spawn_flush_unguarded ==
    /\ flushing' = TRUE
    /\ flush' = [flush EXCEPT !["task"] = [Off EXCEPT !.stage = "start"]]

\* compare_exchange, then spawn.
try_spawn_flush ==
    IF flushing THEN UNCHANGED <<flushing, flush>>
    ELSE /\ flushing' = TRUE
         /\ flush' = [flush EXCEPT !["task"] = [Off EXCEPT !.stage = "start"]]

Leave(t, p, s) ==
    /\ push' = [push EXCEPT ![p] = s]
    /\ thread' = [thread EXCEPT ![t] = {}]

Enter(t, p) ==
    /\ thread[t] = {}
    /\ push[p] = "new"
    /\ push' = [push EXCEPT ![p] = "pushing"]
    /\ thread' = [thread EXCEPT ![t] = {p}]
    /\ UNCHANGED <<queue, flushing, flush, file, evicted, faults>>

Ignore(t, p) ==
    /\ thread[t] = {p} /\ push[p] = "pushing"
    /\ ~Recorded(p)
    /\ Leave(t, p, "ignored")
    /\ UNCHANGED <<queue, flushing, flush, file, evicted, faults>>

Enqueue(t, p) ==
    /\ thread[t] = {p} /\ push[p] = "pushing"
    /\ Recorded(p)
    /\ Len(queue) < Cap
    /\ queue' = Append(queue, p)
    /\ push' = [push EXCEPT ![p] = "pushed"]
    /\ UNCHANGED <<thread, flushing, flush, file, evicted, faults>>

\* The queue is full: once round the loop.
Spin(t, p) ==
    /\ thread[t] = {p} /\ push[p] = "pushing"
    /\ Recorded(p)
    /\ Len(queue) >= Cap
    /\ try_spawn_flush
    /\ UNCHANGED <<push, thread, queue, file, evicted, faults>>

Return(t, p) ==
    /\ thread[t] = {p} /\ push[p] = "pushed"
    /\ IF Len(queue) >= Cap THEN try_spawn_flush ELSE UNCHANGED <<flushing, flush>>
    /\ Leave(t, p, "done")
    /\ UNCHANGED <<queue, file, evicted, faults>>

PushStep == \E t \in Threads, p \in Pushers :
    Enter(t, p) \/ Ignore(t, p) \/ Enqueue(t, p) \/ Spin(t, p) \/ Return(t, p)

-----------------------------------------------------------------------------
(* flush, as the spawned task or as part of close.                          *)

Domains(lines) == {lines[i].domain : i \in DOMAIN lines}

\* The lines record the entry of push p.
Holds(lines, p) ==
    \E i \in DOMAIN lines :
        /\ lines[i].domain = EntryOf[p].domain
        /\ ToSet(EntryOf[p].ips) \subseteq ToSet(lines[i].ips)

\* This process has taken the entry into its queue.
Accepted(p) == push[p] \in {"pushed", "done"}

FreeThread == \E t \in Threads : thread[t] = {}
At(f, s) == flush[f].stage = s
Goto(f, s) == flush' = [flush EXCEPT ![f].stage = s]

\* The queue is emptied entry by entry, while others push.
Pop(f) ==
    /\ At(f, "start") /\ FreeThread
    /\ queue # <<>>
    /\ queue' = Tail(queue)
    /\ flush' = [flush EXCEPT ![f].batch = Append(@, Head(queue))]
    /\ UNCHANGED <<push, thread, flushing, file, evicted, faults>>

Drained(f) ==
    /\ At(f, "start") /\ FreeThread
    /\ queue = <<>>
    /\ Goto(f, IF flush[f].batch = <<>> THEN "end" ELSE "read")
    /\ UNCHANGED <<push, thread, queue, flushing, file, evicted, faults>>

\* The place of the last line of a domain.
LastOf(lines, domain) ==
    CHOOSE i \in DOMAIN lines :
        /\ lines[i].domain = domain
        /\ \A j \in DOMAIN lines : lines[j].domain = domain => j <= i

\* What lines read back as: `order` has the domain of every line, also of one that
\* comes again, and `history` has the ips of the last line of each domain.
Reading(lines) == [i \in DOMAIN lines |-> lines[LastOf(lines, lines[i].domain)]]

\* A file that cannot be read counts as empty.
Read(f) ==
    /\ At(f, "read")
    /\ \/ /\ flush' = [flush EXCEPT ![f].lines = Reading(file), ![f].stage = "merge"]
          /\ UNCHANGED faults
       \/ /\ "io" \in Faults
          /\ flush' = [flush EXCEPT ![f].lines = <<>>, ![f].stage = "merge"]
          /\ faults' = faults \cup {"io"}
    /\ UNCHANGED <<push, thread, queue, flushing, file, evicted>>

\* Bug: every ip is appended, also one the line has.
MergeEntryTwice(lines, p) ==
    LET e == EntryOf[p]
    IN  IF \A i \in DOMAIN lines : lines[i].domain # e.domain
        THEN Append(lines, [domain |-> e.domain, ips |-> e.ips])
        ELSE [i \in DOMAIN lines |->
                IF lines[i].domain = e.domain
                THEN [lines[i] EXCEPT !.ips = @ \o e.ips] ELSE lines[i]]

\* One entry merged into the lines: an ip the domain already has is skipped, a
\* domain that has no line yet gets one at the end.  The order of the ips it adds
\* to a line does not matter here.
MergeEntry(lines, p) ==
    LET e == EntryOf[p]
        AddIps(ips) == ips \o SetToSeq(ToSet(e.ips) \ ToSet(ips))
    IN  IF \A i \in DOMAIN lines : lines[i].domain # e.domain
        THEN Append(lines, [domain |-> e.domain, ips |-> AddIps(<<>>)])
        ELSE [i \in DOMAIN lines |->
                IF lines[i].domain = e.domain
                THEN [lines[i] EXCEPT !.ips = AddIps(@)] ELSE lines[i]]

\* The entries of the batch are merged one after the other.
Merge(f) ==
    /\ At(f, "merge") /\ FreeThread
    /\ flush[f].batch # <<>>
    /\ flush' = [flush EXCEPT ![f].lines = MergeEntry(@, Head(flush[f].batch)),
                              ![f].batch = Tail(@)]
    /\ UNCHANGED <<push, thread, queue, flushing, file, evicted, faults>>

\* The oldest domains go when there are more than the file may hold.
Gone(lines) == IF Len(lines) > Lines THEN SubSeq(lines, 1, Len(lines) - Lines) ELSE <<>>
Kept(lines) ==
    IF Len(lines) > Lines THEN SubSeq(lines, Len(lines) - Lines + 1, Len(lines)) ELSE lines

\* A domain that goes takes its ips out of `history`; where it has a line that
\* stays, history[domain] panics.
Panics(lines) == Domains(Gone(lines)) \cap Domains(Kept(lines)) # {}

Evict(f) ==
    /\ At(f, "merge") /\ FreeThread
    /\ flush[f].batch = <<>>
    /\ LET all == flush[f].lines
           kept == Kept(all)
       IN  /\ ~Panics(all)
           /\ flush' = [flush EXCEPT ![f].lines = kept, ![f].stage = "create"]
           /\ evicted' = evicted \cup
                 {p \in Pushers : /\ Accepted(p) /\ p \notin ToSet(queue)
                                 /\ Holds(all, p) /\ ~Holds(kept, p)}
    /\ UNCHANGED <<push, thread, queue, flushing, file, faults>>

\* What is left in memory when the process has died and is started again.
Restarted ==
    /\ push' = [p \in Pushers |-> IF push[p] = "new" THEN "new" ELSE "gone"]
    /\ thread' = [t \in Threads |-> {}]
    /\ queue' = <<>>
    /\ flushing' = FALSE
    /\ flush' = [f \in Flushes |-> Off]

\* The release profile aborts the process on a panic; the others end the task, or
\* the caller of close, and leave the flag as it is.
Panic(f) ==
    /\ At(f, "merge") /\ FreeThread
    /\ flush[f].batch = <<>>
    /\ Panics(flush[f].lines)
    /\ \/ Restarted
       \/ /\ Goto(f, "panicked")
          /\ UNCHANGED <<push, thread, queue, flushing>>
    /\ faults' = faults \cup {"panic"}
    /\ UNCHANGED <<file, evicted>>

\* File::create truncates the file before anything is written to it.
Create(f) ==
    /\ At(f, "create")
    /\ file' = <<>>
    /\ Goto(f, "write")
    /\ UNCHANGED <<push, thread, queue, flushing, evicted, faults>>

Write(f) ==
    /\ At(f, "write") /\ FreeThread
    /\ Goto(f, "writing")
    /\ UNCHANGED <<push, thread, queue, flushing, file, evicted, faults>>

Written(f) ==
    /\ At(f, "writing")
    /\ file' = flush[f].lines
    /\ Goto(f, "end")
    /\ UNCHANGED <<push, thread, queue, flushing, evicted, faults>>

\* What a write that stops in the middle of a line leaves of it: the text of its
\* domain or of one of its ips may be cut, and then reads as what is left.
Cuts(text) == Prefixes(text) \ {<<>>}
TornLines(line) ==
    {[domain |-> cut, ips |-> <<>>] : cut \in Cuts(line.domain)} \cup
    UNION {{[domain |-> line.domain, ips |-> Append(SubSeq(line.ips, 1, k - 1), cut)] :
               cut \in Cuts(line.ips[k])} : k \in DOMAIN line.ips}

\* What a file holds that has some first bytes of these lines.
CutLines(lines) ==
    Prefixes(lines) \cup
    UNION {{Append(SubSeq(lines, 1, i - 1), torn) : torn \in TornLines(lines[i])} :
               i \in DOMAIN lines}

\* What may be in the file when flush f goes no further, and whether a line of it
\* is torn.
Interrupted(f) == IF At(f, "writing") THEN CutLines(flush[f].lines) ELSE {file}
Torn(f, left) ==
    IF At(f, "writing") /\ left \notin Prefixes(flush[f].lines) THEN {"torn"} ELSE {}

\* A file operation fails: flush returns the error, which is logged, and the
\* batch is gone.
IoError(f) ==
    /\ "io" \in Faults
    /\ flush[f].stage \in {"create", "writing"}
    /\ \E left \in Interrupted(f) :
          /\ file' = left
          /\ faults' = faults \cup {"io"} \cup Torn(f, left)
    /\ Goto(f, "end")
    /\ UNCHANGED <<push, thread, queue, flushing, evicted>>

End(f) ==
    /\ At(f, "end") /\ FreeThread
    /\ flush' = [flush EXCEPT ![f] =
                    IF f = "close" THEN [Off EXCEPT !.stage = "closed"] ELSE Off]
    /\ flushing' = IF f = "task" THEN FALSE ELSE flushing
    /\ UNCHANGED <<push, thread, queue, file, evicted, faults>>

\* Bug: close does not wait for the flush under way.
CloseAtOnce ==
    /\ \A p \in Pushers : push[p] \in {"done", "ignored", "gone"}
    /\ At("close", "off")
    /\ Goto("close", "start")
    /\ UNCHANGED <<push, thread, queue, flushing, file, evicted, faults>>

\* close waits until no flush is under way and then flushes without the flag; its
\* callers (the tests) have joined every pusher by then.
Close ==
    /\ \A p \in Pushers : push[p] \in {"done", "ignored", "gone"}
    /\ At("close", "off")
    /\ ~flushing
    /\ Goto("close", "start")
    /\ UNCHANGED <<push, thread, queue, flushing, file, evicted, faults>>

FlushStep(f) ==
    \/ Pop(f) \/ Drained(f) \/ Read(f) \/ Merge(f) \/ Evict(f) \/ Panic(f)
    \/ Create(f) \/ Write(f) \/ Written(f) \/ End(f)

-----------------------------------------------------------------------------
\* The process dies and is started again; what it held is gone, the file stays as
\* it is then.
Crash ==
    /\ "crash" \in Faults \ faults
    /\ Restarted
    /\ \E f \in Flushes :
          /\ \A g \in Flushes \ {f} : ~At(g, "writing")
          /\ \E left \in Interrupted(f) :
                /\ file' = left
                /\ faults' = faults \cup {"crash"} \cup Torn(f, left)
    /\ UNCHANGED evicted

Next ==
    \/ PushStep
    \/ \E f \in Flushes : FlushStep(f) \/ IoError(f)
    \/ Close
    \/ Crash

Spec == Init /\ [][Next]_vars

\* Every thread keeps running what it runs, a free thread takes up what is ready,
\* and file operations return.
FairSpec ==
    /\ Spec
    /\ \A t \in Threads, p \in Pushers :
          /\ WF_vars(Enter(t, p))
          /\ WF_vars(Ignore(t, p) \/ Enqueue(t, p) \/ Spin(t, p) \/ Return(t, p))
    /\ \A f \in Flushes : WF_vars(FlushStep(f))

-----------------------------------------------------------------------------
(* Properties.                                                              *)

\* No file operation has failed, and no flush has panicked.
Unharmed == faults \cap {"io", "panic"} = {}

\* As long as the file can be read and written and no flush panics, an entry that
\* push_many accepted is never lost but to the line limit or with its process: it is
\* queued, in the batch of the flush under way, about to be written, or in the file,
\* where the next flush finds it, and a flush that writes old lines back never
\* overwrites what another one wrote (the flushing flag, the wait in close).  A line
\* that a crash has torn loses no entry of the processes that come after it.
NothingLost ==
    Unharmed =>
        \A p \in Pushers \ evicted :
            Accepted(p) =>
                \/ p \in ToSet(queue)
                \/ \E f \in Flushes :
                      \/ p \in ToSet(flush[f].batch)
                      \/ ~At(f, "end") /\ Holds(flush[f].lines, p)
                \/ Holds(Reading(file), p)

\* When close returns every entry that was accepted is in the file, the line limit
\* and the faults of NothingLost aside.
CloseFlushesAll ==
    At("close", "closed") /\ Unharmed =>
        \A p \in Pushers \ evicted : Accepted(p) => Holds(Reading(file), p)

\* The file never has more lines than it may hold.  It has one line per domain and
\* no ip twice on a line, and no flush of it panics, over any number of flushes of
\* its own output, unless a crash or an error stopped a write in the middle of a
\* line: a flush then reads that piece as a line like the others, and may keep it.
FileTidy ==
    /\ Len(file) <= Lines
    /\ "torn" \notin faults =>
          /\ \A i, j \in DOMAIN file : file[i].domain = file[j].domain => i = j
          /\ \A i \in DOMAIN file : IsInjective(file[i].ips)
          /\ "panic" \notin faults

\* Every push returns and lets its handler go on to send its reply.  The test
\* concurrent_pushes_from_multiple_tasks_are_not_lost joins all its pushers.
PushReturns == \A p \in Pushers : push[p] = "pushing" ~> push[p] \in {"done", "ignored"}

=============================================================================
