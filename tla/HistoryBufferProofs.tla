------------------------- MODULE HistoryBufferProofs -------------------------
(***************************************************************************)
(* For any pushers, threads, entries, patterns and limits: the history     *)
(* loses no entry but to the line limit, a crash, a failing file or a      *)
(* panic, close leaves every one of them in the file, and the file stays   *)
(* tidy and no flush panics until a write stops in the middle of a line.   *)
(*                                                                         *)
(* None of this is inductive.  While a flush has read the file, what is    *)
(* recorded is in its copy of the lines, and the file is about to be       *)
(* overwritten with it: the invariant says where an entry is recorded at   *)
(* each stage of a flush, and that there is one flush at a time, which     *)
(* holds because of the flushing flag and, after close has found it down,  *)
(* because nobody pushes any more.  A torn file may have a domain twice    *)
(* with different ips, of which a flush takes the last; the lines a flush  *)
(* works on agree on the ips of a domain, so that what is in one of them   *)
(* is there for the next flush to read.                                    *)
(***************************************************************************)
EXTENDS HistoryBuffer, FiniteSetTheorems, WellFoundedInduction, TLAPS

Line == [domain : Text, ips : Seq(Text)]

PushStates == {"new", "pushing", "pushed", "done", "ignored", "gone"}
Stages == {"off", "start", "read", "merge", "create", "write", "writing", "end", "closed",
           "panicked"}

HistoryTyped ==
    /\ push \in [Pushers -> PushStates]
    /\ queue \in Seq(Pushers)
    /\ flushing \in BOOLEAN
    /\ flush \in [Flushes -> [stage : Stages, batch : Seq(Pushers), lines : Seq(Line)]]
    /\ file \in Seq(Line)

\* The flag is up while the spawned task runs.  Once close has begun, no push is
\* under way and no task is spawned; once it has emptied the queue, it stays empty.
OneFlush ==
    /\ flushing <=> ~At("task", "off")
    /\ ~At("task", "closed")
    /\ ~At("close", "off") => /\ At("task", "off")
                              /\ \A p \in Pushers : push[p] \in {"done", "ignored", "gone"}
    /\ flush["close"].stage \notin {"off", "start"} => queue = <<>>

\* A flush has entries of its batch to merge only until they are merged.
Merging == {"start", "read", "merge"}
BatchMerged == \A f \in Flushes : flush[f].stage \notin Merging => flush[f].batch = <<>>

\* While a flush has the lines of the file, and is about to put them back, they are
\* what is recorded; else the file is.
Imaged == {"merge", "create", "write", "writing"}
SafeIn(fl, qs, out, p) ==
    \/ p \in ToSet(qs)
    \/ \E f \in Flushes : p \in ToSet(fl[f].batch)
    \/ \E f \in Flushes : fl[f].stage \in Imaged /\ Holds(fl[f].lines, p)
    \/ (\A f \in Flushes : fl[f].stage \notin Imaged) /\ Holds(out, p)

NoneLost ==
    Unharmed =>
        \A p \in Pushers \ evicted :
            Accepted(p) => SafeIn(flush, queue, Reading(file), p)

\* One line per domain, and no ip twice on a line.
Tidy(lines) ==
    /\ \A i, j \in DOMAIN lines : lines[i].domain = lines[j].domain => i = j
    /\ \A i \in DOMAIN lines : IsInjective(lines[i].ips)

\* The lines of a domain have the same ips: those of `history`.
Uniform(lines) ==
    \A i, j \in DOMAIN lines : lines[i].domain = lines[j].domain => lines[i] = lines[j]

\* What the lines of flush r and those of the file are like, with faults fs.
Bounding == {"create", "write", "writing"}
Good(r, out, fs) ==
    /\ Len(out) <= Lines
    /\ r.stage \in Bounding => Len(r.lines) <= Lines
    /\ Uniform(r.lines)
    /\ "torn" \notin fs => Tidy(out) /\ Tidy(r.lines) /\ "panic" \notin fs

TidyLines == \A f \in Flushes : Good(flush[f], file, faults)

HistoryInv == HistoryTyped /\ OneFlush /\ BatchMerged /\ NoneLost /\ TidyLines
-----------------------------------------------------------------------------
(* Sequences: their elements, and the lists that sets are turned into.      *)

\* Elements of a sequence when one is added at its end, or taken from its front.
LEMMA SetFacts ==
    ASSUME NEW S, NEW s \in Seq(S)
    PROVE  /\ \A e \in S : ToSet(Append(s, e)) = ToSet(s) \cup {e}
           /\ s # <<>> => /\ Head(s) \in S /\ Tail(s) \in Seq(S)
                          /\ ToSet(s) = {Head(s)} \cup ToSet(Tail(s))
  <1>1. ASSUME NEW e \in S PROVE ToSet(Append(s, e)) = ToSet(s) \cup {e}
    <2>1. /\ DOMAIN Append(s, e) = 1..(Len(s) + 1) /\ DOMAIN s = 1..Len(s) /\ Len(s) \in Nat
          /\ \A i \in 1..Len(s) : Append(s, e)[i] = s[i]
          /\ Append(s, e)[Len(s) + 1] = e
      BY <1>1
    <2>2. \A i \in 1..(Len(s) + 1) : i \in 1..Len(s) \/ i = Len(s) + 1
      BY <2>1
    <2>3. Len(s) + 1 \in 1..(Len(s) + 1) /\ 1..Len(s) \subseteq 1..(Len(s) + 1)
      BY <2>1
    <2> QED BY <2>1, <2>2, <2>3, Zenon DEF ToSet
  <1>2. ASSUME s # <<>>
        PROVE  Head(s) \in S /\ Tail(s) \in Seq(S) /\ ToSet(s) = {Head(s)} \cup ToSet(Tail(s))
    <2> DEFINE t == Tail(s)
    <2>1. /\ Head(s) \in S /\ t \in Seq(S) /\ Head(s) = s[1] /\ Len(s) \in Nat \ {0}
          /\ Len(t) = Len(s) - 1 /\ DOMAIN s = 1..Len(s) /\ DOMAIN t = 1..Len(t)
          /\ \A i \in 1..Len(t) : t[i] = s[i + 1]
      BY <1>2
    <2> HIDE DEF t
    <2>2. \A i \in 1..Len(t) : i + 1 \in 1..Len(s) /\ t[i] = s[i + 1]
      BY <2>1
    <2>3. \A i \in 1..Len(s) : i = 1 \/ (i - 1 \in 1..Len(t) /\ t[i - 1] = s[i])
      BY <2>1
    <2>4. 1 \in 1..Len(s)
      BY <2>1
    <2>5. ToSet(s) = {s[1]} \cup ToSet(t)
      <3>1. s[1] \in ToSet(s) /\ ToSet(t) \subseteq ToSet(s)
        BY <2>1, <2>2, <2>4, Zenon DEF ToSet
      <3>2. ASSUME NEW i \in DOMAIN s PROVE s[i] \in {s[1]} \cup ToSet(t)
        BY <2>1, <2>3, <3>2, Zenon DEF ToSet
      <3>3. ToSet(s) \subseteq {s[1]} \cup ToSet(t)
        BY <3>2, Zenon DEF ToSet
      <3> QED BY <3>1, <3>3
    <2> QED BY <2>1, <2>5 DEF t
  <1> QED BY <1>1, <1>2

\* The elements of a sequence are finitely many.
LEMMA FiniteElements ==
    ASSUME NEW S, NEW s \in Seq(S) PROVE IsFiniteSet(ToSet(s))
  <1>1. s \in Surjection(1..Len(s), ToSet(s)) /\ Len(s) \in Nat
    BY DEF Surjection, ToSet
  <1>2. IsFiniteSet(1..Len(s))
    BY <1>1, FS_Interval
  <1> QED BY <1>1, <1>2, FS_Surjection

\* A finite set in some order: each of its elements, once.
LEMMA OrderFacts ==
    ASSUME NEW S, IsFiniteSet(S)
    PROVE  SetToSeq(S) \in Seq(S) /\ IsInjective(SetToSeq(S)) /\ ToSet(SetToSeq(S)) = S
  <1> DEFINE n == Cardinality(S)
             s == SetToSeq(S)
  <1>1. n \in Nat /\ ExistsBijection(1..n, S)
    BY FS_CardinalityType
  <1>2. \E f \in [1..n -> S] : IsInjective(f)
    BY <1>1 DEF ExistsBijection, Bijection, Injection
  <1>3. s \in [1..n -> S] /\ IsInjective(s)
    BY <1>2, Zenon DEF SetToSeq
  <1> HIDE DEF s
  <1>4. Cardinality(1..n) = n
    BY <1>1, FS_Interval
  <1>5. s \in Injection(1..n, S)
    BY <1>3 DEF Injection
  <1>6. s \in Surjection(1..n, S)
    BY <1>4, <1>5, FS_Injection
  <1>7. ToSet(s) = S
    BY <1>3, <1>6 DEF ToSet, Surjection
  <1>8. s \in Seq(S)
    BY <1>1, <1>3
  <1> QED BY <1>3, <1>7, <1>8 DEF s

\* A set of numbers has a least one,
LEMMA NatMin == ASSUME NEW T \in SUBSET Nat, T # {} PROVE \E n \in T : \A m \in T : n <= m
  <1> DEFINE R == OpToRel(<, Nat)
  <1>1. IsWellFoundedOn(R, Nat)
    BY NatLessThanWellFounded
  <1>2. R = {ss \in Nat \X Nat : ss[1] < ss[2]}
    BY DEF OpToRel
  <1> HIDE DEF R
  <1>3. PICK x \in T : \A y \in T : ~(<<y, x>> \in R)
    BY <1>1, WFMin, Zenon
  <1>4. ASSUME NEW m \in T PROVE x <= m
    <2>1. <<m, x>> \notin R
      BY <1>3
    <2>2. m < x => <<m, x>> \in R
      BY <1>2
    <2> QED BY <2>1, <2>2
  <1> QED BY <1>4

\* and a set of numbers up to k a greatest.
LEMMA UpToMax ==
    ASSUME NEW k \in Nat, NEW T \in SUBSET (1..k), T # {}
    PROVE  \E n \in T : \A m \in T : m <= n
  <1> DEFINE U == {k - n : n \in T}
  <1>1. U \in SUBSET Nat /\ U # {}
    <2>1. \A n \in T : k - n \in Nat
      OBVIOUS
    <2> QED BY <2>1
  <1>2. PICK u \in U : \A v \in U : u <= v
    BY <1>1, NatMin
  <1>3. PICK n \in T : u = k - n
    BY <1>2
  <1>4. ASSUME NEW m \in T PROVE m <= n
    <2>1. k - m \in U
      OBVIOUS
    <2>2. k - n <= k - m
      BY <1>2, <1>3, <2>1
    <2> QED BY <2>2
  <1> QED BY <1>3, <1>4

\* What an entry adds to the ips of a line.
AddIps(p, ips) == ips \o SetToSeq(ToSet(EntryOf[p].ips) \ ToSet(ips))

\* No ip comes to be twice on the line, and all are on it.
LEMMA AddFacts ==
    ASSUME NEW p \in Pushers, NEW ips \in Seq(Text)
    PROVE  /\ AddIps(p, ips) \in Seq(Text)
           /\ IsInjective(ips) => IsInjective(AddIps(p, ips))
           /\ ToSet(AddIps(p, ips)) = ToSet(ips) \cup ToSet(EntryOf[p].ips)
  <1> DEFINE S == ToSet(EntryOf[p].ips) \ ToSet(ips)
             new == SetToSeq(S)
             all == ips \o new
  <1>1. IsFiniteSet(S)
    <2>1. IsFiniteSet(ToSet(EntryOf[p].ips))
      BY HistoryAssumption, FiniteElements
    <2> QED BY <2>1, FS_Subset
  <1>2. S \subseteq Text
    <2>1. EntryOf[p].ips \in Seq(Text)
      BY HistoryAssumption
    <2> QED BY <2>1 DEF ToSet
  <1> HIDE DEF S
  <1>3. new \in Seq(S) /\ IsInjective(new) /\ ToSet(new) = S
    BY <1>1, OrderFacts
  <1> HIDE DEF new
  <1>4. new \in Seq(Text)
    BY <1>2, <1>3
  <1>5. /\ all \in Seq(Text) /\ Len(all) = Len(ips) + Len(new) /\ DOMAIN all = 1..Len(all)
        /\ DOMAIN ips = 1..Len(ips) /\ DOMAIN new = 1..Len(new)
        /\ Len(ips) \in Nat /\ Len(new) \in Nat
        /\ \A i \in 1..Len(ips) : all[i] = ips[i]
        /\ \A i \in (Len(ips) + 1)..(Len(ips) + Len(new)) : all[i] = new[i - Len(ips)]
    BY <1>4
  <1> HIDE DEF all
  <1>6. /\ \A i \in DOMAIN all : \/ i \in DOMAIN ips /\ all[i] = ips[i]
                                 \/ i - Len(ips) \in DOMAIN new /\ all[i] = new[i - Len(ips)]
        /\ \A i \in DOMAIN ips : i \in DOMAIN all /\ all[i] = ips[i]
        /\ \A i \in DOMAIN new : i + Len(ips) \in DOMAIN all /\ all[i + Len(ips)] = new[i]
    <2>1. ASSUME NEW i \in DOMAIN all
          PROVE  \/ i \in DOMAIN ips /\ all[i] = ips[i]
                 \/ i - Len(ips) \in DOMAIN new /\ all[i] = new[i - Len(ips)]
      BY <1>5, <2>1
    <2>2. ASSUME NEW i \in DOMAIN ips PROVE i \in DOMAIN all /\ all[i] = ips[i]
      BY <1>5, <2>2
    <2>3. ASSUME NEW i \in DOMAIN new
          PROVE  i + Len(ips) \in DOMAIN all /\ all[i + Len(ips)] = new[i]
      <3> DEFINE k == i + Len(ips)
      <3>1. k \in (Len(ips) + 1)..(Len(ips) + Len(new)) /\ k - Len(ips) = i /\ k \in 1..Len(all)
        BY <1>5, <2>3
      <3> HIDE DEF k
      <3>2. k \in DOMAIN all /\ all[k] = new[i]
        BY <1>5, <3>1
      <3> QED BY <3>2 DEF k
    <2> QED BY <2>1, <2>2, <2>3
  <1>7. ToSet(all) = ToSet(ips) \cup ToSet(new)
    <2>1. /\ \A i \in DOMAIN ips : ips[i] \in ToSet(all)
          /\ \A i \in DOMAIN new : new[i] \in ToSet(all)
      <3>1. \A i \in DOMAIN all : all[i] \in ToSet(all)
        BY DEF ToSet
      <3> QED BY <1>6, <3>1
    <2>2. ASSUME NEW i \in DOMAIN all PROVE all[i] \in ToSet(ips) \cup ToSet(new)
      BY <1>6, <2>2, Zenon DEF ToSet
    <2>3. ToSet(all) \subseteq ToSet(ips) \cup ToSet(new)
      BY <2>2, Zenon DEF ToSet
    <2>4. ToSet(ips) \subseteq ToSet(all) /\ ToSet(new) \subseteq ToSet(all)
      BY <2>1, Zenon DEF ToSet
    <2> QED BY <2>3, <2>4
  <1>8. \A i \in DOMAIN ips, j \in DOMAIN new : ips[i] # new[j]
    BY <1>3 DEF ToSet, S
  <1>9. IsInjective(ips) => IsInjective(all)
    <2> SUFFICES ASSUME IsInjective(ips), NEW i \in DOMAIN all, NEW j \in DOMAIN all, all[i] = all[j] PROVE i = j
      BY DEF IsInjective
    <2>1. CASE i \in DOMAIN ips /\ all[i] = ips[i]
      <3>1. j \in DOMAIN ips /\ all[j] = ips[j]
        BY <1>6, <1>8, <2>1
      <3> QED BY <2>1, <3>1 DEF IsInjective
    <2>2. CASE i - Len(ips) \in DOMAIN new /\ all[i] = new[i - Len(ips)]
      <3>1. j - Len(ips) \in DOMAIN new /\ all[j] = new[j - Len(ips)]
        BY <1>6, <1>8, <2>2
      <3>2. i - Len(ips) = j - Len(ips)
        BY <1>3, <2>2, <3>1 DEF IsInjective
      <3> QED BY <1>5, <3>2
    <2> QED BY <1>6, <2>1, <2>2
  <1>10. ToSet(ips) \cup S = ToSet(ips) \cup ToSet(EntryOf[p].ips)
    BY DEF S
  <1>11. AddIps(p, ips) = all
    BY DEF AddIps, all, new, S
  <1> QED BY <1>3, <1>5, <1>7, <1>9, <1>10, <1>11
-----------------------------------------------------------------------------
(* Lines: what reading, a merge, the line limit and an interrupted write do *)
(* to them.                                                                 *)

\* What lines read back as: as many lines, which agree on each domain's ips; lines
\* that do so already read back as they are.
LEMMA ReadingFacts ==
    ASSUME NEW lines \in Seq(Line)
    PROVE  /\ Reading(lines) \in Seq(Line) /\ Uniform(Reading(lines))
           /\ Uniform(lines) => Reading(lines) = lines
           /\ Tidy(lines) => Uniform(lines)
  <1> DEFINE L(i) == LastOf(lines, lines[i].domain)
             r == Reading(lines)
  <1>1. DOMAIN lines = 1..Len(lines) /\ Len(lines) \in Nat
        /\ \A i \in DOMAIN lines : lines[i] \in Line
    OBVIOUS
  <1>2. ASSUME NEW i \in DOMAIN lines
        PROVE  L(i) \in DOMAIN lines /\ lines[L(i)].domain = lines[i].domain
    <2> DEFINE T == {j \in DOMAIN lines : lines[j].domain = lines[i].domain}
    <2>1. T \in SUBSET (1..Len(lines)) /\ T # {}
      BY <1>1, <1>2
    <2>2. PICK n \in T : \A m \in T : m <= n
      BY <1>1, <2>1, UpToMax
    <2>3. \E n2 \in DOMAIN lines :
             /\ lines[n2].domain = lines[i].domain
             /\ \A j \in DOMAIN lines : lines[j].domain = lines[i].domain => j <= n2
      BY <2>2
    <2> QED BY <2>3 DEF LastOf
  <1>3. ASSUME NEW i \in DOMAIN lines, NEW j \in DOMAIN lines, lines[i].domain = lines[j].domain
        PROVE  L(i) = L(j)
    BY <1>3
  <1> HIDE DEF L
  <1>4. DOMAIN r = DOMAIN lines /\ \A i \in DOMAIN lines : r[i] = lines[L(i)]
    BY DEF Reading, L
  <1>5. r \in Seq(Line)
    <2>1. r \in [1..Len(lines) -> Line]
      BY <1>1, <1>2, <1>4 DEF Reading, L
    <2> QED BY <1>1, <2>1
  <1>6. Uniform(r)
    BY <1>2, <1>3, <1>4 DEF Uniform
  <1>7. ASSUME Uniform(lines) PROVE r = lines
    <2>1. \A i \in DOMAIN lines : r[i] = lines[i]
      BY <1>2, <1>4, <1>7 DEF Uniform
    <2> QED BY <1>4, <1>5, <2>1
  <1>8. Tidy(lines) => Uniform(lines)
    BY DEF Tidy, Uniform
  <1> QED BY <1>5, <1>6, <1>7, <1>8

\* A merge keeps what is recorded, records the entry, and keeps the lines uniform
\* and tidy.
LEMMA MergeFacts ==
    ASSUME NEW lines \in Seq(Line), Uniform(lines), NEW p \in Pushers
    PROVE  /\ MergeEntry(lines, p) \in Seq(Line) /\ Uniform(MergeEntry(lines, p))
           /\ Tidy(lines) => Tidy(MergeEntry(lines, p))
           /\ Holds(MergeEntry(lines, p), p)
           /\ \A q \in Pushers : Holds(lines, q) => Holds(MergeEntry(lines, p), q)
  <1> DEFINE d == EntryOf[p].domain
             m == MergeEntry(lines, p)
  <1>1. DOMAIN lines = 1..Len(lines) /\ Len(lines) \in Nat /\ d \in Text
    BY HistoryAssumption
  <1>2. \A i \in DOMAIN lines : /\ lines[i] \in Line /\ lines[i].ips \in Seq(Text)
                                /\ lines[i].domain \in Text
    <2>1. \A i \in DOMAIN lines : lines[i] \in Line
      OBVIOUS
    <2> QED BY <2>1 DEF Line
  <1>3. CASE \A i \in DOMAIN lines : lines[i].domain # d
    <2> DEFINE new == [domain |-> d, ips |-> AddIps(p, <<>>)]
    <2>1. m = Append(lines, new)
      BY <1>3 DEF MergeEntry, AddIps
    <2>2. <<>> \in Seq(Text) /\ IsInjective(<<>>) /\ ToSet(<<>>) = {}
      BY DEF IsInjective, ToSet
    <2>3. /\ AddIps(p, <<>>) \in Seq(Text) /\ IsInjective(AddIps(p, <<>>))
          /\ ToSet(EntryOf[p].ips) \subseteq ToSet(AddIps(p, <<>>))
      BY <2>2, AddFacts
    <2>4. /\ new \in Line /\ new.domain = d /\ IsInjective(new.ips)
          /\ ToSet(EntryOf[p].ips) \subseteq ToSet(new.ips)
      BY <1>1, <2>3 DEF Line
    <2> HIDE DEF new, m
    <2>5. /\ m \in Seq(Line) /\ DOMAIN m = 1..(Len(lines) + 1)
          /\ \A i \in DOMAIN lines : m[i] = lines[i] /\ i \in DOMAIN m
          /\ m[Len(lines) + 1] = new /\ Len(lines) + 1 \in DOMAIN m
      BY <1>1, <2>1, <2>4
    <2>6. \A i \in DOMAIN m : i \in DOMAIN lines \/ i = Len(lines) + 1
      BY <1>1, <2>5
    <2>7. Uniform(m)
      BY <1>3, <2>4, <2>5, <2>6 DEF Uniform
    <2>8. Tidy(lines) => Tidy(m)
      BY <1>3, <2>4, <2>5, <2>6 DEF Tidy
    <2>9. Holds(m, p)
      BY <2>4, <2>5 DEF Holds
    <2>10. ASSUME NEW q \in Pushers, Holds(lines, q) PROVE Holds(m, q)
      BY <2>5, <2>10 DEF Holds
    <2> QED BY <2>5, <2>7, <2>8, <2>9, <2>10 DEF m
  <1>4. CASE ~(\A i \in DOMAIN lines : lines[i].domain # d)
    <2> DEFINE new(i) == AddIps(p, lines[i].ips)
    <2>1. m = [i \in DOMAIN lines |->
                 IF lines[i].domain = d THEN [lines[i] EXCEPT !.ips = new(i)] ELSE lines[i]]
      BY <1>4 DEF MergeEntry, AddIps
    <2>2. \A i \in DOMAIN lines :
             /\ new(i) \in Seq(Text) /\ (IsInjective(lines[i].ips) => IsInjective(new(i)))
             /\ ToSet(new(i)) = ToSet(lines[i].ips) \cup ToSet(EntryOf[p].ips)
      BY <1>2, AddFacts
    <2>3. \A i, j \in DOMAIN lines : lines[i] = lines[j] => new(i) = new(j)
      OBVIOUS
    <2> HIDE DEF new, m
    <2>4. /\ DOMAIN m = DOMAIN lines
          /\ \A i \in DOMAIN lines : m[i] = IF lines[i].domain = d
                                            THEN [lines[i] EXCEPT !.ips = new(i)] ELSE lines[i]
      BY <2>1
    <2>5. \A i \in DOMAIN lines :
             /\ m[i] \in Line /\ m[i].domain = lines[i].domain
             /\ m[i].ips = IF lines[i].domain = d THEN new(i) ELSE lines[i].ips
      BY <1>2, <2>2, <2>4 DEF Line
    <2>6. m \in Seq(Line)
      <3>1. m \in [1..Len(lines) -> Line]
        BY <1>1, <2>1, <2>4, <2>5
      <3> QED BY <1>1, <3>1
    <2>7. Uniform(m)
      <3> SUFFICES ASSUME NEW i \in DOMAIN lines, NEW j \in DOMAIN lines,
                          m[i].domain = m[j].domain
                   PROVE  m[i] = m[j]
        BY <2>4 DEF Uniform
      <3>1. lines[i] = lines[j]
        BY <2>5 DEF Uniform
      <3> QED BY <2>3, <2>4, <3>1
    <2>8. ASSUME Tidy(lines) PROVE Tidy(m)
      <3>1. \A i \in DOMAIN m : IsInjective(m[i].ips)
        BY <2>2, <2>4, <2>5, <2>8 DEF Tidy
      <3> QED BY <2>4, <2>5, <2>8, <3>1 DEF Tidy
    <2>9. Holds(m, p)
      <3>1. PICK k \in DOMAIN lines : lines[k].domain = d
        BY <1>4
      <3>2. m[k].domain = EntryOf[p].domain /\ ToSet(EntryOf[p].ips) \subseteq ToSet(m[k].ips)
        BY <2>2, <2>5, <3>1
      <3> QED BY <2>4, <3>1, <3>2 DEF Holds
    <2>10. ASSUME NEW q \in Pushers, Holds(lines, q) PROVE Holds(m, q)
      <3>1. PICK i \in DOMAIN lines : /\ lines[i].domain = EntryOf[q].domain
                                      /\ ToSet(EntryOf[q].ips) \subseteq ToSet(lines[i].ips)
        BY <2>10 DEF Holds
      <3>2. ToSet(lines[i].ips) \subseteq ToSet(m[i].ips)
        BY <2>2, <2>5
      <3>3. m[i].domain = EntryOf[q].domain /\ ToSet(EntryOf[q].ips) \subseteq ToSet(m[i].ips)
        BY <2>5, <3>1, <3>2
      <3> QED BY <2>4, <3>3 DEF Holds
    <2> QED BY <2>6, <2>7, <2>8, <2>9, <2>10 DEF m
  <1> QED BY <1>3, <1>4

\* Consecutive lines of uniform ones are uniform, of tidy ones tidy.
LEMMA CutFacts ==
    ASSUME NEW lines \in Seq(Line), NEW a \in 1..(Len(lines) + 1),
           NEW b \in 0..Len(lines), a <= b + 1
    PROVE  /\ SubSeq(lines, a, b) \in Seq(Line) /\ Len(SubSeq(lines, a, b)) = b - a + 1
           /\ \A i \in DOMAIN SubSeq(lines, a, b) :
                 /\ i \in 1..(b - a + 1)
                 /\ a + i - 1 \in DOMAIN lines /\ SubSeq(lines, a, b)[i] = lines[a + i - 1]
           /\ Uniform(lines) => Uniform(SubSeq(lines, a, b))
           /\ Tidy(lines) => Tidy(SubSeq(lines, a, b))
  <1> DEFINE c == SubSeq(lines, a, b)
  <1>1. /\ c \in Seq(Line) /\ Len(c) = b - a + 1 /\ DOMAIN c = 1..(b - a + 1)
        /\ \A i \in 1..(b - a + 1) : c[i] = lines[a + i - 1]
    OBVIOUS
  <1> HIDE DEF c
  <1>2. ASSUME NEW i \in DOMAIN c
        PROVE  /\ i \in 1..(b - a + 1)
               /\ a + i - 1 \in DOMAIN lines /\ c[i] = lines[a + i - 1]
    <2>1. i \in 1..(b - a + 1)
      BY <1>1, <1>2
    <2>2. a + i - 1 \in 1..Len(lines) /\ DOMAIN lines = 1..Len(lines)
      BY <2>1
    <2> QED BY <1>1, <2>1, <2>2
  <1>3. \A i, j \in DOMAIN c : a + i - 1 = a + j - 1 => i = j
    <2>1. \A i, j \in 1..(b - a + 1) : a + i - 1 = a + j - 1 => i = j
      OBVIOUS
    <2> QED BY <1>1, <2>1
  <1>4. Uniform(lines) => Uniform(c)
    BY <1>2 DEF Uniform
  <1>5. Tidy(lines) => Tidy(c)
    BY <1>2, <1>3 DEF Tidy
  <1> QED BY <1>1, <1>2, <1>4, <1>5 DEF c

\* The line limit leaves uniform or tidy lines, as many as the file may hold; with
\* one line per domain it takes nothing that another line needs.
LEMMA KeptFacts ==
    ASSUME NEW lines \in Seq(Line), Uniform(lines)
    PROVE  /\ Kept(lines) \in Seq(Line) /\ Uniform(Kept(lines)) /\ Len(Kept(lines)) <= Lines
           /\ Tidy(lines) => Tidy(Kept(lines)) /\ ~Panics(lines)
  <1>1. Len(lines) \in Nat /\ Lines \in Nat
    BY HistoryAssumption
  <1>2. CASE Len(lines) > Lines
    <2> DEFINE n == Len(lines) - Lines
               a == n + 1
               b == Len(lines)
    <2>1. /\ a \in 1..(Len(lines) + 1) /\ b \in 0..Len(lines) /\ a <= b + 1 /\ b - a + 1 = Lines
          /\ 1 \in 1..(Len(lines) + 1) /\ n \in 0..Len(lines) /\ 1 <= n + 1 /\ n - 1 + 1 = n
          /\ \A i \in 1..n, j \in 1..Lines : 1 + i - 1 # a + j - 1
      BY <1>1, <1>2
    <2>2. Kept(lines) = SubSeq(lines, a, b) /\ Gone(lines) = SubSeq(lines, 1, n)
      BY <1>2 DEF Kept, Gone
    <2> HIDE DEF n, a, b
    <2>3. /\ Kept(lines) \in Seq(Line) /\ Uniform(Kept(lines)) /\ Len(Kept(lines)) = Lines
          /\ Tidy(lines) => Tidy(Kept(lines))
      BY <2>1, <2>2, CutFacts
    <2>4. \A j \in DOMAIN Kept(lines) :
             j \in 1..Lines /\ a + j - 1 \in DOMAIN lines /\ Kept(lines)[j] = lines[a + j - 1]
      BY <2>1, <2>2, CutFacts
    <2>5. \A i \in DOMAIN Gone(lines) :
             i \in 1..n /\ 1 + i - 1 \in DOMAIN lines /\ Gone(lines)[i] = lines[1 + i - 1]
      BY <2>1, <2>2, CutFacts
    <2>6. ASSUME Tidy(lines) PROVE ~Panics(lines)
      <3> SUFFICES ASSUME NEW i \in DOMAIN Gone(lines), NEW j \in DOMAIN Kept(lines),
                          Gone(lines)[i].domain = Kept(lines)[j].domain
                   PROVE  FALSE
        BY DEF Panics, Domains
      <3>1. 1 + i - 1 = a + j - 1
        BY <2>4, <2>5, <2>6 DEF Tidy
      <3> QED BY <2>1, <2>4, <2>5, <3>1
    <2> QED BY <1>1, <2>3, <2>6
  <1>3. CASE ~(Len(lines) > Lines)
    <2>1. Kept(lines) = lines /\ Gone(lines) = <<>>
      BY <1>3 DEF Kept, Gone
    <2> QED BY <1>1, <1>3, <2>1 DEF Panics, Domains
  <1> QED BY <1>2, <1>3

\* Some first lines of tidy ones are tidy.
LEMMA PrefixFacts ==
    ASSUME NEW lines \in Seq(Line), NEW out \in Prefixes(lines)
    PROVE  out \in Seq(Line) /\ Len(out) <= Len(lines) /\ (Tidy(lines) => Tidy(out))
  <1>1. PICK n \in 0..Len(lines) : out = SubSeq(lines, 1, n)
    BY DEF Prefixes
  <1>2. /\ Len(lines) \in Nat /\ 1 \in 1..(Len(lines) + 1) /\ 1 <= n + 1 /\ n - 1 + 1 = n
    BY <1>1
  <1> QED BY <1>1, <1>2, CutFacts

\* A piece of a text is a text, and a piece of a line reads as a line.
LEMMA TornFacts == ASSUME NEW line \in Line, NEW torn \in TornLines(line) PROVE torn \in Line
  <1>1. line.domain \in Text /\ line.ips \in Seq(Text)
    BY DEF Line
  <1>2. ASSUME NEW text \in Text, NEW cut \in Cuts(text) PROVE cut \in Text
    <2>1. PICK n \in 0..Len(text) : cut = SubSeq(text, 1, n) /\ cut # <<>>
      BY DEF Cuts, Prefixes
    <2>2. text \in Seq(Symbols)
      BY DEF Text
    <2>3. cut \in Seq(Symbols)
      BY <2>1, <2>2
    <2> QED BY <2>1, <2>3 DEF Text
  <1>3. CASE \E cut \in Cuts(line.domain) : torn = [domain |-> cut, ips |-> <<>>]
    <2>1. <<>> \in Seq(Text)
      OBVIOUS
    <2> QED BY <1>1, <1>2, <1>3, <2>1 DEF Line
  <1>4. CASE \E k \in DOMAIN line.ips : \E cut \in Cuts(line.ips[k]) :
                torn = [domain |-> line.domain, ips |-> Append(SubSeq(line.ips, 1, k - 1), cut)]
    <2>0. PICK k \in DOMAIN line.ips : \E cut \in Cuts(line.ips[k]) :
             torn = [domain |-> line.domain, ips |-> Append(SubSeq(line.ips, 1, k - 1), cut)]
      BY <1>4
    <2>1. PICK cut \in Cuts(line.ips[k]) :
             torn = [domain |-> line.domain, ips |-> Append(SubSeq(line.ips, 1, k - 1), cut)]
      BY <2>0
    <2>2. line.ips[k] \in Text /\ k - 1 \in 0..Len(line.ips)
      BY <1>1
    <2>3. cut \in Text /\ SubSeq(line.ips, 1, k - 1) \in Seq(Text)
      BY <1>1, <1>2, <2>1, <2>2
    <2>4. Append(SubSeq(line.ips, 1, k - 1), cut) \in Seq(Text)
      BY <2>3
    <2> QED BY <1>1, <2>1, <2>4 DEF Line
  <1> QED BY <1>3, <1>4 DEF TornLines

\* A write that is cut short leaves no more lines than it was to write, and tidy ones
\* unless one of them is torn.
LEMMA InterruptedFacts ==
    ASSUME HistoryTyped, TidyLines, NEW f \in Flushes, NEW out \in Interrupted(f)
    PROVE  /\ out \in Seq(Line) /\ Len(out) <= Lines
           /\ "torn" \notin faults \cup Torn(f, out) => Tidy(out)
  <1> DEFINE lines == flush[f].lines
  <1>1. /\ lines \in Seq(Line) /\ Lines \in Nat /\ Good(flush[f], file, faults)
        /\ file \in Seq(Line)
    BY HistoryAssumption DEF HistoryTyped, TidyLines
  <1>2. CASE At(f, "writing")
    <2>1. Len(lines) <= Lines /\ Len(lines) \in Nat /\ ("torn" \notin faults => Tidy(lines))
      BY <1>1, <1>2 DEF At, Good, Bounding
    <2>2. out \in CutLines(lines)
      BY <1>2 DEF Interrupted
    <2> HIDE DEF lines
    <2>3. CASE out \in Prefixes(lines)
      <3>1. out \in Seq(Line) /\ Len(out) <= Len(lines) /\ (Tidy(lines) => Tidy(out))
        BY <1>1, <2>3, PrefixFacts
      <3> QED BY <1>1, <2>1, <3>1
    <2>4. CASE out \notin Prefixes(lines)
      <3>0. PICK i \in DOMAIN lines : \E torn \in TornLines(lines[i]) :
               out = Append(SubSeq(lines, 1, i - 1), torn)
        BY <2>2, <2>4 DEF CutLines
      <3>1. PICK torn \in TornLines(lines[i]) : out = Append(SubSeq(lines, 1, i - 1), torn)
        BY <3>0
      <3>2. lines[i] \in Line /\ i \in 1..Len(lines)
        BY <1>1
      <3>3. torn \in Line
        BY <3>1, <3>2, TornFacts
      <3>4. SubSeq(lines, 1, i - 1) \in Seq(Line) /\ Len(SubSeq(lines, 1, i - 1)) = i - 1
        BY <1>1, <3>2
      <3>5. out \in Seq(Line) /\ Len(out) = i
        BY <3>1, <3>2, <3>3, <3>4
      <3>6. "torn" \in Torn(f, out)
        BY <1>2, <2>4 DEF Torn, lines
      <3> QED BY <1>1, <2>1, <3>2, <3>5, <3>6
    <2> QED BY <2>3, <2>4
  <1>3. CASE ~At(f, "writing")
    <2>1. out = file
      BY <1>3 DEF Interrupted
    <2> QED BY <1>1, <2>1 DEF Good
  <1> QED BY <1>2, <1>3
-----------------------------------------------------------------------------
(* Steps of one flush, while there is no other.                             *)

FlushState == [stage : Stages, batch : Seq(Pushers), lines : Seq(Line)]
Alone(f) == \A g \in Flushes \ {f} : flush[g].stage = "off"
Returned(p) == push[p] \in {"done", "ignored", "gone"}

\* With r the only flush, qs queued and out in the file, push p's entry is safe.
Safe(r, qs, out, p) ==
    \/ p \in ToSet(qs)
    \/ p \in ToSet(r.batch)
    \/ IF r.stage \in Imaged THEN Holds(r.lines, p) ELSE Holds(out, p)

\* A flush that has nothing.
LEMMA OffFacts ==
    ASSUME NEW s \in Stages
    PROVE  /\ [Off EXCEPT !.stage = s] \in FlushState /\ [Off EXCEPT !.stage = s].stage = s
           /\ [Off EXCEPT !.stage = s].batch = <<>> /\ [Off EXCEPT !.stage = s].lines = <<>>
  <1>1. [Off EXCEPT !.stage = s] = [stage |-> s, batch |-> <<>>, lines |-> <<>>]
    BY DEF Off
  <1>2. <<>> \in Seq(Pushers) /\ <<>> \in Seq(Line)
    OBVIOUS
  <1> QED BY <1>1, <1>2 DEF FlushState

\* It comes to the same as what the invariant says of all flushes.
LEMMA OnlyFlush ==
    ASSUME NEW fl \in [Flushes -> FlushState], NEW qs, NEW out, NEW p, NEW f \in Flushes,
           \A g \in Flushes \ {f} : fl[g].stage = "off" /\ fl[g].batch = <<>>
    PROVE  SafeIn(fl, qs, out, p) <=> Safe(fl[f], qs, out, p)
  <1>1. \A g \in Flushes \ {f} : fl[g].stage \notin Imaged /\ p \notin ToSet(fl[g].batch)
    BY DEF Imaged, ToSet
  <1> QED BY <1>1 DEF SafeIn, Safe

\* A flush without lines, and an empty file.
LEMMA NoLines ==
    ASSUME NEW r, r.lines = <<>>
    PROVE  /\ \A out, fs : Good(r, out, fs) <=>
                 /\ Len(out) <= Lines /\ ("torn" \notin fs => Tidy(out) /\ "panic" \notin fs)
           /\ Tidy(<<>>) /\ Len(<<>>) <= Lines
           /\ Good(r, <<>>, {})
  <1>1. Uniform(<<>>) /\ Tidy(<<>>) /\ Len(<<>>) = 0 /\ Lines \in Nat
    BY HistoryAssumption DEF Uniform, Tidy
  <1> QED BY <1>1 DEF Good

\* A flush under way is the only one; that of close, after all pushes.
LEMMA Active ==
    ASSUME HistoryInv, NEW f \in Flushes, flush[f].stage \notin {"off", "closed"}
    PROVE  /\ Alone(f) /\ flush[f] \in FlushState
           /\ flushing \in BOOLEAN /\ (flushing <=> f = "task")
           /\ f = "close" => \A p \in Pushers : Returned(p)
           /\ f = "close" /\ flush[f].stage # "start" => queue = <<>>
           /\ flush[f].stage \notin Merging => flush[f].batch = <<>>
  BY DEF HistoryInv, HistoryTyped, OneFlush, BatchMerged, Alone, Returned, At, Flushes, FlushState

\* The only flush goes from its state to r, and maybe a push goes on.
LEMMA StepInv ==
    ASSUME HistoryInv, NEW f \in Flushes, Alone(f),
           NEW r \in FlushState, flush' = [flush EXCEPT ![f] = r],
           r.stage = "closed" => f = "close",
           flushing' \in BOOLEAN, flushing' <=> f = "task" /\ r.stage # "off",
           push' \in [Pushers -> PushStates], queue' \in Seq(Pushers), file' \in Seq(Line),
           f = "close" => \A p \in Pushers : Returned(p)',
           f = "close" /\ r.stage \notin {"off", "start"} => queue' = <<>>,
           r.stage \notin Merging => r.batch = <<>>,
           Good(r, file', faults'),
           faults \subseteq faults', evicted \subseteq evicted',
           Unharmed' => \A p \in Pushers \ evicted' :
               Accepted(p)' /\ (Accepted(p) => Safe(flush[f], queue, Reading(file), p))
                   => Safe(r, queue', Reading(file'), p)
    PROVE  HistoryInv'
  <1>1. /\ HistoryTyped /\ OneFlush /\ BatchMerged /\ NoneLost /\ TidyLines
        /\ flush \in [Flushes -> FlushState]
    BY DEF HistoryInv, HistoryTyped, FlushState
  <1>2. flush' \in [Flushes -> FlushState] /\ flush'[f] = r
        /\ \A g \in Flushes \ {f} : flush'[g] = flush[g]
    BY <1>1
  <1>3. HistoryTyped'
    BY <1>2 DEF HistoryTyped, FlushState
  <1>4. OneFlush'
    <2>1. CASE f = "task"
      <3>1. flush'["close"].stage = "off" /\ flush'["task"] = r
        BY <1>2, <2>1 DEF Alone, Flushes
      <3> QED BY <2>1, <3>1 DEF OneFlush, At
    <2>2. CASE f = "close"
      <3>1. flush'["task"].stage = "off" /\ flush'["close"] = r
        BY <1>2, <2>2 DEF Alone, Flushes
      <3> QED BY <2>2, <3>1 DEF OneFlush, At, Returned
    <2> QED BY <2>1, <2>2 DEF Flushes
  <1>5. BatchMerged'
    BY <1>1, <1>2 DEF BatchMerged
  <1>6. TidyLines'
    <2>1. ASSUME NEW g \in Flushes \ {f} PROVE Good(flush'[g], file', faults')
      <3>1. /\ flush[g].stage = "off" /\ flush'[g] = flush[g] /\ Good(flush[g], file, faults)
            /\ flush[f] \in FlushState
        BY <1>1, <1>2, <2>1 DEF Alone, TidyLines
      <3> QED BY <3>1 DEF Good, Bounding
    <2> QED BY <1>2, <2>1 DEF TidyLines
  <1>7. \A g \in Flushes \ {f} : flush[g].stage = "off" /\ flush[g].batch = <<>>
    BY <1>1 DEF Alone, BatchMerged, Merging
  <1>8. NoneLost'
    <2>0. Unharmed' => Unharmed
      BY DEF Unharmed
    <2> SUFFICES ASSUME Unharmed', NEW p \in Pushers \ evicted', Accepted(p)'
                 PROVE  SafeIn(flush', queue', Reading(file'), p)
      BY DEF NoneLost
    <2>1. Accepted(p) => SafeIn(flush, queue, Reading(file), p)
      BY <1>1, <2>0 DEF NoneLost
    <2>2. Accepted(p) => Safe(flush[f], queue, Reading(file), p)
      BY <1>1, <1>7, <2>1, OnlyFlush
    <2>3. Safe(r, queue', Reading(file'), p)
      BY <2>2
    <2>4. \A g \in Flushes \ {f} : flush'[g].stage = "off" /\ flush'[g].batch = <<>>
      BY <1>2, <1>7
    <2> QED BY <1>2, <2>3, <2>4, OnlyFlush
  <1> QED BY <1>3, <1>4, <1>5, <1>6, <1>8 DEF HistoryInv
-----------------------------------------------------------------------------
(* Every step keeps the invariant.                                          *)

\* Initially there is nothing to lose.
LEMMA HistoryInit == Init => HistoryInv
  <1> SUFFICES ASSUME Init PROVE HistoryInv
    OBVIOUS
  <1>1. /\ push = [p \in Pushers |-> "new"] /\ queue = <<>> /\ flushing = FALSE
        /\ flush = [f \in Flushes |-> Off] /\ file = <<>> /\ faults = {}
    BY DEF Init
  <1>2. Off \in FlushState /\ Off.stage = "off" /\ Off.batch = <<>> /\ Off.lines = <<>>
    <2>1. <<>> \in Seq(Pushers) /\ <<>> \in Seq(Line)
      OBVIOUS
    <2> QED BY <2>1 DEF Off, FlushState, Stages
  <1>3. flush \in [Flushes -> FlushState] /\ \A f \in Flushes : flush[f] = Off
    BY <1>1, <1>2
  <1>4. HistoryTyped
    <2>1. <<>> \in Seq(Pushers) /\ <<>> \in Seq(Line)
      OBVIOUS
    <2> QED BY <1>1, <1>3, <2>1 DEF HistoryTyped, FlushState, PushStates
  <1>5. OneFlush /\ BatchMerged /\ NoneLost
    BY <1>1, <1>2, <1>3 DEF OneFlush, BatchMerged, NoneLost, Accepted, At, Flushes
  <1>6. Good(Off, <<>>, {})
    BY <1>2, NoLines
  <1>7. TidyLines
    BY <1>1, <1>3, <1>6 DEF TidyLines
  <1> QED BY <1>4, <1>5, <1>7 DEF HistoryInv

\* A push that goes on without queueing its entry, and may spawn the flush task.
LEMMA PushInv ==
    ASSUME HistoryInv, NEW p \in Pushers, push[p] \in {"new", "pushing", "pushed"},
           NEW s \in PushStates, push' = [push EXCEPT ![p] = s],
           s \in {"pushed", "done"} => push[p] = "pushed",
           try_spawn_flush \/ UNCHANGED <<flushing, flush>>,
           UNCHANGED <<queue, file, evicted, faults>>
    PROVE  HistoryInv'
  <1> DEFINE r == flush'["task"]
  <1>1. /\ HistoryTyped /\ OneFlush /\ BatchMerged /\ TidyLines
        /\ flush \in [Flushes -> FlushState] /\ "task" \in Flushes
    BY DEF HistoryInv, HistoryTyped, FlushState, Flushes
  <1>2. Alone("task")
    BY <1>1 DEF OneFlush, At, Alone, Flushes
  <1>3. push' \in [Pushers -> PushStates] /\ \A q \in Pushers : Accepted(q)' => Accepted(q)
    BY <1>1 DEF HistoryTyped, Accepted
  <1>6. /\ queue' \in Seq(Pushers) /\ file' \in Seq(Line) /\ Good(flush["task"], file', faults')
        /\ faults \subseteq faults' /\ evicted \subseteq evicted'
    BY <1>1 DEF HistoryTyped, TidyLines
  <1>4. CASE UNCHANGED <<flushing, flush>>
    <2>1. r = flush["task"] /\ flush' = [flush EXCEPT !["task"] = r]
      BY <1>1, <1>4
    <2> HIDE DEF r
    <2>2. /\ r \in FlushState /\ r.stage # "closed" /\ (flushing' <=> r.stage # "off")
          /\ flushing' \in BOOLEAN
          /\ r.stage \notin Merging => r.batch = <<>>
          /\ Good(r, file', faults')
      <3>1. flushing' \in BOOLEAN /\ (flushing' <=> r.stage # "off") /\ r.stage # "closed"
        BY <1>1, <1>4, <2>1 DEF OneFlush, At, HistoryTyped
      <3> QED BY <1>1, <1>6, <2>1, <3>1 DEF BatchMerged
    <2>3. \A q \in Pushers : Safe(flush["task"], queue, Reading(file), q) => Safe(r, queue', Reading(file'), q)
      BY <2>1
    <2> QED BY <1>1, <1>2, <1>3, <1>6, <2>1, <2>2, <2>3, StepInv
  <1>5. CASE ~flushing /\ try_spawn_flush
    <2>1. r = [Off EXCEPT !.stage = "start"] /\ flush' = [flush EXCEPT !["task"] = r] /\ flushing'
      BY <1>1, <1>5 DEF try_spawn_flush
    <2> HIDE DEF r
    <2>2. r \in FlushState /\ r.stage = "start" /\ r.batch = <<>> /\ r.lines = <<>>
      BY <2>1, OffFacts DEF Stages
    <2>3. Good(r, file', faults')
      <3>1. /\ Len(file') <= Lines
            /\ "torn" \notin faults' => Tidy(file') /\ "panic" \notin faults'
        BY <1>6 DEF Good
      <3> QED BY <2>2, <3>1, NoLines
    <2>4. flush["task"].stage = "off" /\ flush["task"].batch = <<>>
      BY <1>1, <1>5 DEF OneFlush, At, BatchMerged, Merging
    <2>5. \A q \in Pushers : Safe(flush["task"], queue, Reading(file), q) => Safe(r, queue', Reading(file'), q)
      BY <2>2, <2>4 DEF Safe, Imaged
    <2>6. flushing' \in BOOLEAN /\ (flushing' <=> r.stage # "off")
      BY <1>5, <2>1, <2>2 DEF try_spawn_flush
    <2>7. r.stage # "closed" /\ (r.stage \notin Merging => r.batch = <<>>)
      BY <2>2
    <2>8. r \in FlushState
      BY <2>2
    <2> QED BY <1>1, <1>2, <1>3, <1>6, <2>1, <2>3, <2>5, <2>6, <2>7, <2>8, StepInv
  <1> QED BY <1>4, <1>5 DEF try_spawn_flush

\* The entry is queued.
LEMMA EnqueueInv ==
    ASSUME HistoryInv, NEW t \in Threads, NEW p \in Pushers, Enqueue(t, p) PROVE HistoryInv'
  <1> DEFINE r == flush["task"]
  <1>1. /\ HistoryTyped /\ OneFlush /\ BatchMerged /\ TidyLines
        /\ flush \in [Flushes -> FlushState] /\ "task" \in Flushes
    BY DEF HistoryInv, HistoryTyped, FlushState, Flushes
  <1>2. /\ push[p] = "pushing" /\ push' = [push EXCEPT ![p] = "pushed"]
        /\ queue' = Append(queue, p) /\ UNCHANGED <<flushing, flush, file, evicted, faults>>
    BY DEF Enqueue
  <1>3. Alone("task")
    BY <1>1, <1>2 DEF OneFlush, At, Alone, Flushes
  <1>4. /\ push' \in [Pushers -> PushStates]
        /\ \A q \in Pushers : Accepted(q)' => Accepted(q) \/ q = p
    BY <1>1, <1>2 DEF HistoryTyped, Accepted, PushStates
  <1>5. queue' \in Seq(Pushers) /\ ToSet(queue') = ToSet(queue) \cup {p}
    BY <1>1, <1>2, SetFacts DEF HistoryTyped
  <1>6. /\ r \in FlushState /\ r.stage # "closed"
        /\ flushing' \in BOOLEAN /\ (flushing' <=> r.stage # "off")
        /\ r.stage \notin Merging => r.batch = <<>>
        /\ Good(r, file', faults') /\ flush' = [flush EXCEPT !["task"] = r]
    <2>1. flushing' \in BOOLEAN /\ (flushing' <=> r.stage # "off") /\ r.stage # "closed"
      BY <1>1, <1>2 DEF OneFlush, At, HistoryTyped
    <2> QED BY <1>1, <1>2, <2>1 DEF BatchMerged, TidyLines
  <1>7. \A q \in Pushers :
           Accepted(q)' /\ (Accepted(q) => Safe(r, queue, Reading(file), q)) => Safe(r, queue', Reading(file'), q)
    BY <1>2, <1>4, <1>5 DEF Safe
  <1> HIDE DEF r
  <1> QED BY <1>1, <1>2, <1>3, <1>4, <1>5, <1>6, <1>7, StepInv DEF HistoryTyped, TidyLines, r

\* Every step of push_many.
LEMMA PushStepInv == ASSUME HistoryInv, PushStep PROVE HistoryInv'
  <1>1. PICK t \in Threads, p \in Pushers :
           Enter(t, p) \/ Ignore(t, p) \/ Enqueue(t, p) \/ Spin(t, p) \/ Return(t, p)
    BY DEF PushStep
  <1>2. push \in [Pushers -> PushStates]
    BY DEF HistoryInv, HistoryTyped
  <1>3. CASE Enter(t, p)
    BY <1>3, PushInv DEF Enter, PushStates
  <1>4. CASE Ignore(t, p)
    BY <1>4, PushInv DEF Ignore, Leave, PushStates
  <1>5. CASE Spin(t, p)
    <2>1. push[p] = "pushing" /\ push' = [push EXCEPT ![p] = "pushing"]
      BY <1>2, <1>5 DEF Spin
    <2> QED BY <1>5, <2>1, PushInv DEF Spin, PushStates
  <1>6. CASE Return(t, p)
    BY <1>6, PushInv DEF Return, Leave, PushStates
  <1> QED BY <1>1, <1>3, <1>4, <1>5, <1>6, EnqueueInv
\* A step of the flush under way to r, which leaves pushes and queue alone.
LEMMA FlushInv ==
    ASSUME HistoryInv, NEW f \in Flushes, flush[f].stage \notin {"off", "start", "closed"},
           NEW r \in FlushState, flush' = [flush EXCEPT ![f] = r],
           r.stage \notin {"off", "start", "closed"},
           r.stage \notin Merging => r.batch = <<>>,
           UNCHANGED <<push, queue, flushing>>,
           file' \in Seq(Line), Good(r, file', faults'),
           faults \subseteq faults', evicted \subseteq evicted',
           Unharmed' => \A p \in Pushers \ evicted' :
               Accepted(p) /\ Safe(flush[f], queue, Reading(file), p) => Safe(r, queue, Reading(file'), p)
    PROVE  HistoryInv'
  <1>1. /\ Alone(f) /\ flushing \in BOOLEAN /\ (flushing <=> f = "task")
        /\ f = "close" => \A p \in Pushers : Returned(p)
        /\ f = "close" => queue = <<>>
    BY Active
  <1>2. push' \in [Pushers -> PushStates] /\ queue' \in Seq(Pushers)
    BY DEF HistoryInv, HistoryTyped
  <1>3. \A p \in Pushers : (Accepted(p)' <=> Accepted(p)) /\ (Returned(p)' <=> Returned(p))
    BY DEF Accepted, Returned
  <1>4. flushing' \in BOOLEAN /\ (flushing' <=> f = "task" /\ r.stage # "off")
    BY <1>1
  <1>5. Unharmed' => \A p \in Pushers \ evicted' :
            Accepted(p)' /\ (Accepted(p) => Safe(flush[f], queue, Reading(file), p))
                => Safe(r, queue', Reading(file'), p)
    BY <1>3
  <1>6. /\ f = "close" => \A p \in Pushers : Returned(p)'
        /\ f = "close" /\ r.stage \notin {"off", "start"} => queue' = <<>>
        /\ r.stage = "closed" => f = "close"
    BY <1>1, <1>3
  <1> QED BY <1>1, <1>2, <1>4, <1>5, <1>6, StepInv

\* Entries go from the queue to the batch.
LEMMA PopInv == ASSUME HistoryInv, NEW f \in Flushes, Pop(f) PROVE HistoryInv'
  <1> DEFINE r == [flush[f] EXCEPT !.batch = Append(@, Head(queue))]
  <1>1. /\ flush[f].stage = "start" /\ queue # <<>> /\ queue' = Tail(queue)
        /\ flush' = [flush EXCEPT ![f] = r]
        /\ UNCHANGED <<push, flushing, file, evicted, faults>>
    BY DEF Pop, At
  <1>2. /\ Alone(f) /\ flush[f] \in FlushState
        /\ flushing \in BOOLEAN /\ (flushing <=> f = "task")
        /\ f = "close" => \A p \in Pushers : Returned(p)
    BY <1>1, Active
  <1>3. /\ queue \in Seq(Pushers) /\ push \in [Pushers -> PushStates] /\ file \in Seq(Line)
        /\ Good(flush[f], file, faults)
    BY DEF HistoryInv, HistoryTyped, TidyLines
  <1>4. /\ Head(queue) \in Pushers /\ Tail(queue) \in Seq(Pushers)
        /\ ToSet(queue) = {Head(queue)} \cup ToSet(Tail(queue))
    BY <1>1, <1>3, SetFacts
  <1>5. flush[f].batch \in Seq(Pushers)
    BY <1>2 DEF FlushState
  <1>6. /\ Append(flush[f].batch, Head(queue)) \in Seq(Pushers)
        /\ ToSet(Append(flush[f].batch, Head(queue))) = ToSet(flush[f].batch) \cup {Head(queue)}
    BY <1>4, <1>5, SetFacts
  <1>7. /\ r \in FlushState /\ r.stage = "start" /\ r.lines = flush[f].lines
        /\ r.batch = Append(flush[f].batch, Head(queue))
    BY <1>1, <1>2, <1>6 DEF FlushState
  <1> HIDE DEF r
  <1>8. \A p \in Pushers :
           /\ (Accepted(p)' <=> Accepted(p)) /\ (Returned(p)' <=> Returned(p))
           /\ Safe(flush[f], queue, Reading(file), p) => Safe(r, queue', Reading(file'), p)
    BY <1>1, <1>4, <1>6, <1>7 DEF Accepted, Returned, Safe, Imaged
  <1>9. /\ r.stage \notin Merging => r.batch = <<>>
        /\ Good(r, file', faults')
        /\ f = "close" /\ r.stage \notin {"off", "start"} => queue' = <<>>
        /\ r.stage = "closed" => f = "close"
        /\ flushing' \in BOOLEAN /\ (flushing' <=> f = "task" /\ r.stage # "off")
    BY <1>1, <1>2, <1>3, <1>7 DEF Merging, Good, Bounding
  <1>10. /\ faults \subseteq faults' /\ evicted \subseteq evicted' /\ push' \in [Pushers -> PushStates]
         /\ queue' \in Seq(Pushers) /\ file' \in Seq(Line)
    BY <1>1, <1>3, <1>4, <1>7
  <1>11. /\ f = "close" => \A p \in Pushers : Returned(p)'
         /\ Unharmed' => \A p \in Pushers \ evicted' :
               Accepted(p)' /\ (Accepted(p) => Safe(flush[f], queue, Reading(file), p))
                   => Safe(r, queue', Reading(file'), p)
    BY <1>2, <1>8
  <1> QED BY <1>1, <1>2, <1>7, <1>9, <1>10, <1>11, StepInv

\* The queue is empty: on with the batch, if there is one.
LEMMA DrainedInv == ASSUME HistoryInv, NEW f \in Flushes, Drained(f) PROVE HistoryInv'
  <1> DEFINE s == IF flush[f].batch = <<>> THEN "end" ELSE "read"
             r == [flush[f] EXCEPT !.stage = s]
  <1>1. /\ flush[f].stage = "start" /\ queue = <<>> /\ flush' = [flush EXCEPT ![f] = r]
        /\ UNCHANGED <<push, queue, flushing, file, evicted, faults>>
    BY DEF Drained, At, Goto
  <1>2. /\ Alone(f) /\ flush[f] \in FlushState
        /\ flushing \in BOOLEAN /\ (flushing <=> f = "task")
        /\ f = "close" => \A p \in Pushers : Returned(p)
    BY <1>1, Active
  <1>3. /\ queue \in Seq(Pushers) /\ push \in [Pushers -> PushStates] /\ file \in Seq(Line)
        /\ Good(flush[f], file, faults)
    BY DEF HistoryInv, HistoryTyped, TidyLines
  <1>4. /\ r \in FlushState /\ r.stage = s /\ r.lines = flush[f].lines
        /\ r.batch = flush[f].batch
    BY <1>2 DEF FlushState, Stages
  <1> HIDE DEF r
  <1>5. \A p \in Pushers :
           /\ (Accepted(p)' <=> Accepted(p)) /\ (Returned(p)' <=> Returned(p))
           /\ Safe(flush[f], queue, Reading(file), p) => Safe(r, queue', Reading(file'), p)
    BY <1>1, <1>4 DEF Accepted, Returned, Safe, Imaged
  <1>6. /\ r.stage \notin Merging => r.batch = <<>>
        /\ Good(r, file', faults')
        /\ f = "close" /\ r.stage \notin {"off", "start"} => queue' = <<>>
        /\ r.stage = "closed" => f = "close"
        /\ flushing' \in BOOLEAN /\ (flushing' <=> f = "task" /\ r.stage # "off")
    BY <1>1, <1>2, <1>3, <1>4 DEF Merging, Good, Bounding
  <1>7. /\ faults \subseteq faults' /\ evicted \subseteq evicted' /\ push' \in [Pushers -> PushStates]
        /\ queue' \in Seq(Pushers) /\ file' \in Seq(Line)
    BY <1>1, <1>3, <1>4
  <1>8. /\ f = "close" => \A p \in Pushers : Returned(p)'
        /\ Unharmed' => \A p \in Pushers \ evicted' :
              Accepted(p)' /\ (Accepted(p) => Safe(flush[f], queue, Reading(file), p))
                  => Safe(r, queue', Reading(file'), p)
    BY <1>2, <1>5
  <1> QED BY <1>1, <1>2, <1>4, <1>6, <1>7, <1>8, StepInv
\* What a flush under way and the file are like.
LEMMA Given ==
    ASSUME HistoryInv, NEW f \in Flushes
    PROVE  /\ flush[f] \in FlushState /\ flush[f].lines \in Seq(Line)
           /\ flush[f].batch \in Seq(Pushers)
           /\ file \in Seq(Line) /\ Good(flush[f], file, faults)
           /\ flush[f].stage \notin Merging => flush[f].batch = <<>>
  BY DEF HistoryInv, HistoryTyped, TidyLines, BatchMerged, FlushState

\* The lines of the file, or none if it cannot be read.
LEMMA ReadInv == ASSUME HistoryInv, NEW f \in Flushes, Read(f) PROVE HistoryInv'
  <1>1. /\ flush[f].stage = "read" /\ UNCHANGED <<push, queue, flushing, file, evicted>>
    BY DEF Read, At
  <1>2. PICK lines \in {Reading(file), <<>>} :
           /\ flush' = [flush EXCEPT ![f] = [@ EXCEPT !.lines = lines, !.stage = "merge"]]
           /\ (lines = Reading(file) /\ faults' = faults) \/ faults' = faults \cup {"io"}
    BY DEF Read
  <1> DEFINE r == [flush[f] EXCEPT !.lines = lines, !.stage = "merge"]
  <1>3. lines \in Seq(Line) /\ Uniform(lines) /\ (Tidy(file) => Tidy(lines))
    <2>1. <<>> \in Seq(Line) /\ Tidy(<<>>) /\ Uniform(<<>>)
      BY DEF Tidy, Uniform
    <2>2. /\ Reading(file) \in Seq(Line) /\ Uniform(Reading(file))
          /\ Tidy(file) => Tidy(Reading(file))
      BY Given, ReadingFacts
    <2> QED BY <1>2, <2>1, <2>2
  <1>4. /\ r \in FlushState /\ r.stage = "merge" /\ r.lines = lines /\ r.batch = flush[f].batch
    BY <1>3, Given DEF FlushState, Stages
  <1>5. flush' = [flush EXCEPT ![f] = r]
    BY <1>2
  <1> HIDE DEF r
  <1>6. Unharmed' => \A p \in Pushers \ evicted' :
            Accepted(p) /\ Safe(flush[f], queue, Reading(file), p) => Safe(r, queue, Reading(file'), p)
    <2>1. Unharmed' => lines = Reading(file)
      BY <1>2 DEF Unharmed
    <2> QED BY <1>1, <1>4, <2>1 DEF Safe, Imaged
  <1>7. r.stage \in Merging /\ r.stage \notin {"off", "start", "closed"} \cup Bounding
    BY <1>4 DEF Merging, Bounding
  <1>8. faults \subseteq faults' /\ evicted \subseteq evicted'
    BY <1>1, <1>2
  <1>9. file' \in Seq(Line) /\ Good(r, file', faults')
    <2>1. file \in Seq(Line) /\ Good(flush[f], file, faults)
      BY Given
    <2>2. ("torn" \in faults' <=> "torn" \in faults) /\ ("panic" \in faults' <=> "panic" \in faults)
      BY <1>2
    <2> QED BY <1>1, <1>3, <1>4, <1>7, <2>1, <2>2 DEF Good
  <1> QED BY <1>1, <1>4, <1>5, <1>6, <1>7, <1>8, <1>9, FlushInv

\* One entry of the batch is merged: it is recorded then, and so is all that was.
LEMMA MergeInv == ASSUME HistoryInv, NEW f \in Flushes, Merge(f) PROVE HistoryInv'
  <1> DEFINE b == flush[f].batch
             lines == MergeEntry(flush[f].lines, Head(b))
             r == [flush[f] EXCEPT !.lines = lines, !.batch = Tail(b)]
  <1>1. /\ flush[f].stage = "merge" /\ b # <<>> /\ flush' = [flush EXCEPT ![f] = r]
        /\ UNCHANGED <<push, queue, flushing, file, evicted, faults>>
    BY DEF Merge, At
  <1>2. /\ Head(b) \in Pushers /\ Tail(b) \in Seq(Pushers)
        /\ ToSet(b) = {Head(b)} \cup ToSet(Tail(b))
    BY <1>1, Given, SetFacts
  <1>3. /\ lines \in Seq(Line) /\ Uniform(lines) /\ Holds(lines, Head(b))
        /\ Tidy(flush[f].lines) => Tidy(lines)
        /\ \A q \in Pushers : Holds(flush[f].lines, q) => Holds(lines, q)
    BY <1>2, Given, MergeFacts DEF Good
  <1> HIDE DEF lines
  <1>4. /\ r \in FlushState /\ r.stage = "merge" /\ r.lines = lines /\ r.batch = Tail(b)
    BY <1>1, <1>2, <1>3, Given DEF FlushState
  <1> HIDE DEF r
  <1>5. \A p \in Pushers : Safe(flush[f], queue, Reading(file), p) => Safe(r, queue, Reading(file'), p)
    BY <1>1, <1>2, <1>3, <1>4 DEF Safe, Imaged
  <1>6. r.stage \in Merging /\ r.stage \notin {"off", "start", "closed"} \cup Bounding
    BY <1>4 DEF Merging, Bounding
  <1>7. /\ file' \in Seq(Line) /\ Good(r, file', faults')
        /\ faults \subseteq faults' /\ evicted \subseteq evicted'
    <2>1. file \in Seq(Line) /\ Good(flush[f], file, faults)
      BY Given
    <2> QED BY <1>1, <1>3, <1>4, <1>6, <2>1 DEF Good
  <1> QED BY <1>1, <1>4, <1>5, <1>6, <1>7, FlushInv

\* The line limit: what goes is counted as evicted.
LEMMA EvictInv == ASSUME HistoryInv, NEW f \in Flushes, Evict(f) PROVE HistoryInv'
  <1> DEFINE all == flush[f].lines
             kept == Kept(all)
             r == [flush[f] EXCEPT !.lines = kept, !.stage = "create"]
  <1>1. /\ flush[f].stage = "merge" /\ flush[f].batch = <<>> /\ flush' = [flush EXCEPT ![f] = r]
        /\ evicted' = evicted \cup {p \in Pushers : /\ Accepted(p) /\ p \notin ToSet(queue)
                                                    /\ Holds(all, p) /\ ~Holds(kept, p)}
        /\ UNCHANGED <<push, queue, flushing, file, faults>>
    BY DEF Evict, At
  <1>2. /\ kept \in Seq(Line) /\ Uniform(kept) /\ Len(kept) <= Lines
        /\ Tidy(all) => Tidy(kept)
    BY Given, KeptFacts DEF Good
  <1> HIDE DEF kept
  <1>3. /\ r \in FlushState /\ r.stage = "create" /\ r.lines = kept /\ r.batch = <<>>
    BY <1>1, <1>2, Given DEF FlushState, Stages
  <1> HIDE DEF r
  <1>4. ASSUME NEW p \in Pushers \ evicted', Accepted(p), Safe(flush[f], queue, Reading(file), p)
        PROVE  Safe(r, queue, Reading(file'), p)
    <2>1. p \in ToSet(queue) \/ Holds(all, p)
      BY <1>1, <1>4 DEF Safe, Imaged, ToSet
    <2>2. p \in ToSet(queue) \/ Holds(kept, p)
      BY <1>1, <1>4, <2>1
    <2> QED BY <1>3, <2>2 DEF Safe, Imaged
  <1>5. /\ r.stage \notin {"off", "start", "closed"}
        /\ r.stage \notin Merging => r.batch = <<>>
    BY <1>2, <1>3
  <1>6. /\ file' \in Seq(Line) /\ Good(r, file', faults')
        /\ faults \subseteq faults' /\ evicted \subseteq evicted'
    <2>1. file \in Seq(Line) /\ Good(flush[f], file, faults)
      BY Given
    <2> QED BY <1>1, <1>2, <1>3, <2>1 DEF Good
  <1> QED BY <1>1, <1>3, <1>4, <1>5, <1>6, FlushInv

\* The file is truncated and written: what is recorded is in the lines meanwhile.
LEMMA WriteInv ==
    ASSUME HistoryInv, NEW f \in Flushes, Create(f) \/ Write(f) \/ Written(f) PROVE HistoryInv'
  <1>1. PICK s \in {"write", "writing", "end"} : flush' = [flush EXCEPT ![f].stage = s]
                                               /\ (s = "end" => file' = flush[f].lines)
                                               /\ (s = "end" => flush[f].stage = "writing")
    BY DEF Create, Write, Written, Goto, At
  <1>2. /\ flush[f].stage \in {"create", "write", "writing"}
        /\ UNCHANGED <<push, queue, flushing, evicted, faults>>
        /\ file' \in {file, <<>>, flush[f].lines}
    BY DEF Create, Write, Written, At
  <1> DEFINE r == [flush[f] EXCEPT !.stage = s]
  <1>3. flush' = [flush EXCEPT ![f] = r]
    BY <1>1
  <1>4. r \in FlushState /\ r.stage = s /\ r.lines = flush[f].lines /\ r.batch = flush[f].batch
    BY Given DEF FlushState, Stages
  <1> HIDE DEF r
  <1>5. Len(r.lines) <= Lines /\ r.lines \in Seq(Line) /\ Good(flush[f], file, faults)
    BY <1>2, <1>4, Given DEF Good, Bounding
  <1>6. file' \in Seq(Line) /\ Good(r, file', faults')
    <2>1. <<>> \in Seq(Line) /\ Tidy(<<>>) /\ Len(<<>>) <= Lines
      BY HistoryAssumption DEF Tidy
    <2>2. file \in Seq(Line)
      BY Given
    <2> QED BY <1>2, <1>4, <1>5, <2>1, <2>2 DEF Good
  <1>7. ASSUME NEW p \in Pushers, Safe(flush[f], queue, Reading(file), p)
        PROVE  Safe(r, queue, Reading(file'), p)
    <2>1. Reading(r.lines) = r.lines
      BY <1>4, <1>5, ReadingFacts DEF Good
    <2>2. p \in ToSet(queue) \/ p \in ToSet(r.batch) \/ Holds(r.lines, p)
      BY <1>2, <1>4, <1>7 DEF Safe, Imaged
    <2>3. r.stage = "end" => Reading(file') = r.lines
      BY <1>1, <1>4, <2>1
    <2> QED BY <1>1, <1>4, <2>2, <2>3 DEF Safe, Imaged
  <1>8. r.batch = <<>> /\ r.stage \notin {"off", "start", "closed"}
    BY <1>2, <1>4, Given DEF Merging
  <1>9. faults \subseteq faults' /\ evicted \subseteq evicted'
    BY <1>2
  <1> QED BY <1>2, <1>3, <1>4, <1>5, <1>6, <1>7, <1>8, <1>9, FlushInv

\* A file operation fails.
LEMMA IoErrorInv == ASSUME HistoryInv, NEW f \in Flushes, IoError(f) PROVE HistoryInv'
  <1> DEFINE r == [flush[f] EXCEPT !.stage = "end"]
  <1>1. /\ flush[f].stage \in {"create", "writing"} /\ flush' = [flush EXCEPT ![f] = r]
        /\ faults' = faults \cup {"io"} \cup Torn(f, file') /\ file' \in Interrupted(f)
        /\ UNCHANGED <<push, queue, flushing, evicted>>
    BY DEF IoError, Goto
  <1>2. r \in FlushState /\ r.stage = "end" /\ r.lines = flush[f].lines /\ r.batch = flush[f].batch
    BY Given DEF FlushState, Stages
  <1> HIDE DEF r
  <1>3. /\ file' \in Seq(Line) /\ Len(file') <= Lines
        /\ "torn" \notin faults \cup Torn(f, file') => Tidy(file')
    BY <1>1, InterruptedFacts DEF HistoryInv
  <1>4. r.batch = <<>> /\ r.stage \notin {"off", "start", "closed"} \cup Bounding
    BY <1>1, <1>2, Given DEF Merging, Bounding
  <1>5. faults \subseteq faults' /\ evicted \subseteq evicted' /\ ~Unharmed'
    BY <1>1 DEF Unharmed
  <1>6. Good(r, file', faults')
    <2>1. Good(flush[f], file, faults)
      BY Given
    <2>2. "panic" \in faults' => "panic" \in faults
      BY <1>1 DEF Torn
    <2> QED BY <1>1, <1>2, <1>3, <1>4, <2>1, <2>2 DEF Good
  <1> QED BY <1>1, <1>2, <1>3, <1>4, <1>5, <1>6, FlushInv

\* A flush ends; that of close for good.
LEMMA EndInv == ASSUME HistoryInv, NEW f \in Flushes, End(f) PROVE HistoryInv'
  <1> DEFINE s == IF f = "close" THEN "closed" ELSE "off"
             r == [Off EXCEPT !.stage = s]
  <1>1. Off = [Off EXCEPT !.stage = "off"]
    BY DEF Off
  <1>2. /\ flush[f].stage = "end" /\ flush' = [flush EXCEPT ![f] = r]
        /\ flushing' = (IF f = "task" THEN FALSE ELSE flushing)
        /\ UNCHANGED <<push, queue, file, evicted, faults>>
    BY <1>1 DEF End, At
  <1>3. /\ Alone(f) /\ flushing \in BOOLEAN /\ (flushing <=> f = "task")
        /\ f = "close" => \A p \in Pushers : Returned(p)
        /\ f = "close" => queue = <<>>
        /\ flush[f].batch = <<>>
    BY <1>2, Active DEF Merging
  <1>4. r \in FlushState /\ r.stage = s /\ r.batch = <<>> /\ r.lines = <<>>
    BY OffFacts DEF Stages
  <1> HIDE DEF r
  <1>5. \A p \in Pushers :
           /\ (Accepted(p)' <=> Accepted(p)) /\ (Returned(p)' <=> Returned(p))
           /\ Safe(flush[f], queue, Reading(file), p) => Safe(r, queue', Reading(file'), p)
    BY <1>2, <1>3, <1>4 DEF Accepted, Returned, Safe, Imaged
  <1>6. /\ r.stage = "closed" => f = "close"
        /\ flushing' \in BOOLEAN /\ (flushing' <=> f = "task" /\ r.stage # "off")
        /\ f = "close" => queue' = <<>>
    BY <1>2, <1>3, <1>4 DEF Flushes
  <1>7. /\ faults \subseteq faults' /\ evicted \subseteq evicted' /\ push' \in [Pushers -> PushStates]
        /\ queue' \in Seq(Pushers) /\ file' \in Seq(Line)
    BY <1>2 DEF HistoryInv, HistoryTyped
  <1>8. Good(r, file', faults')
    <2>1. Good(flush[f], file, faults)
      BY Given
    <2>2. Len(file) <= Lines /\ ("torn" \notin faults => Tidy(file) /\ "panic" \notin faults)
      BY <2>1 DEF Good
    <2> QED BY <1>2, <1>4, <2>2, NoLines
  <1>9. /\ f = "close" => \A p \in Pushers : Returned(p)'
        /\ Unharmed' => \A p \in Pushers \ evicted' :
              Accepted(p)' /\ (Accepted(p) => Safe(flush[f], queue, Reading(file), p))
                  => Safe(r, queue', Reading(file'), p)
    BY <1>3, <1>5
  <1> QED BY <1>2, <1>3, <1>4, <1>6, <1>7, <1>8, <1>9, StepInv

\* close begins, after all pushes, when the flag is down.
LEMMA CloseInv == ASSUME HistoryInv, Close PROVE HistoryInv'
  <1> DEFINE f == "close"
             r == [flush[f] EXCEPT !.stage = "start"]
  <1>1. /\ flush[f].stage = "off" /\ flush' = [flush EXCEPT ![f] = r] /\ f \in Flushes
        /\ ~flushing /\ \A p \in Pushers : Returned(p)
        /\ UNCHANGED <<push, queue, flushing, file, evicted, faults>>
    BY DEF Close, At, Goto, Returned, Flushes
  <1>2. flush["task"].stage = "off" /\ flushing \in BOOLEAN
    BY <1>1 DEF HistoryInv, OneFlush, At, HistoryTyped
  <1>3. Alone(f)
    BY <1>2 DEF Alone, Flushes
  <1>4. flush[f].batch = <<>>
    BY <1>1, Given DEF Merging
  <1>5. r \in FlushState /\ r.stage = "start" /\ r.batch = <<>> /\ r.lines = flush[f].lines
    BY <1>1, <1>4, Given DEF FlushState, Stages
  <1> HIDE DEF r
  <1>6. \A p \in Pushers :
           /\ (Accepted(p)' <=> Accepted(p)) /\ (Returned(p)' <=> Returned(p))
           /\ Safe(flush[f], queue, Reading(file), p) => Safe(r, queue', Reading(file'), p)
    BY <1>1, <1>4, <1>5 DEF Accepted, Returned, Safe, Imaged
  <1>7. /\ faults \subseteq faults' /\ evicted \subseteq evicted' /\ push' \in [Pushers -> PushStates]
        /\ queue' \in Seq(Pushers) /\ file' \in Seq(Line)
    BY <1>1 DEF HistoryInv, HistoryTyped
  <1>8. /\ Good(r, file', faults') /\ r.stage # "closed"
        /\ flushing' \in BOOLEAN /\ (flushing' <=> f = "task" /\ r.stage # "off")
    BY <1>1, <1>2, <1>5, Given DEF Good, Bounding
  <1>9. /\ \A p \in Pushers : Returned(p)'
        /\ Unharmed' => \A p \in Pushers \ evicted' :
              Accepted(p)' /\ (Accepted(p) => Safe(flush[f], queue, Reading(file), p))
                  => Safe(r, queue', Reading(file'), p)
    BY <1>1, <1>6
  <1> QED BY <1>1, <1>3, <1>5, <1>7, <1>8, <1>9, StepInv

\* The process dies with all it has accepted, and what is left in the file is good.
LEMMA RestartInv ==
    ASSUME HistoryInv, Restarted, file' \in Seq(Line), Len(file') <= Lines,
           "torn" \notin faults' => Tidy(file') /\ "panic" \notin faults'
    PROVE  HistoryInv'
  <1>1. /\ push' = [p \in Pushers |-> IF push[p] = "new" THEN "new" ELSE "gone"]
        /\ queue' = <<>> /\ flushing' = FALSE /\ flush' = [f \in Flushes |-> Off]
    BY DEF Restarted
  <1>2. <<>> \in Seq(Pushers) /\ <<>> \in Seq(Line)
    OBVIOUS
  <1>3. Off \in FlushState /\ Off.stage = "off" /\ Off.batch = <<>> /\ Off.lines = <<>>
    BY <1>2 DEF Off, FlushState, Stages
  <1>4. flush' \in [Flushes -> FlushState] /\ \A f \in Flushes : flush'[f] = Off
    BY <1>1, <1>3
  <1>5. HistoryTyped'
    BY <1>1, <1>2, <1>4 DEF HistoryTyped, FlushState, PushStates
  <1>6. OneFlush' /\ BatchMerged'
    BY <1>1, <1>3, <1>4 DEF OneFlush, BatchMerged, At, Flushes
  <1>7. NoneLost'
    BY <1>1 DEF NoneLost, Accepted
  <1>8. Good(Off, file', faults')
    BY <1>3, NoLines
  <1>9. TidyLines'
    BY <1>4, <1>8 DEF TidyLines
  <1> QED BY <1>5, <1>6, <1>7, <1>9 DEF HistoryInv

\* A crash, also while the file is being written.
LEMMA CrashInv == ASSUME HistoryInv, Crash PROVE HistoryInv'
  <1>1. PICK f \in Flushes : /\ file' \in Interrupted(f) /\ Restarted
                             /\ faults' = faults \cup {"crash"} \cup Torn(f, file')
    BY DEF Crash
  <1>2. /\ file' \in Seq(Line) /\ Len(file') <= Lines
        /\ "torn" \notin faults \cup Torn(f, file') => Tidy(file')
    BY <1>1, InterruptedFacts DEF HistoryInv
  <1>3. "panic" \in faults' => "panic" \in faults
    BY <1>1 DEF Torn
  <1>4. "torn" \notin faults => "panic" \notin faults
    BY <1>1, Given DEF Good
  <1> QED BY <1>1, <1>2, <1>3, <1>4, RestartInv

\* A panic: some line was torn, or each domain would have one line.
LEMMA PanicInv == ASSUME HistoryInv, NEW f \in Flushes, Panic(f) PROVE HistoryInv'
  <1>1. /\ flush[f].stage = "merge" /\ flush[f].batch = <<>> /\ Panics(flush[f].lines)
        /\ faults' = faults \cup {"panic"} /\ UNCHANGED <<file, evicted>>
    BY DEF Panic, At
  <1>2. file \in Seq(Line) /\ Good(flush[f], file, faults) /\ flush[f] \in FlushState
    BY Given
  <1>3. "torn" \in faults
    <2>1. ~Tidy(flush[f].lines)
      BY <1>1, <1>2, Given, KeptFacts DEF Good
    <2> QED BY <1>2, <2>1 DEF Good
  <1>4. CASE Restarted
    BY <1>1, <1>2, <1>3, <1>4, RestartInv DEF Good
  <1>5. CASE Goto(f, "panicked") /\ UNCHANGED <<push, thread, queue, flushing>>
    <2> DEFINE r == [flush[f] EXCEPT !.stage = "panicked"]
    <2>1. flush' = [flush EXCEPT ![f] = r]
      BY <1>5 DEF Goto
    <2>2. r \in FlushState /\ r.stage = "panicked" /\ r.lines = flush[f].lines /\ r.batch = <<>>
      BY <1>1, <1>2 DEF FlushState, Stages
    <2> HIDE DEF r
    <2>3. Good(r, file', faults')
      BY <1>1, <1>2, <1>3, <2>2 DEF Good, Bounding
    <2>4. faults \subseteq faults' /\ evicted \subseteq evicted' /\ ~Unharmed'
      BY <1>1 DEF Unharmed
    <2> QED BY <1>1, <1>2, <1>5, <2>1, <2>2, <2>3, <2>4, FlushInv
  <1> QED BY <1>4, <1>5 DEF Panic

\* So every step keeps the invariant.
LEMMA HistoryNext == HistoryInv /\ [Next]_vars => HistoryInv'
  <1> SUFFICES ASSUME HistoryInv, [Next]_vars PROVE HistoryInv'
    OBVIOUS
  <1>1. ASSUME NEW f \in Flushes, FlushStep(f) \/ IoError(f) PROVE HistoryInv'
    BY <1>1, PopInv, DrainedInv, ReadInv, MergeInv, EvictInv, PanicInv, WriteInv, EndInv,
       IoErrorInv
       DEF FlushStep
  <1>2. CASE UNCHANGED vars
    BY <1>2 DEF vars, HistoryInv, HistoryTyped, OneFlush, BatchMerged, NoneLost, TidyLines, At,
                Accepted, Unharmed
  <1> QED BY <1>1, <1>2, PushStepInv, CloseInv, CrashInv DEF Next

-----------------------------------------------------------------------------
\* The history's invariant holds in every state.
THEOREM HistoryInvariant == Spec => []HistoryInv
  BY HistoryInit, HistoryNext, PTL DEF Spec

\* However pushes, flushes, close and a crash interleave, an entry that was accepted
\* is queued, in a batch, in the lines about to be written or where the next flush
\* reads it in the file, unless a file operation failed, a flush panicked or the line
\* limit took it (push_many, flush).
THEOREM NothingIsLost == Spec => []NothingLost
  <1>1. HistoryInv => NothingLost
    <2> SUFFICES ASSUME HistoryInv, Unharmed, NEW p \in Pushers \ evicted, Accepted(p)
                 PROVE  \/ p \in ToSet(queue)
                        \/ \E f \in Flushes :
                              \/ p \in ToSet(flush[f].batch)
                              \/ ~At(f, "end") /\ Holds(flush[f].lines, p)
                        \/ Holds(Reading(file), p)
      BY DEF NothingLost
    <2>1. SafeIn(flush, queue, Reading(file), p)
      BY DEF HistoryInv, NoneLost
    <2>2. \A f \in Flushes : flush[f].stage \in Imaged => ~At(f, "end")
      BY DEF Imaged, At
    <2> QED BY <2>1, <2>2 DEF SafeIn
  <1> QED BY <1>1, HistoryInvariant, PTL

\* When close returns, every entry that was accepted is in the file, with the same
\* exceptions (close).
THEOREM CloseLeavesNothing == Spec => []CloseFlushesAll
  <1>1. HistoryInv => CloseFlushesAll
    <2> SUFFICES ASSUME HistoryInv, At("close", "closed"), Unharmed,
                        NEW p \in Pushers \ evicted, Accepted(p)
                 PROVE  Holds(Reading(file), p)
      BY DEF CloseFlushesAll
    <2>1. SafeIn(flush, queue, Reading(file), p)
      BY DEF HistoryInv, NoneLost
    <2>2. queue = <<>> /\ flush["task"].stage = "off" /\ flush["close"].stage = "closed"
      BY DEF HistoryInv, OneFlush, At
    <2>3. \A f \in Flushes : flush[f].stage \in {"off", "closed"}
      BY <2>2 DEF Flushes
    <2>4. \A f \in Flushes : flush[f].batch = <<>> /\ flush[f].stage \notin Imaged
      BY <2>3 DEF HistoryInv, BatchMerged, Merging, Imaged
    <2>5. p \notin ToSet(<<>>)
      BY DEF ToSet
    <2> QED BY <2>1, <2>2, <2>4, <2>5 DEF SafeIn
  <1> QED BY <1>1, HistoryInvariant, PTL

\* The file never has more lines than it may hold; until a write stops in the middle
\* of a line it has one line per domain and no ip twice on a line, over any number of
\* flushes and of writes that stop between two lines, and no flush panics (flush).
THEOREM FileStaysTidy == Spec => []FileTidy
  <1>1. HistoryInv => FileTidy
    <2> SUFFICES ASSUME HistoryInv PROVE FileTidy
      OBVIOUS
    <2>1. Good(flush["task"], file, faults)
      BY Given DEF Flushes
    <2> QED BY <2>1 DEF Good, Tidy, FileTidy
  <1> QED BY <1>1, HistoryInvariant, PTL

=============================================================================
