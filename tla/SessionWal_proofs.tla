---------------------------- MODULE SessionWal_proofs ----------------------------
(***************************************************************************)
(* Theorems about SessionWal, for any number of events, prompts, lines,    *)
(* failures and stops.                                                     *)
(*                                                                         *)
(* What a stop or a repair does to the file is said of the sequence of     *)
(* records a reader finds in it: an append adds one at the end, a repair   *)
(* none, a power loss takes some off the end, and none of those that were  *)
(* synced.  All of it holds until an append follows a torn one through the *)
(* same handle (faults.glued).                                             *)
(***************************************************************************)
EXTENDS SessionWal, Selections_proofs

(***************************************************************************)
(* Lines and records.                                                      *)
(***************************************************************************)

\* Lines made of some records only.
LinesOf(R) == [fragments : Seq([record : R, whole : BOOLEAN]), ended : BOOLEAN]

\* The line a write of r leaves when it began one.
Line(r, whole, ended) == [fragments |-> <<[record |-> r, whole |-> whole]>>, ended |-> ended]

\* What a reader takes of a line (walk_wal).
RecordOf(line) == line.fragments[1].record

\* The lines a reader takes.
ParsedLines == {line \in Lines : Parses(line)}

\* Lines of fewer records are lines of more.
LEMMA FewerLines ==
    ASSUME NEW R, NEW Q, R \subseteq Q
    PROVE  LinesOf(R) \subseteq LinesOf(Q) /\ Seq(LinesOf(R)) \subseteq Seq(LinesOf(Q))
  <1> DEFINE A == [record : R, whole : BOOLEAN]
             B == [record : Q, whole : BOOLEAN]
  <1>1. A \subseteq B
    OBVIOUS
  <1> HIDE DEF A, B
  <1>2. Seq(A) \subseteq Seq(B)
    BY <1>1
  <1>3. LinesOf(R) \subseteq LinesOf(Q)
    BY <1>2 DEF LinesOf, A, B
  <1> DEFINE C == LinesOf(R)
             D == LinesOf(Q)
  <1>4. C \subseteq D
    BY <1>3
  <1> HIDE DEF C, D
  <1>5. Seq(C) \subseteq Seq(D)
    BY <1>4
  <1> QED
    BY <1>4, <1>5 DEF C, D

\* The lines of the module are those of all records.
LEMMA AllLines == Lines = LinesOf(Records)
  BY DEF Lines, LinesOf

\* A record that was written whole parses.
LEMMA LineTypes ==
    ASSUME NEW R, NEW r \in R, NEW w \in BOOLEAN, NEW e \in BOOLEAN
    PROVE  /\ Line(r, w, e) \in LinesOf(R)
           /\ RecordOf(Line(r, w, e)) = r
           /\ Parses(Line(r, w, e)) <=> w
           /\ Line(r, w, e).ended = e
           /\ Len(Line(r, w, e).fragments) = 1
           /\ Line(r, w, e).fragments[1].whole = w
           /\ DOMAIN Line(r, w, e).fragments = {1}
  <1> DEFINE g == [record |-> r, whole |-> w]
             G == [record : R, whole : BOOLEAN]
  <1>1. g \in G /\ g.record = r /\ g.whole = w
    OBVIOUS
  <1>2. Line(r, w, e).fragments = <<g>> /\ Line(r, w, e).ended = e
    BY DEF Line
  <1> HIDE DEF g, G
  <1>3. <<g>> \in Seq(G) /\ Len(<<g>>) = 1 /\ <<g>>[1] = g /\ DOMAIN <<g>> = {1}
    BY <1>1
  <1>4. Line(r, w, e) \in LinesOf(R)
    BY <1>3 DEF Line, LinesOf, g, G
  <1> QED
    BY <1>1, <1>2, <1>3, <1>4 DEF Parses, RecordOf

\* A line that parses has a record of its kind.
LEMMA ParsedRecord ==
    ASSUME NEW R, NEW line \in LinesOf(R), Parses(line)
    PROVE  RecordOf(line) \in R
  <1> DEFINE G == [record : R, whole : BOOLEAN]
             fs == line.fragments
  <1>1. fs \in Seq(G) /\ Len(fs) = 1
    BY DEF LinesOf, Parses
  <1> HIDE DEF G, fs
  <1>2. fs[1] \in G
    BY <1>1
  <1> QED
    BY <1>2 DEF G, fs, RecordOf

\* A line more is a record more if it parses.
LEMMA RecordsAppend ==
    ASSUME NEW R, R \subseteq Records, NEW f \in Seq(LinesOf(R)), NEW line \in LinesOf(R)
    PROVE  /\ RecordsOf(f) \in Seq(R)
           /\ RecordsOf(Append(f, line)) =
                 IF Parses(line) THEN Append(RecordsOf(f), RecordOf(line)) ELSE RecordsOf(f)
  <1> DEFINE S == LinesOf(R)
             p == Select(f, ParsedLines)
             map(s) == [i \in DOMAIN s |-> RecordOf(s[i])]
  <1>1. S \subseteq Lines
    BY FewerLines, AllLines
  <1>2. \A g : RecordsOf(g) = map(Select(g, ParsedLines))
    BY DEF RecordsOf, RecordOf, ParsedLines
  <1>3. \A l \in S : Parses(l) => RecordOf(l) \in R
    BY ParsedRecord
  <1>4. f \in Seq(S) /\ line \in S
    OBVIOUS
  <1> HIDE DEF S, map
  <1>5. /\ p \in Seq(S) /\ ToSet(p) = ToSet(f) \cap ParsedLines
        /\ Select(Append(f, line), ParsedLines) =
              IF line \in ParsedLines THEN Append(p, line) ELSE p
    <2>1. p \in Seq(S) /\ ToSet(p) = ToSet(f) \cap ParsedLines
      BY <1>4, SelectElements
    <2> DEFINE P == ParsedLines
    <2> HIDE DEF P
    <2>2. \A s \in Seq(S), l \in S :
             Select(Append(s, l), P) = IF l \in P THEN Append(Select(s, P), l) ELSE Select(s, P)
      BY SelectAppends, Zenon
    <2>3. Select(Append(f, line), P) = IF line \in P THEN Append(Select(f, P), line) ELSE Select(f, P)
      BY <1>4, <2>2, Zenon
    <2> QED
      BY <2>1, <2>3 DEF P
  <1>6. line \in ParsedLines <=> Parses(line)
    BY <1>1, <1>4 DEF ParsedLines
  <1> HIDE DEF p
  <1>7. \A i \in DOMAIN p : p[i] \in S /\ Parses(p[i])
    BY <1>5 DEF ToSet, ParsedLines
  <1>8. map(p) \in Seq(R)
    <2>1. p \in Seq(S) /\ DOMAIN p = 1 .. Len(p) /\ Len(p) \in Nat
      BY <1>5
    <2>2. \A i \in 1 .. Len(p) : RecordOf(p[i]) \in R
      BY <1>3, <1>7, <2>1
    <2> QED
      BY <2>1, <2>2 DEF map
  <1>9. Parses(line) => map(Append(p, line)) = Append(map(p), RecordOf(line))
    <2> SUFFICES ASSUME Parses(line)
                 PROVE  map(Append(p, line)) = Append(map(p), RecordOf(line))
      OBVIOUS
    <2> DEFINE n == Len(p)
               q == map(p)
               a == map(Append(p, line))
               r == RecordOf(line)
    <2>1. p \in Seq(S) /\ n \in Nat /\ DOMAIN p = 1 .. n /\ r \in R
      BY <1>3, <1>4, <1>5
    <2>2. /\ DOMAIN Append(p, line) = 1 .. n + 1
          /\ \A i \in 1 .. n : Append(p, line)[i] = p[i]
          /\ Append(p, line)[n + 1] = line
      BY <1>4, <2>1
    <2>3. /\ q \in Seq(R) /\ Len(q) = n
          /\ \A i \in 1 .. n : q[i] = RecordOf(p[i])
      BY <1>8, <2>1 DEF map
    <2>4. a = [i \in 1 .. n + 1 |-> RecordOf(Append(p, line)[i])]
      BY <2>2 DEF map
    <2>5. \A i \in 1 .. n + 1 : RecordOf(Append(p, line)[i]) = IF i <= n THEN q[i] ELSE r
      BY <2>1, <2>2, <2>3
    <2>6. a \in Seq(R) /\ Len(a) = n + 1 /\ \A i \in 1 .. n + 1 : a[i] = IF i <= n THEN q[i] ELSE r
      <3>1. \A i \in 1 .. n : q[i] \in R
        BY <2>3
      <3>2. \A i \in 1 .. n + 1 : RecordOf(Append(p, line)[i]) \in R
        BY <2>1, <2>5, <3>1
      <3> HIDE DEF a
      <3> QED
        BY <2>1, <2>4, <2>5, <3>2
    <2> HIDE DEF q, r, a, n
    <2>7. /\ Append(q, r) \in Seq(R) /\ Len(Append(q, r)) = n + 1
          /\ \A i \in 1 .. n + 1 : Append(q, r)[i] = IF i <= n THEN q[i] ELSE r
      BY <2>1, <2>3
    <2>8. a = Append(q, r)
      BY <2>1, <2>6, <2>7, SeqEqual
    <2> QED
      BY <2>8 DEF q, r, a
  <1>10. RecordsOf(f) = map(p)
    BY <1>2 DEF p
  <1>11. RecordsOf(Append(f, line)) = map(Select(Append(f, line), ParsedLines))
    BY <1>2
  <1> QED
    BY <1>5, <1>6, <1>8, <1>9, <1>10, <1>11

\* The records of a file are those of its lines that parse.
LEMMA RecordElements ==
    ASSUME NEW R, R \subseteq Records, NEW f \in Seq(LinesOf(R))
    PROVE  /\ RecordsOf(f) \in Seq(R)
           /\ ToSet(RecordsOf(f)) = {RecordOf(f[i]) : i \in {j \in 1 .. Len(f) : Parses(f[j])}}
  <1> DEFINE S == LinesOf(R)
             p == Select(f, ParsedLines)
  <1>1. S \subseteq Lines
    BY FewerLines, AllLines
  <1>2. RecordsOf(f) = [i \in DOMAIN p |-> RecordOf(p[i])]
    BY DEF RecordsOf, RecordOf, ParsedLines
  <1>3. f \in Seq(S)
    OBVIOUS
  <1> HIDE DEF S
  <1>4. p \in Seq(S) /\ ToSet(p) = ToSet(f) \cap ParsedLines
    BY <1>3, SelectElements
  <1>5. DOMAIN f = 1 .. Len(f) /\ \A i \in 1 .. Len(f) : f[i] \in Lines
    BY <1>1, <1>3
  <1> HIDE DEF p
  <1>6. ToSet(RecordsOf(f)) = {RecordOf(l) : l \in ToSet(p)}
    BY <1>2 DEF ToSet
  <1>7. ToSet(p) = {f[i] : i \in {j \in 1 .. Len(f) : Parses(f[j])}}
    BY <1>4, <1>5 DEF ToSet, ParsedLines
  <1>8. RecordsOf(f) \in Seq(R)
    <2>1. \A l \in LinesOf(R) : Parses(l) => RecordOf(l) \in R
      BY ParsedRecord
    <2>2. p \in Seq(S) /\ DOMAIN p = 1 .. Len(p) /\ Len(p) \in Nat
      BY <1>4
    <2>3. \A i \in 1 .. Len(p) : p[i] \in S /\ Parses(p[i])
      BY <1>4, <2>2 DEF ToSet, ParsedLines
    <2>4. \A i \in 1 .. Len(p) : RecordOf(p[i]) \in R
      BY <2>1, <2>3 DEF S
    <2> QED
      BY <1>2, <2>2, <2>4
  <1> QED
    BY <1>6, <1>7, <1>8

(***************************************************************************)
(* What a recovery makes of the records.                                   *)
(***************************************************************************)

\* The records of some kinds.
OfKinds(kinds) == [kind : kinds, n : Nat]

\* The numbers of records, one by one.
LEMMA NumbersOf ==
    ASSUME NEW R, NEW N, \A r \in R : r.n \in N, NEW s \in Seq(R)
    PROVE  /\ Numbers(s) \in Seq(N)
           /\ ToSet(Numbers(s)) = {r.n : r \in ToSet(s)}
           /\ \A r \in R : Numbers(Append(s, r)) = Append(Numbers(s), r.n)
  <1> DEFINE q == Numbers(s)
             n == Len(s)
  <1>1. n \in Nat /\ DOMAIN s = 1 .. n /\ \A i \in 1 .. n : s[i] \in R
    OBVIOUS
  <1>2. q = [i \in 1 .. n |-> s[i].n]
    BY <1>1 DEF Numbers
  <1>3. \A i \in 1 .. n : s[i].n \in N
    BY <1>1
  <1>4. q \in Seq(N) /\ Len(q) = n /\ \A i \in 1 .. n : q[i] = s[i].n
    BY <1>1, <1>2, <1>3
  <1>5. ToSet(q) = {r.n : r \in ToSet(s)}
    BY <1>1, <1>2 DEF ToSet
  <1>6. ASSUME NEW r \in R
        PROVE  Numbers(Append(s, r)) = Append(q, r.n)
    <2> DEFINE a == Numbers(Append(s, r))
               m == r.n
    <2>1. /\ DOMAIN Append(s, r) = 1 .. n + 1
          /\ \A i \in 1 .. n : Append(s, r)[i] = s[i]
          /\ Append(s, r)[n + 1] = r
      BY <1>1
    <2>2. a = [i \in 1 .. n + 1 |-> Append(s, r)[i].n]
      BY <2>1 DEF Numbers
    <2>3. m \in N
      OBVIOUS
    <2>4. \A i \in 1 .. n + 1 : Append(s, r)[i].n = IF i <= n THEN q[i] ELSE m
      BY <1>1, <1>4, <2>1
    <2>5. a \in Seq(N) /\ Len(a) = n + 1 /\ \A i \in 1 .. n + 1 : a[i] = IF i <= n THEN q[i] ELSE m
      <3>1. \A i \in 1 .. n + 1 : Append(s, r)[i].n \in N
        BY <1>1, <2>1, <2>3
      <3> HIDE DEF a, q, m
      <3> QED
        BY <1>1, <2>2, <2>4, <3>1
    <2> HIDE DEF a, q, m, n
    <2>6. /\ Append(q, m) \in Seq(N) /\ Len(Append(q, m)) = n + 1
          /\ \A i \in 1 .. n + 1 : Append(q, m)[i] = IF i <= n THEN q[i] ELSE m
      BY <1>1, <1>4, <2>3
    <2>7. a = Append(q, m)
      BY <1>1, <2>5, <2>6, SeqEqual
    <2> QED
      BY <2>7 DEF a, m, q
  <1> QED
    BY <1>4, <1>5, <1>6

\* The records of some kinds are those of the file that are of these kinds.
LEMMA KindElements ==
    ASSUME NEW R, R \subseteq Records, NEW f \in Seq(LinesOf(R)), NEW kinds
    PROVE  /\ OfKind(f, kinds) \in Seq(R)
           /\ ToSet(OfKind(f, kinds)) = {r \in ToSet(RecordsOf(f)) : r.kind \in kinds}
  <1> DEFINE s == RecordsOf(f)
             T == OfKinds(kinds)
  <1>1. s \in Seq(R)
    BY RecordElements
  <1>2. OfKind(f, kinds) = Select(s, T)
    BY DEF OfKind, OfKinds
  <1>3. \A r \in R : r \in T <=> r.kind \in kinds
    BY DEF Records, OfKinds
  <1> HIDE DEF s, T
  <1>4. Select(s, T) \in Seq(R) /\ ToSet(Select(s, T)) = ToSet(s) \cap T
    BY <1>1, SelectElements
  <1>5. ToSet(s) \subseteq R
    BY <1>1 DEF ToSet
  <1> QED
    BY <1>2, <1>3, <1>4, <1>5 DEF s

\* A record more is one more of its kind.
LEMMA KindAppend ==
    ASSUME NEW f \in Seq(Lines), NEW g, NEW r \in Records,
           RecordsOf(g) = Append(RecordsOf(f), r), NEW kinds
    PROVE  OfKind(g, kinds) =
              IF r.kind \in kinds THEN Append(OfKind(f, kinds), r) ELSE OfKind(f, kinds)
  <1> DEFINE s == RecordsOf(f)
             T == OfKinds(kinds)
  <1>1. s \in Seq(Records)
    BY RecordElements, AllLines
  <1>2. OfKind(f, kinds) = Select(s, T) /\ OfKind(g, kinds) = Select(Append(s, r), T)
    BY DEF OfKind, OfKinds
  <1>3. r \in T <=> r.kind \in kinds
    BY DEF Records, OfKinds
  <1> HIDE DEF s, T
  <1>4. \A x \in Seq(Records), e \in Records :
           Select(Append(x, e), T) = IF e \in T THEN Append(Select(x, T), e) ELSE Select(x, T)
    BY SelectAppends
  <1>5. Select(Append(s, r), T) = IF r \in T THEN Append(Select(s, T), r) ELSE Select(s, T)
    BY <1>1, <1>4, Zenon
  <1> QED
    BY <1>2, <1>3, <1>5

\* What it changes of the events, and of the last archive mark.
LEMMA RecordMore ==
    ASSUME NEW f \in Seq(Lines), NEW g, NEW r \in Records,
           RecordsOf(g) = Append(RecordsOf(f), r)
    PROVE  /\ EventsOf(g) = IF r.kind = "event" THEN Append(EventsOf(f), r.n) ELSE EventsOf(f)
           /\ ArchivedOf(g) = IF r.kind \in {"archive", "unarchive"} THEN r.kind = "archive"
                              ELSE ArchivedOf(f)
  <1>1. f \in Seq(LinesOf(Records))
    BY AllLines
  <1>2. EventsOf(g) = IF r.kind = "event" THEN Append(EventsOf(f), r.n) ELSE EventsOf(f)
    <2> DEFINE s == OfKind(f, {"event"})
    <2>1. s \in Seq(Records)
      BY <1>1, KindElements
    <2>2. OfKind(g, {"event"}) = IF r.kind = "event" THEN Append(s, r) ELSE s
      BY KindAppend
    <2>3. EventsOf(f) = Numbers(s) /\ EventsOf(g) = Numbers(OfKind(g, {"event"}))
      BY DEF EventsOf
    <2> HIDE DEF s
    <2>4. \A e \in Records : e.n \in Nat
      BY DEF Records
    <2>5. Numbers(Append(s, r)) = Append(Numbers(s), r.n)
      BY <2>1, <2>4, NumbersOf
    <2> QED
      BY <2>2, <2>3, <2>5
  <1>3. ArchivedOf(g) = IF r.kind \in {"archive", "unarchive"} THEN r.kind = "archive"
                        ELSE ArchivedOf(f)
    <2> DEFINE K == {"archive", "unarchive"}
               s == OfKind(f, K)
    <2>1. s \in Seq(Records)
      BY <1>1, KindElements
    <2>2. OfKind(g, K) = IF r.kind \in K THEN Append(s, r) ELSE s
      BY KindAppend
    <2>3. /\ ArchivedOf(f) = (s # << >> /\ Last(s).kind = "archive")
          /\ ArchivedOf(g) = (OfKind(g, K) # << >> /\ Last(OfKind(g, K)).kind = "archive")
      BY DEF ArchivedOf
    <2> HIDE DEF s, K
    <2>4. Append(s, r) # << >> /\ Last(Append(s, r)) = r
      BY <2>1 DEF Last
    <2>5. CASE r.kind \in K
      BY <2>2, <2>3, <2>4, <2>5 DEF K
    <2>6. CASE r.kind \notin K
      BY <2>2, <2>3, <2>6 DEF K
    <2> QED
      BY <2>5, <2>6
  <1> QED
    BY <1>2, <1>3

\* The events, terminals and pending prompts of a file, record by record (recover_one).
LEMMA RecoveredSets ==
    ASSUME NEW f \in Seq(Lines), NEW n \in Nat
    PROVE  /\ n \in ToSet(EventsOf(f)) <=> EventRecord(n) \in ToSet(RecordsOf(f))
           /\ n \in TerminalsOf(f) <=> Terminal(n) \in ToSet(RecordsOf(f))
           /\ n \in ToSet(PendingOf(f)) <=> /\ Intent(n) \in ToSet(RecordsOf(f))
                                            /\ Terminal(n) \notin ToSet(RecordsOf(f))
  <1>1. f \in Seq(LinesOf(Records))
    BY AllLines
  <1> DEFINE RS == ToSet(RecordsOf(f))
  <1>2. RS \subseteq Records
    <2>1. RecordsOf(f) \in Seq(Records)
      BY <1>1, RecordElements
    <2> QED
      BY <2>1 DEF ToSet
  <1>3. \A kinds : OfKind(f, kinds) \in Seq(Records)
                   /\ ToSet(OfKind(f, kinds)) = {r \in RS : r.kind \in kinds}
    BY <1>1, KindElements
  <1>4. \A e \in Records : e.n \in Nat
    BY DEF Records
  <1>5. \A s \in Seq(Records) : ToSet(Numbers(s)) = {r.n : r \in ToSet(s)}
    BY <1>4, NumbersOf
  <1> HIDE DEF RS
  <1>6. /\ \A r \in Records : r.kind = "event" /\ r.n = n <=> r = EventRecord(n)
        /\ \A r \in Records : r.kind = "intent" /\ r.n = n <=> r = Intent(n)
        /\ \A r \in Records : r.kind = "terminal" /\ r.n = n <=> r = Terminal(n)
    BY DEF Records, EventRecord, Intent, Terminal
  <1>7. n \in ToSet(EventsOf(f)) <=> EventRecord(n) \in RS
    <2>1. ToSet(EventsOf(f)) = {r.n : r \in ToSet(OfKind(f, {"event"}))}
      BY <1>3, <1>5 DEF EventsOf
    <2>2. n \in ToSet(EventsOf(f)) <=> \E r \in RS : r.kind = "event" /\ r.n = n
      BY <1>3, <2>1
    <2> QED
      BY <1>2, <1>6, <2>2
  <1>8. \A m \in Nat : m \in TerminalsOf(f) <=> \E r \in RS : r.kind = "terminal" /\ r.n = m
    BY <1>3 DEF TerminalsOf
  <1>9. n \in TerminalsOf(f) <=> Terminal(n) \in RS
    BY <1>2, <1>6, <1>8
  <1>10. n \in ToSet(PendingOf(f)) <=> Intent(n) \in RS /\ Terminal(n) \notin RS
    <2> DEFINE s == OfKind(f, {"intent"})
               U == Nat \ TerminalsOf(f)
               T == [kind : {"intent"}, n : U]
    <2>1. s \in Seq(Records) /\ ToSet(s) = {r \in RS : r.kind = "intent"}
      BY <1>3
    <2>2. PendingOf(f) = Numbers(Select(s, T))
      BY DEF PendingOf
    <2>3. \A r \in Records : r.kind = "intent" => (r \in T <=> r.n \in U)
      BY DEF Records
    <2>4. n \in U <=> Terminal(n) \notin RS
      BY <1>9
    <2> HIDE DEF s, T, U
    <2>5. Select(s, T) \in Seq(Records) /\ ToSet(Select(s, T)) = ToSet(s) \cap T
      BY <2>1, SelectElements
    <2>6. ToSet(PendingOf(f)) = {r.n : r \in ToSet(s) \cap T}
      BY <1>5, <2>2, <2>5
    <2>7. n \in ToSet(PendingOf(f)) <=> \E r \in RS : r.kind = "intent" /\ r.n = n /\ r.n \in U
      BY <1>2, <2>1, <2>3, <2>6
    <2> QED
      BY <1>2, <1>6, <2>4, <2>7
  <1> QED
    BY <1>7, <1>9, <1>10 DEF RS

\* A set of numbers with a bound that has a member has a largest one.
LEMMA LargestMember ==
    ASSUME NEW b \in Nat, NEW T \in SUBSET (0 .. b), T # {}
    PROVE  Max(T) \in T /\ \A m \in T : m <= Max(T)
  <1> DEFINE U == {b - m : m \in T}
  <1>1. U \in SUBSET Nat /\ U # {}
    <2>1. \A m \in T : b - m \in Nat
      OBVIOUS
    <2> QED
      BY <2>1
  <1>2. PICK u \in U : \A v \in U : u <= v
    <2> HIDE DEF U
    <2> QED
      BY <1>1, SmallestMember
  <1>3. PICK m \in T : u = b - m
    BY <1>2
  <1>4. \A k \in T : k <= m
    BY <1>2, <1>3
  <1>5. \E x \in T : \A y \in T : x >= y
    BY <1>4
  <1>6. Max(T) \in T /\ \A y \in T : Max(T) >= y
    BY <1>5 DEF Max
  <1> QED
    BY <1>6

\* The next prompt id is above all that are on record (next_prompt_id).
LEMMA NextIsAbove ==
    ASSUME NEW f, PromptIds(f) \subseteq 1 .. MaxPrompts
    PROVE  /\ NextPrompt(f) \in 1 .. MaxPrompts + 1
           /\ \A id \in PromptIds(f) : id < NextPrompt(f)
  <1>1. MaxPrompts \in Nat
    BY BoundsAssumption
  <1>2. CASE PromptIds(f) = {}
    BY <1>1, <1>2 DEF NextPrompt
  <1>3. CASE PromptIds(f) # {}
    <2> DEFINE T == PromptIds(f)
               m == Max(T)
    <2>1. T \in SUBSET (0 .. MaxPrompts) /\ T # {} /\ T \subseteq 1 .. MaxPrompts
      BY <1>1, <1>3
    <2>2. NextPrompt(f) = m + 1
      BY <1>3 DEF NextPrompt
    <2> HIDE DEF T
    <2>3. m \in T /\ \A k \in T : k <= m
      BY <1>1, <2>1, LargestMember
    <2> QED
      BY <1>1, <2>1, <2>2, <2>3 DEF T
  <1> QED
    BY <1>2, <1>3

\* Prompts without a terminal are ones with an intent, in order of their ids' bound.
LEMMA PendingTypes ==
    ASSUME NEW f \in Seq(Lines), PromptIds(f) \subseteq 1 .. MaxPrompts
    PROVE  PendingOf(f) \in Seq(1 .. NextPrompt(f) - 1)
  <1> DEFINE s == OfKind(f, {"intent"})
             U == Nat \ TerminalsOf(f)
             T == [kind : {"intent"}, n : U]
             N == 1 .. NextPrompt(f) - 1
             R == {r \in Records : r.n \in N}
  <1>1. f \in Seq(LinesOf(Records))
    BY AllLines
  <1>2. /\ s \in Seq(Records) /\ ToSet(s) = {r \in ToSet(RecordsOf(f)) : r.kind = "intent"}
        /\ ToSet(OfKind(f, {"intent", "terminal"})) =
              {r \in ToSet(RecordsOf(f)) : r.kind \in {"intent", "terminal"}}
    BY <1>1, KindElements
  <1>3. \A r \in ToSet(s) : r.n \in PromptIds(f)
    BY <1>2 DEF PromptIds
  <1>4. \A r \in ToSet(s) : r.n \in N
    BY <1>3, NextIsAbove, BoundsAssumption
  <1>5. PendingOf(f) = Numbers(Select(s, T))
    BY DEF PendingOf
  <1> HIDE DEF s, T, N
  <1>6. Select(s, T) \in Seq(Records) /\ ToSet(Select(s, T)) \subseteq ToSet(s)
    BY <1>2, SelectElements
  <1> DEFINE q == Select(s, T)
  <1> HIDE DEF q
  <1>7. q \in Seq(Records) /\ ToSet(q) \subseteq ToSet(s)
    BY <1>6 DEF q
  <1>8. DOMAIN q = 1 .. Len(q) /\ Len(q) \in Nat /\ \A i \in 1 .. Len(q) : q[i] \in R
    <2>1. DOMAIN q = 1 .. Len(q) /\ Len(q) \in Nat /\ \A i \in 1 .. Len(q) : q[i] \in Records
      BY <1>7
    <2>2. \A i \in 1 .. Len(q) : q[i] \in ToSet(q)
      BY <2>1 DEF ToSet
    <2> QED
      BY <1>4, <1>7, <2>1, <2>2
  <1>9. q \in Seq(R)
    BY <1>7, <1>8
  <1>10. Numbers(q) \in Seq(N)
    BY <1>9, NumbersOf
  <1> QED
    BY <1>5, <1>10 DEF N, q

(***************************************************************************)
(* What is done to a file.                                                 *)
(***************************************************************************)

\* A file nothing was glued in: a line is one record, a line that is ended holds it
\* whole, and only the last one may not be ended.
Sound(f) ==
    \A i \in 1 .. Len(f) :
        /\ i < Len(f) => f[i].ended
        /\ Len(f[i].fragments) = 1
        /\ f[i].ended => f[i].fragments[1].whole

\* All but the last, and the last.
LEMMA FrontAndLast ==
    ASSUME NEW S, NEW f \in Seq(S), f # << >>
    PROVE  /\ Front(f) \in Seq(S) /\ Len(Front(f)) = Len(f) - 1 /\ Len(f) \in Nat \ {0}
           /\ \A i \in 1 .. Len(f) - 1 : Front(f)[i] = f[i]
           /\ Last(f) = f[Len(f)] /\ Last(f) \in S
           /\ Append(Front(f), Last(f)) = f
  <1> DEFINE n == Len(f)
             g == Front(f)
  <1>1. n \in Nat \ {0} /\ \A i \in 1 .. n : f[i] \in S
    OBVIOUS
  <1>2. g \in Seq(S) /\ Len(g) = n - 1 /\ \A i \in 1 .. n - 1 : g[i] = f[i]
    <2>1. \A i \in 1 .. n - 1 : f[i] \in S
      BY <1>1
    <2>2. g = SubSeq(f, 1, n - 1)
      BY DEF Front
    <2>3. n - 1 \in Int /\ n - 1 >= 0 /\ 1 \in Int
      BY <1>1
    <2> DEFINE m == n - 1
               d == SubSeq(f, 1, m)
    <2>4. m \in Int /\ m >= 0 /\ \A i \in 1 .. m : f[i] \in S
      BY <2>1, <2>3
    <2> HIDE DEF m
    <2>5. d \in Seq(S) /\ Len(d) = m /\ \A i \in 1 .. m : d[i] = f[i]
      BY <2>4, SubSeqProperties
    <2> QED
      BY <2>2, <2>5 DEF m
  <1>3. Last(f) = f[n] /\ f[n] \in S
    BY <1>1 DEF Last
  <1> HIDE DEF g
  <1>4. /\ Append(g, f[n]) \in Seq(S) /\ Len(Append(g, f[n])) = n
        /\ \A i \in 1 .. n : Append(g, f[n])[i] = f[i]
    BY <1>1, <1>2, <1>3
  <1>5. Append(g, f[n]) = f
    BY <1>1, <1>4, SeqEqual
  <1> QED
    BY <1>1, <1>2, <1>3, <1>5 DEF g

\* A write adds a line, or to the line that lacks its end.
LEMMA WrittenTypes ==
    ASSUME NEW R, NEW f \in Seq(LinesOf(R)), NEW r \in R, NEW w \in BOOLEAN, NEW e \in BOOLEAN
    PROVE  /\ Written(f, r, w, e) \in Seq(LinesOf(R))
           /\ Len(Written(f, r, w, e)) >= Len(f)
           /\ Torn(Written(f, r, w, e)) <=> ~ e
           /\ ~ Torn(f) => Written(f, r, w, e) = Append(f, Line(r, w, e))
  <1> DEFINE S == LinesOf(R)
             h == Written(f, r, w, e)
  <1>1. ASSUME NEW g \in Seq(S), NEW l \in S, l.ended = e, h = Append(g, l)
        PROVE  h \in Seq(S) /\ Len(h) = Len(g) + 1 /\ (Torn(h) <=> ~ e)
    <2> HIDE DEF h, S
    <2>1. h \in Seq(S) /\ Len(h) = Len(g) + 1 /\ h # << >> /\ h[Len(h)] = l
      BY <1>1
    <2> QED
      BY <1>1, <2>1 DEF Torn, Last
  <1>2. CASE Torn(f)
    <2> DEFINE G == [record : R, whole : BOOLEAN]
               fs == Last(f).fragments
               g == [record |-> r, whole |-> w]
               l == [fragments |-> Append(fs, g), ended |-> e]
    <2>1. f # << >> /\ h = Append(Front(f), l)
      BY <1>2 DEF Torn, Written
    <2>2. Front(f) \in Seq(S) /\ Len(Front(f)) = Len(f) - 1 /\ Last(f) \in S /\ Len(f) \in Nat
      BY <2>1, FrontAndLast
    <2>3. fs \in Seq(G) /\ g \in G
      BY <2>2 DEF LinesOf
    <2>4. l \in S /\ l.ended = e
      <3> HIDE DEF fs, g
      <3>1. Append(fs, g) \in Seq(G)
        BY <2>3
      <3> QED
        BY <3>1 DEF LinesOf
    <2> HIDE DEF h, l, S
    <2>5. h \in Seq(S) /\ Len(h) = Len(Front(f)) + 1 /\ (Torn(h) <=> ~ e)
      BY <1>1, <2>1, <2>2, <2>4
    <2> QED
      BY <1>2, <2>2, <2>5 DEF h, S
  <1>3. CASE ~ Torn(f)
    <2> DEFINE l == Line(r, w, e)
    <2>1. h = Append(f, l)
      BY <1>3 DEF Written, Line
    <2>2. l \in S /\ l.ended = e
      BY LineTypes
    <2>3. f \in Seq(S) /\ Len(f) \in Nat
      OBVIOUS
    <2> HIDE DEF h, l, S
    <2>4. h \in Seq(S) /\ Len(h) = Len(f) + 1 /\ (Torn(h) <=> ~ e)
      BY <1>1, <2>1, <2>2, <2>3
    <2> QED
      BY <2>1, <2>3, <2>4 DEF h, l, S
  <1> QED
    BY <1>2, <1>3

\* A line of one record keeps a file sound.
LEMMA SoundAppend ==
    ASSUME NEW R, NEW f \in Seq(LinesOf(R)), NEW r \in R, NEW w \in BOOLEAN, NEW e \in BOOLEAN,
           Sound(f), ~ Torn(f), e => w
    PROVE  Sound(Append(f, Line(r, w, e)))
  <1> DEFINE l == Line(r, w, e)
             S == LinesOf(R)
             n == Len(f)
  <1>1. l \in S /\ l.ended = e /\ Len(l.fragments) = 1 /\ l.fragments[1].whole = w
    BY LineTypes
  <1>2. f \in Seq(S)
    OBVIOUS
  <1> HIDE DEF l, S
  <1>3. /\ n \in Nat /\ Len(Append(f, l)) = n + 1
        /\ \A i \in 1 .. n : Append(f, l)[i] = f[i]
        /\ Append(f, l)[n + 1] = l
    BY <1>1, <1>2
  <1>4. n > 0 => f[n].ended
    <2>1. n > 0 => f # << >> /\ Last(f) = f[n]
      BY <1>2 DEF Last
    <2> QED
      BY <2>1 DEF Torn
  <1>5. \A i \in 1 .. n : f[i].ended
    BY <1>3, <1>4 DEF Sound
  <1>6. Sound(Append(f, l))
    <2> HIDE DEF n
    <2> SUFFICES ASSUME NEW i \in 1 .. n + 1
                 PROVE  /\ i < n + 1 => Append(f, l)[i].ended
                        /\ Len(Append(f, l)[i].fragments) = 1
                        /\ Append(f, l)[i].ended => Append(f, l)[i].fragments[1].whole
      BY <1>3 DEF Sound
    <2>1. CASE i \in 1 .. n
      BY <1>3, <1>5, <2>1 DEF Sound, n
    <2>2. CASE i = n + 1
      BY <1>1, <1>3, <2>2
    <2> QED
      BY <1>3, <2>1, <2>2
  <1> QED
    BY <1>6 DEF l

\* A repair takes off or ends the last line; no record comes or goes (repair_torn_tail).
LEMMA RepairedTypes ==
    ASSUME NEW R, R \subseteq Records, NEW f \in Seq(LinesOf(R))
    PROVE  /\ Repaired(f) \in Seq(LinesOf(R))
           /\ RecordsOf(Repaired(f)) = RecordsOf(f)
           /\ ~ Torn(f) => Repaired(f) = f
           /\ Sound(f) => Sound(Repaired(f)) /\ ~ Torn(Repaired(f))
           /\ Len(Repaired(f)) <= Len(f)
           /\ \A i \in 1 .. Len(Repaired(f)) : Repaired(f)[i].fragments = f[i].fragments
  <1> DEFINE S == LinesOf(R)
             h == Repaired(f)
             n == Len(f)
  <1>1. f \in Seq(S) /\ n \in Nat
    OBVIOUS
  <1>2. CASE ~ Torn(f)
    BY <1>1, <1>2 DEF Repaired
  <1>3. CASE Torn(f)
    <2> DEFINE g == Front(f)
               t == Last(f)
    <2>1. f # << >> /\ ~ t.ended
      BY <1>3 DEF Torn
    <2>2. /\ g \in Seq(S) /\ Len(g) = n - 1 /\ n \in Nat \ {0}
          /\ \A i \in 1 .. n - 1 : g[i] = f[i]
          /\ t = f[n] /\ t \in S /\ Append(g, t) = f
      BY <2>1, FrontAndLast
    <2>3. RecordsOf(f) = IF Parses(t) THEN Append(RecordsOf(g), RecordOf(t)) ELSE RecordsOf(g)
      <3>1. RecordsOf(Append(g, t)) =
               IF Parses(t) THEN Append(RecordsOf(g), RecordOf(t)) ELSE RecordsOf(g)
        BY <2>2, RecordsAppend
      <3> QED
        BY <2>2, <3>1
    <2>4. Sound(f) => \A i \in 1 .. n - 1 : f[i].ended /\ Len(f[i].fragments) = 1
                                            /\ f[i].fragments[1].whole
      BY <1>1 DEF Sound
    <2>5. CASE ~ Parses(t)
      <3>1. h = g
        BY <1>3, <2>5 DEF Repaired
      <3>2. Sound(f) => Sound(g)
        <4> HIDE DEF g, S
        <4> QED
          BY <2>2, <2>4 DEF Sound
      <3>3. Sound(f) => ~ Torn(g)
        <4> SUFFICES ASSUME Sound(f), g # << >>
                     PROVE  g[Len(g)].ended
          BY DEF Torn, Last
        <4> HIDE DEF g, S
        <4>1. Len(g) \in 1 .. n - 1
          BY <2>2
        <4> QED
          BY <2>2, <2>4, <4>1
      <3>4. \A i \in 1 .. Len(g) : g[i].fragments = f[i].fragments
        BY <2>2
      <3>5. Len(g) <= n
        BY <2>2
      <3> QED
        BY <1>3, <2>2, <2>3, <2>5, <3>1, <3>2, <3>3, <3>4, <3>5
    <2>6. CASE Parses(t)
      <3> DEFINE l == [t EXCEPT !.ended = TRUE]
      <3>1. h = Append(g, l)
        BY <1>3, <2>6 DEF Repaired
      <3>2. l \in S /\ l.ended /\ l.fragments = t.fragments
        BY <2>2 DEF LinesOf
      <3>3. Parses(l) /\ RecordOf(l) = RecordOf(t) /\ Len(t.fragments) = 1 /\ t.fragments[1].whole
        BY <2>6, <3>2 DEF Parses, RecordOf
      <3> HIDE DEF l, S
      <3>4. /\ h \in Seq(S) /\ Len(h) = n /\ h[n] = l /\ h # << >>
            /\ \A i \in 1 .. n - 1 : h[i] = f[i]
        <4> HIDE DEF h, g
        <4> QED
          BY <2>2, <3>1, <3>2
      <3>5. RecordsOf(h) = RecordsOf(f)
        <4>1. RecordsOf(Append(g, l)) =
                 IF Parses(l) THEN Append(RecordsOf(g), RecordOf(l)) ELSE RecordsOf(g)
          BY <2>2, <3>2, RecordsAppend DEF S
        <4> QED
          BY <2>3, <2>6, <3>1, <3>3, <4>1
      <3>6. ~ Torn(h)
        <4> HIDE DEF h
        <4> QED
          BY <3>2, <3>4 DEF Torn, Last
      <3>7. \A i \in 1 .. n : h[i].fragments = f[i].fragments
        <4> HIDE DEF h
        <4> SUFFICES ASSUME NEW i \in 1 .. n
                     PROVE  h[i].fragments = f[i].fragments
          OBVIOUS
        <4>1. CASE i \in 1 .. n - 1
          BY <3>4, <4>1
        <4>2. CASE i = n
          BY <2>2, <3>2, <3>4, <4>2
        <4> QED
          BY <1>1, <4>1, <4>2
      <3>8. Sound(f) => Sound(h)
        <4> SUFFICES ASSUME Sound(f), NEW i \in 1 .. n
                     PROVE  /\ i < n => h[i].ended
                            /\ Len(h[i].fragments) = 1
                            /\ h[i].ended => h[i].fragments[1].whole
          BY <3>4 DEF Sound
        <4> HIDE DEF h
        <4>1. CASE i \in 1 .. n - 1
          BY <2>4, <3>4, <4>1
        <4>2. CASE i = n
          BY <3>2, <3>3, <3>4, <4>2
        <4> QED
          BY <1>1, <4>1, <4>2
      <3>9. Len(h) <= n
        BY <1>1, <3>4
      <3> QED
        BY <1>3, <3>4, <3>5, <3>6, <3>7, <3>8, <3>9 DEF S
    <2> QED
      BY <2>5, <2>6
  <1> QED
    BY <1>2, <1>3

\* What is left of a file: of the lines that are left, those that parse are as they were.
Shortened(g, f) ==
    /\ Len(g) <= Len(f)
    /\ \A i \in 1 .. Len(g) : Parses(g[i]) => Parses(f[i]) /\ RecordOf(g[i]) = RecordOf(f[i])

\* It has no record the file did not have.
LEMMA ShortenedRecords ==
    ASSUME NEW f \in Seq(Lines), NEW g \in Seq(Lines), Shortened(g, f)
    PROVE  ToSet(RecordsOf(g)) \subseteq ToSet(RecordsOf(f))
  <1>1. f \in Seq(LinesOf(Records)) /\ g \in Seq(LinesOf(Records))
    BY AllLines
  <1>2. /\ ToSet(RecordsOf(g)) = {RecordOf(g[i]) : i \in {j \in 1 .. Len(g) : Parses(g[j])}}
        /\ ToSet(RecordsOf(f)) = {RecordOf(f[i]) : i \in {j \in 1 .. Len(f) : Parses(f[j])}}
    BY <1>1, RecordElements
  <1>3. Len(f) \in Nat /\ Len(g) \in Nat
    OBVIOUS
  <1> QED
    BY <1>2, <1>3 DEF Shortened

\* The records of the first n lines.
Stably(f, n) == ToSet(RecordsOf(SubSeq(f, 1, n)))

\* The first lines of a file.
LEMMA FirstLines ==
    ASSUME NEW S, NEW f \in Seq(S), NEW n \in 0 .. Len(f)
    PROVE  /\ SubSeq(f, 1, n) \in Seq(S) /\ Len(SubSeq(f, 1, n)) = n
           /\ \A i \in 1 .. n : SubSeq(f, 1, n)[i] = f[i]
           /\ n = Len(f) => SubSeq(f, 1, n) = f
  <1>1. n \in Int /\ n >= 0 /\ n \in Nat /\ \A i \in 1 .. n : f[i] \in S
    OBVIOUS
  <1> DEFINE d == SubSeq(f, 1, n)
  <1>2. d \in Seq(S) /\ Len(d) = n /\ \A i \in 1 .. n : d[i] = f[i]
    BY <1>1, SubSeqProperties
  <1>3. n = Len(f) => d = f
    BY SubSeqFull
  <1> QED
    BY <1>2, <1>3

\* Their records are records of every file that keeps those lines.
LEMMA StablyKept ==
    ASSUME NEW f \in Seq(Lines), NEW n \in 0 .. Len(f), NEW g \in Seq(Lines), NEW m \in n .. Len(g),
           \A i \in 1 .. n : g[i] = f[i]
    PROVE  Stably(f, n) \subseteq Stably(g, m)
  <1> DEFINE a == SubSeq(f, 1, n)
             b == SubSeq(g, 1, m)
  <1>1. n \in Nat /\ m \in 0 .. Len(g) /\ n <= m
    OBVIOUS
  <1>2. /\ a \in Seq(Lines) /\ Len(a) = n /\ \A i \in 1 .. n : a[i] = f[i]
        /\ b \in Seq(Lines) /\ Len(b) = m /\ \A i \in 1 .. m : b[i] = g[i]
    BY <1>1, FirstLines
  <1> HIDE DEF a, b
  <1>3. \A i \in 1 .. n : a[i] = b[i]
    BY <1>1, <1>2
  <1>4. Shortened(a, b)
    BY <1>1, <1>2, <1>3 DEF Shortened
  <1> QED
    BY <1>2, <1>4, ShortenedRecords DEF Stably, a, b

\* All of the lines are stable.
LEMMA StablyAll ==
    ASSUME NEW f \in Seq(Lines)
    PROVE  Stably(f, Len(f)) = ToSet(RecordsOf(f))
  <1>1. Len(f) \in 0 .. Len(f)
    OBVIOUS
  <1>2. SubSeq(f, 1, Len(f)) = f
    BY <1>1, FirstLines
  <1> QED
    BY <1>2 DEF Stably

\* What a power loss leaves of a line (a write is a prefix of its bytes).
LEMMA CutTypes ==
    ASSUME NEW R, NEW line \in LinesOf(R), NEW cut \in Cuts(line)
    PROVE  /\ cut \in LinesOf(R)
           /\ ~ cut.ended
           /\ Len(line.fragments) = 1 =>
                 /\ Len(cut.fragments) = 1
                 /\ Parses(cut) => Parses(line) /\ RecordOf(cut) = RecordOf(line)
  <1> DEFINE G == [record : R, whole : BOOLEAN]
             fs == line.fragments
  <1>1. fs \in Seq(G)
    BY DEF LinesOf
  <1>2. PICK j \in DOMAIN fs, w \in BOOLEAN :
           cut = [fragments |-> Append(SubSeq(fs, 1, j - 1), [fs[j] EXCEPT !.whole = fs[j].whole /\ w]),
                  ended |-> FALSE]
    <2> DEFINE E(j, w) == [fragments |-> Append(SubSeq(fs, 1, j - 1),
                                                [fs[j] EXCEPT !.whole = fs[j].whole /\ w]),
                           ended |-> FALSE]
    <2>1. Cuts(line) = {E(j, w) : j \in DOMAIN fs, w \in BOOLEAN}
      BY DEF Cuts
    <2>2. cut \in Cuts(line)
      OBVIOUS
    <2> HIDE DEF E, fs
    <2>3. \E j \in DOMAIN fs, w \in BOOLEAN : cut = E(j, w)
      BY <2>1, <2>2
    <2> QED
      BY <2>3 DEF E, fs
  <1> DEFINE g == [fs[j] EXCEPT !.whole = fs[j].whole /\ w]
             a == SubSeq(fs, 1, j - 1)
  <1>3. fs[j] \in G /\ j \in 1 .. Len(fs)
    <2> HIDE DEF G, fs
    <2> QED
      BY <1>1, <1>2
  <1>4. g \in G /\ g.record = fs[j].record /\ (g.whole => fs[j].whole)
    BY <1>3
  <1>5. a \in Seq(G) /\ Len(a) = j - 1
    <2> HIDE DEF G, fs
    <2>1. j - 1 \in 0 .. Len(fs)
      BY <1>1, <1>3
    <2> QED
      BY <1>1, <2>1, FirstLines
  <1>6. cut.fragments = Append(a, g) /\ cut.ended = FALSE /\ cut = [fragments |-> Append(a, g), ended |-> FALSE]
    BY <1>2
  <1> HIDE DEF a, g
  <1>7. Append(a, g) \in Seq(G) /\ Len(Append(a, g)) = j /\ Append(a, g)[j] = g
    <2> HIDE DEF G
    <2> QED
      BY <1>3, <1>4, <1>5
  <1>8. cut \in LinesOf(R)
    BY <1>6, <1>7 DEF LinesOf
  <1>9. ASSUME Len(fs) = 1
        PROVE  j = 1
    BY <1>3, <1>9
  <1>10. ASSUME Len(fs) = 1
         PROVE  /\ Len(cut.fragments) = 1
                /\ Parses(cut) => Parses(line) /\ RecordOf(cut) = RecordOf(line)
    <2>1. j = 1
      BY <1>9, <1>10
    <2>2. Len(cut.fragments) = 1 /\ cut.fragments[1] = g
      BY <1>6, <1>7, <2>1
    <2> QED
      BY <1>4, <1>10, <2>1, <2>2 DEF Parses, RecordOf
  <1> QED
    BY <1>6, <1>8, <1>10

\* What a power loss leaves of a file.
LEMMA LossTypes ==
    ASSUME NEW R, file \in Seq(LinesOf(R)), R \subseteq Records, synced \in 0 .. Len(file), PowerLoss
    PROVE  /\ file' \in Seq(LinesOf(R))
           /\ synced' = Len(file') /\ synced <= Len(file')
           /\ \A i \in 1 .. synced : file'[i] = file[i]
           /\ Sound(file) => Sound(file') /\ Shortened(file', file)
  <1>0. PICK n \in synced .. Len(file) :
           file' \in {SubSeq(file, 1, n)}
                        \cup IF n = Len(file) THEN {}
                             ELSE {Append(SubSeq(file, 1, n), cut) : cut \in Cuts(file[n + 1])}
    BY DEF PowerLoss
  <1> DEFINE S == LinesOf(R)
             a == SubSeq(file, 1, n)
  <1>1. n \in 0 .. Len(file) /\ synced <= n /\ synced \in Nat /\ n \in Nat /\ Len(file) \in Nat
    BY <1>0
  <1>2. a \in Seq(S) /\ Len(a) = n /\ \A i \in 1 .. n : a[i] = file[i]
    BY <1>1, FirstLines
  <1>3. synced' = Len(file')
    BY DEF PowerLoss
  <1>4. \A i \in 1 .. Len(file) : file[i] \in S
    OBVIOUS
  <1>5. CASE file' = a
    <2> HIDE DEF a, S
    <2>1. Sound(file) => Sound(a)
      BY <1>1, <1>2 DEF Sound
    <2>2. Shortened(a, file)
      BY <1>1, <1>2 DEF Shortened
    <2> QED
      BY <1>1, <1>2, <1>3, <1>5, <2>1, <2>2 DEF S
  <1>6. ASSUME n # Len(file), NEW cut \in Cuts(file[n + 1]), file' = Append(a, cut)
        PROVE  /\ file' \in Seq(LinesOf(R))
               /\ synced <= Len(file')
               /\ \A i \in 1 .. synced : file'[i] = file[i]
               /\ Sound(file) => Sound(file') /\ Shortened(file', file)
    <2>1. n + 1 \in 1 .. Len(file) /\ file[n + 1] \in S
      BY <1>1, <1>4, <1>6
    <2>2. /\ cut \in S /\ ~ cut.ended
          /\ Len(file[n + 1].fragments) = 1 =>
                 /\ Len(cut.fragments) = 1
                 /\ Parses(cut) => Parses(file[n + 1]) /\ RecordOf(cut) = RecordOf(file[n + 1])
      BY <2>1, CutTypes
    <2> HIDE DEF a, S
    <2>3. /\ Append(a, cut) \in Seq(S) /\ Len(Append(a, cut)) = n + 1
          /\ \A i \in 1 .. n : Append(a, cut)[i] = file[i]
          /\ Append(a, cut)[n + 1] = cut
      BY <1>1, <1>2, <2>2
    <2>4. ASSUME Sound(file)
          PROVE  Sound(file') /\ Shortened(file', file)
      <3>1. \A i \in 1 .. n : file[i].ended
        BY <1>1, <2>1, <2>4 DEF Sound
      <3>2. Len(file[n + 1].fragments) = 1
        BY <2>1, <2>4 DEF Sound
      <3>3. \A i \in 1 .. n + 1 : i \in 1 .. n \/ i = n + 1
        BY <1>1
      <3>4. /\ Len(file') = n + 1 /\ file'[n + 1] = cut
            /\ \A i \in 1 .. n : file'[i] = file[i] /\ i \in 1 .. Len(file)
        BY <1>1, <1>6, <2>3
      <3>5. ASSUME NEW i \in 1 .. n + 1
            PROVE  /\ i < n + 1 => file'[i].ended
                   /\ Len(file'[i].fragments) = 1
                   /\ file'[i].ended => file'[i].fragments[1].whole
        <4>1. CASE i \in 1 .. n
          BY <2>4, <3>1, <3>4, <4>1 DEF Sound
        <4>2. CASE i = n + 1
          BY <1>1, <2>2, <3>2, <3>4, <4>2
        <4> QED
          BY <3>3, <4>1, <4>2
      <3>6. Sound(file')
        BY <3>4, <3>5 DEF Sound
      <3>7. ASSUME NEW i \in 1 .. n + 1, Parses(file'[i])
            PROVE  Parses(file[i]) /\ RecordOf(file'[i]) = RecordOf(file[i])
        <4>1. CASE i \in 1 .. n
          BY <3>4, <3>7, <4>1
        <4>2. CASE i = n + 1
          BY <2>2, <3>2, <3>4, <3>7, <4>2
        <4> QED
          BY <3>3, <4>1, <4>2
      <3>8. n + 1 <= Len(file)
        BY <2>1
      <3> QED
        BY <3>4, <3>6, <3>7, <3>8 DEF Shortened
    <2>5. \A i \in 1 .. synced : i \in 1 .. n
      BY <1>1
    <2>6. synced <= n + 1
      BY <1>1
    <2> QED
      BY <1>6, <2>3, <2>4, <2>5, <2>6 DEF S
  <1> QED
    BY <1>0, <1>3, <1>5, <1>6

-----------------------------------------------------------------------------
(***************************************************************************)
(* Appends, whether they succeed or fail.                                  *)
(***************************************************************************)

\* The types of faults.
FaultTypes == [failed : 0 .. MaxFailures, glued : BOOLEAN]

\* What an append leaves, whatever the file was before.
LEMMA WriteTypes ==
    ASSUME NEW R, NEW f \in Seq(LinesOf(R)), NEW r \in R, NEW s \in 0 .. Len(f),
           NEW was \in BOOLEAN, NEW sync \in BOOLEAN, faults \in FaultTypes,
           Appends(f, s, was, r, sync) \/ AppendFails(f, s, was, r, sync)
    PROVE  /\ file' \in Seq(LinesOf(R)) /\ synced' \in 0 .. Len(file')
           /\ torn' \in BOOLEAN /\ (Torn(file') => torn')
           /\ faults' \in FaultTypes
           /\ faults.glued => faults'.glued
           /\ faults'.failed >= faults.failed
           /\ Appends(f, s, was, r, sync) => ~ torn' /\ faults'.failed = faults.failed
           /\ AppendFails(f, s, was, r, sync) => faults'.failed > 0
           /\ faults'.glued => faults.glued \/ was
  <1> DEFINE S == LinesOf(R)
  <1>0. MaxFailures \in Nat
    BY BoundsAssumption
  <1>1. \A w \in BOOLEAN, e \in BOOLEAN :
           /\ Written(f, r, w, e) \in Seq(S) /\ Len(Written(f, r, w, e)) >= Len(f)
           /\ Torn(Written(f, r, w, e)) <=> ~ e
    BY WrittenTypes
  <1>2. ASSUME NEW h \in Seq(S), Len(h) >= Len(f)
        PROVE  s \in 0 .. Len(h) /\ Len(h) \in 0 .. Len(h)
    <2> HIDE DEF S
    <2> QED
      BY <1>2
  <1>3. ASSUME Appends(f, s, was, r, sync)
        PROVE  /\ file' \in Seq(S) /\ synced' \in 0 .. Len(file')
               /\ ~ torn' /\ torn' \in BOOLEAN /\ ~ Torn(file')
               /\ faults' \in FaultTypes /\ (faults.glued => faults'.glued)
               /\ faults'.failed = faults.failed /\ (faults'.glued => faults.glued \/ was)
    <2>1. /\ file' = Written(f, r, TRUE, TRUE) /\ torn' = FALSE
          /\ faults' = [faults EXCEPT !.glued = @ \/ was]
          /\ synced' = Len(file') \/ synced' = s
      BY <1>3 DEF Appends
    <2>2. file' \in Seq(S) /\ Len(file') >= Len(f) /\ ~ Torn(file')
      BY <1>1, <2>1
    <2>3. s \in 0 .. Len(file') /\ Len(file') \in 0 .. Len(file')
      BY <1>2, <2>2
    <2>4. /\ faults' \in FaultTypes /\ (faults.glued => faults'.glued)
          /\ faults'.failed = faults.failed /\ (faults'.glued => faults.glued \/ was)
      BY <2>1 DEF FaultTypes
    <2> QED
      BY <2>1, <2>2, <2>3, <2>4
  <1>4. ASSUME AppendFails(f, s, was, r, sync)
        PROVE  /\ file' \in Seq(S) /\ synced' \in 0 .. Len(file')
               /\ torn' \in BOOLEAN /\ (Torn(file') => torn')
               /\ faults' \in FaultTypes /\ (faults.glued => faults'.glued)
               /\ faults'.failed > faults.failed /\ faults'.failed > 0
               /\ (faults'.glued => faults.glued \/ was)
    <2>1. /\ faults.failed < MaxFailures
          /\ file' = f \/ \E w \in BOOLEAN, e \in BOOLEAN : file' = Written(f, r, w, e)
          /\ synced' = s /\ torn' = Torn(file')
          /\ faults' = [failed |-> faults.failed + 1, glued |-> faults.glued \/ (was /\ file' # f)]
      <3>1. file' = f \/ \E w \in BOOLEAN, e \in BOOLEAN : file' = Written(f, r, w, e)
        BY <1>4, Zenon DEF AppendFails
      <3> QED
        BY <1>4, <3>1 DEF AppendFails
    <2>2. file' \in Seq(S) /\ Len(file') >= Len(f)
      <3>1. Len(f) \in Nat
        OBVIOUS
      <3> QED
        BY <1>1, <2>1, <3>1
    <2>3. s \in 0 .. Len(file')
      BY <1>2, <2>2
    <2>4. Torn(file') \in BOOLEAN
      BY DEF Torn
    <2>5. /\ faults' \in FaultTypes /\ (faults.glued => faults'.glued)
          /\ faults'.failed > faults.failed /\ faults'.failed > 0
          /\ (faults'.glued => faults.glued \/ was)
      BY <1>0, <2>1 DEF FaultTypes
    <2> QED
      BY <2>1, <2>2, <2>3, <2>4, <2>5
  <1>5. faults.failed \in Nat
    BY DEF FaultTypes
  <1> HIDE DEF S
  <1>6. /\ file' \in Seq(S) /\ synced' \in 0 .. Len(file')
        /\ torn' \in BOOLEAN /\ (Torn(file') => torn')
        /\ faults' \in FaultTypes /\ (faults.glued => faults'.glued)
        /\ (faults'.glued => faults.glued \/ was)
    BY <1>3, <1>4
  <1>7. faults'.failed >= faults.failed
    <2>1. CASE Appends(f, s, was, r, sync)
      BY <1>3, <1>5, <2>1
    <2>2. CASE AppendFails(f, s, was, r, sync)
      <3>1. faults'.failed \in Nat
        BY <1>6 DEF FaultTypes
      <3> QED
        BY <1>4, <1>5, <2>2, <3>1
    <2> QED
      BY <2>1, <2>2
  <1> QED
    BY <1>3, <1>4, <1>6, <1>7 DEF S

\* An append to f, of which s lines are synced, kept what was on it, and added r if
\* it succeeded.
SoundlyWritten(f, s, was, r, sync) ==
    /\ Sound(file') /\ ~ faults.glued
    /\ Stably(f, s) \subseteq Stably(file', synced')
    /\ ToSet(RecordsOf(file')) \subseteq ToSet(RecordsOf(f)) \cup {r}
    /\ Appends(f, s, was, r, sync) =>
          /\ file' = Append(f, Line(r, TRUE, TRUE))
          /\ RecordsOf(file') = Append(RecordsOf(f), r)
          /\ sync => r \in Stably(file', synced')

\* What it leaves of a sound file, if it goes on behind no torn line.
LEMMA WriteSound ==
    ASSUME NEW R, R \subseteq Records, NEW f \in Seq(LinesOf(R)), NEW r \in R,
           NEW s \in 0 .. Len(f), NEW was \in BOOLEAN, NEW sync \in BOOLEAN, faults \in FaultTypes,
           Appends(f, s, was, r, sync) \/ AppendFails(f, s, was, r, sync),
           Sound(f), Torn(f) => was, ~ faults'.glued
    PROVE  SoundlyWritten(f, s, was, r, sync)
  <1> DEFINE S == LinesOf(R)
             l(w, e) == Line(r, w, e)
  <1>1. /\ file' \in Seq(S) /\ synced' \in 0 .. Len(file') /\ (faults.glued => faults'.glued)
        /\ faults' \in FaultTypes
    BY WriteTypes
  <1>2. S \subseteq Lines /\ f \in Seq(Lines) /\ RecordsOf(f) \in Seq(R)
    BY FewerLines, AllLines, RecordElements
  <1>3. ASSUME file' = f
        PROVE  /\ Sound(file')
               /\ ToSet(RecordsOf(file')) \subseteq ToSet(RecordsOf(f)) \cup {r}
               /\ \A i \in 1 .. s : file'[i] = f[i]
               /\ Len(file') >= Len(f)
    BY <1>1, <1>3
  <1>4. ASSUME NEW w \in BOOLEAN, NEW e \in BOOLEAN, e => w, ~ Torn(f), file' = Written(f, r, w, e)
        PROVE  /\ Sound(file')
               /\ ToSet(RecordsOf(file')) \subseteq ToSet(RecordsOf(f)) \cup {r}
               /\ file' = Append(f, l(w, e))
               /\ w => RecordsOf(file') = Append(RecordsOf(f), r)
               /\ \A i \in 1 .. s : file'[i] = f[i]
               /\ Len(file') >= Len(f)
    <2>1. file' = Append(f, l(w, e))
      <3>1. ~ Torn(f) => Written(f, r, w, e) = Append(f, Line(r, w, e))
        BY WrittenTypes
      <3> QED
        BY <1>4, <3>1
    <2>2. Sound(file')
      BY <1>4, <2>1, SoundAppend
    <2>3. l(w, e) \in S /\ RecordOf(l(w, e)) = r /\ (Parses(l(w, e)) <=> w)
      BY LineTypes
    <2>4. RecordsOf(file') = IF w THEN Append(RecordsOf(f), r) ELSE RecordsOf(f)
      BY <2>1, <2>3, RecordsAppend
    <2>5. ToSet(Append(RecordsOf(f), r)) = ToSet(RecordsOf(f)) \cup {r}
      BY <1>2, ElementsAppend
    <2>6. (\A i \in 1 .. s : file'[i] = f[i]) /\ Len(file') >= Len(f)
      <3> HIDE DEF S, l
      <3> QED
        BY <2>1, <2>3
    <2> QED
      BY <2>1, <2>2, <2>4, <2>5, <2>6
  <1>5. ASSUME Appends(f, s, was, r, sync)
        PROVE  /\ ~ Torn(f) /\ file' = Written(f, r, TRUE, TRUE) /\ s <= synced'
               /\ sync => synced' = Len(file')
    <2>1. /\ file' = Written(f, r, TRUE, TRUE)
          /\ faults' = [faults EXCEPT !.glued = @ \/ was]
          /\ synced' = IF sync THEN Len(file') ELSE s
      BY <1>5 DEF Appends
    <2>2. ~ was
      BY <2>1 DEF FaultTypes
    <2>3. Len(file') >= Len(f)
      BY <2>1, <2>2, <1>4
    <2>4. Len(f) \in Nat /\ s <= Len(f) /\ Len(file') \in Nat
      BY <1>1
    <2>5. s \in Nat /\ Len(f) \in Nat
      OBVIOUS
    <2>6. sync => synced' = Len(file')
      BY <2>1
    <2>7. s <= synced'
      <3>1. synced' = Len(file') \/ synced' = s
        BY <2>1
      <3> HIDE DEF S
      <3> QED
        BY <2>3, <2>4, <2>5, <3>1
    <2> QED
      BY <2>1, <2>2, <2>6, <2>7
  <1>6. ASSUME AppendFails(f, s, was, r, sync)
        PROVE  /\ s <= synced'
               /\ \/ file' = f
                  \/ /\ ~ Torn(f)
                     /\ \E w \in BOOLEAN, e \in BOOLEAN : (e => w) /\ file' = Written(f, r, w, e)
    <2>1. /\ file' = f \/ \E w \in BOOLEAN, e \in BOOLEAN : (e => w) /\ file' = Written(f, r, w, e)
          /\ synced' = s
          /\ faults' = [failed |-> faults.failed + 1, glued |-> faults.glued \/ (was /\ file' # f)]
      <3>1. file' = f \/ \E w \in BOOLEAN, e \in BOOLEAN : (e => w) /\ file' = Written(f, r, w, e)
        BY <1>6, Zenon DEF AppendFails
      <3> QED
        BY <1>6, <3>1 DEF AppendFails
    <2>2. file' # f => ~ was
      BY <2>1
    <2> QED
      BY <2>1, <2>2
  <1>7. /\ Sound(file') /\ s <= synced'
        /\ ToSet(RecordsOf(file')) \subseteq ToSet(RecordsOf(f)) \cup {r}
        /\ \A i \in 1 .. s : file'[i] = f[i]
    BY <1>3, <1>4, <1>5, <1>6
  <1>8. Stably(f, s) \subseteq Stably(file', synced')
    <2>1. file' \in Seq(Lines) /\ synced' \in s .. Len(file')
      BY <1>1, <1>2, <1>7, FewerLines
    <2> QED
      BY <1>2, <1>7, <2>1, StablyKept
  <1>9. ASSUME Appends(f, s, was, r, sync)
        PROVE  /\ file' = Append(f, Line(r, TRUE, TRUE))
               /\ RecordsOf(file') = Append(RecordsOf(f), r)
               /\ sync => r \in Stably(file', synced')
    <2>1. file' = Append(f, Line(r, TRUE, TRUE)) /\ RecordsOf(file') = Append(RecordsOf(f), r)
      BY <1>4, <1>5, <1>9
    <2>2. r \in ToSet(RecordsOf(file'))
      <3>1. ToSet(Append(RecordsOf(f), r)) = ToSet(RecordsOf(f)) \cup {r}
        BY <1>2, ElementsAppend
      <3> QED
        BY <2>1, <3>1
    <2>3. file' \in Seq(Lines)
      BY <1>1, <1>2
    <2> QED
      BY <1>5, <1>9, <2>1, <2>2, <2>3, StablyAll
  <1> QED
    BY <1>1, <1>7, <1>8, <1>9 DEF SoundlyWritten

-----------------------------------------------------------------------------
(***************************************************************************)
(* Types.                                                                  *)
(***************************************************************************)

\* The records that were written when n events were logged.
KnownRecords(n) ==
    {r \in Records : /\ r.kind = "event" => r.n \in 1 .. n
                     /\ r.kind \in {"intent", "terminal"} => r.n \in 1 .. MaxPrompts}

DiskTypes ==
    /\ file \in Seq(LinesOf(KnownRecords(logged))) /\ synced \in 0 .. Len(file)
    /\ torn \in BOOLEAN
    /\ faults \in FaultTypes
    /\ (torn \/ faults.glued) => faults.failed > 0

LogTypes ==
    /\ logged \in 0 .. MaxEvents
    /\ log \in Seq(1 .. logged)
    /\ kept \subseteq 1 .. logged

\* What the actor has under way goes with a session that is up and open.
ActorTypes ==
    /\ mode \in {"up", "down", "skipped"}
    /\ open \in BOOLEAN /\ archived \in BOOLEAN
    /\ nextPrompt \in 1 .. MaxPrompts + 1
    /\ pending \in Seq(1 .. nextPrompt - 1)
    /\ task \in [kind : {"idle", "deliver", "log", "cancel"}, id : Nat]
    /\ admitted \subseteq 1 .. MaxPrompts /\ settled \subseteq 1 .. MaxPrompts
    /\ stops \in 0 .. MaxStops
    /\ open => mode = "up"
    /\ mode # "up" => task = Idle
    /\ task.kind # "idle" => open
    /\ task.kind = "idle" => task = Idle
    /\ task.kind = "deliver" => task.id \in 1 .. MaxPrompts

TypeInv == DiskTypes /\ LogTypes /\ ActorTypes

\* The records of the module are of these.
LEMMA KnownTypes ==
    ASSUME NEW n \in Nat
    PROVE  /\ KnownRecords(n) \subseteq Records
           /\ \A m \in 0 .. n : KnownRecords(m) \subseteq KnownRecords(n)
           /\ \A i \in 1 .. n : EventRecord(i) \in KnownRecords(n)
           /\ \A id \in 1 .. MaxPrompts : Intent(id) \in KnownRecords(n) /\ Terminal(id) \in KnownRecords(n)
           /\ \A b \in BOOLEAN : ArchiveRecord(b) \in KnownRecords(n)
  <1>1. MaxPrompts \in Nat
    BY BoundsAssumption
  <1>2. KnownRecords(n) \subseteq Records
    BY DEF KnownRecords
  <1>3. \A m \in 0 .. n : KnownRecords(m) \subseteq KnownRecords(n)
    BY DEF KnownRecords, Records
  <1>4. \A i \in 1 .. n : EventRecord(i) \in KnownRecords(n)
    BY DEF KnownRecords, Records, EventRecord
  <1>5. \A id \in 1 .. MaxPrompts : Intent(id) \in KnownRecords(n) /\ Terminal(id) \in KnownRecords(n)
    BY <1>1 DEF KnownRecords, Records, Intent, Terminal
  <1>6. \A b \in BOOLEAN : ArchiveRecord(b) \in KnownRecords(n)
    BY DEF KnownRecords, Records, ArchiveRecord
  <1> QED
    BY <1>2, <1>3, <1>4, <1>5, <1>6

\* The file is one of lines.
LEMMA FileTypes ==
    ASSUME DiskTypes, logged \in Nat
    PROVE  /\ file \in Seq(Lines)
           /\ \A n \in Nat : logged <= n => file \in Seq(LinesOf(KnownRecords(n)))
  <1>1. KnownRecords(logged) \subseteq Records
    BY KnownTypes
  <1>2. file \in Seq(Lines)
    BY <1>1, FewerLines, AllLines DEF DiskTypes
  <1>3. ASSUME NEW n \in Nat, logged <= n
        PROVE  file \in Seq(LinesOf(KnownRecords(n)))
    <2>1. KnownRecords(logged) \subseteq KnownRecords(n)
      BY <1>3, KnownTypes
    <2> QED
      BY <2>1, FewerLines DEF DiskTypes
  <1> QED
    BY <1>2, <1>3

\* The repaired file is as long as what is synced of it.
LEMMA ResyncedTypes ==
    ASSUME NEW R, R \subseteq Records, file \in Seq(LinesOf(R)), synced \in 0 .. Len(file)
    PROVE  Repaired(file) \in Seq(LinesOf(R)) /\ Resynced \in 0 .. Len(Repaired(file))
  <1>1. Repaired(file) \in Seq(LinesOf(R)) /\ (~ Torn(file) => Repaired(file) = file)
    BY RepairedTypes
  <1>2. CASE Torn(file)
    <2>1. Resynced = Len(Repaired(file))
      BY <1>2 DEF Resynced
    <2> HIDE DEF Resynced
    <2> QED
      BY <1>1, <2>1
  <1>3. CASE ~ Torn(file)
    <2>1. Resynced = synced
      BY <1>3 DEF Resynced
    <2> QED
      BY <1>1, <1>3, <2>1
  <1> QED
    BY <1>2, <1>3

\* An append to the file, or to the repaired file, keeps the types of the disk.
LEMMA AppendDisk ==
    ASSUME DiskTypes, logged \in Nat, logged' \in Nat, logged <= logged',
           NEW r \in KnownRecords(logged'), NEW sync \in BOOLEAN,
           \/ Appends(file, synced, torn, r, sync) \/ AppendFails(file, synced, torn, r, sync)
           \/ Appends(Repaired(file), Resynced, FALSE, r, sync)
           \/ AppendFails(Repaired(file), Resynced, FALSE, r, sync)
    PROVE  DiskTypes'
  <1> DEFINE R == KnownRecords(logged')
  <1>1. R \subseteq Records
    BY KnownTypes
  <1>2. file \in Seq(LinesOf(R)) /\ synced \in 0 .. Len(file)
    BY FileTypes DEF DiskTypes
  <1>3. Repaired(file) \in Seq(LinesOf(R)) /\ Resynced \in 0 .. Len(Repaired(file))
    BY <1>1, <1>2, ResyncedTypes
  <1>4. PICK f \in Seq(LinesOf(R)), s \in Nat, was \in {torn, FALSE} :
           /\ s \in 0 .. Len(f)
           /\ Appends(f, s, was, r, sync) \/ AppendFails(f, s, was, r, sync)
    <2> DEFINE Q == Seq(LinesOf(R))
               W == {torn, FALSE}
               Wrote(f, s, was) == Appends(f, s, was, r, sync) \/ AppendFails(f, s, was, r, sync)
    <2>1. file \in Q /\ Repaired(file) \in Q /\ synced \in Nat /\ Resynced \in Nat
      BY <1>2, <1>3
    <2>2. torn \in W /\ FALSE \in W
      OBVIOUS
    <2>3. Wrote(file, synced, torn) \/ Wrote(Repaired(file), Resynced, FALSE)
      OBVIOUS
    <2> HIDE DEF Q, W, Wrote
    <2>4. \E f \in Q, s \in Nat, was \in W : s \in 0 .. Len(f) /\ Wrote(f, s, was)
      BY <1>2, <1>3, <2>1, <2>2, <2>3, Zenon
    <2> QED
      BY <2>4 DEF Q, W, Wrote
  <1>5. was \in BOOLEAN /\ faults \in FaultTypes
    BY DEF DiskTypes
  <1>6. /\ file' \in Seq(LinesOf(R)) /\ synced' \in 0 .. Len(file')
        /\ torn' \in BOOLEAN
        /\ faults' \in FaultTypes
        /\ faults'.failed >= faults.failed
        /\ Appends(f, s, was, r, sync) => ~ torn' /\ faults'.failed = faults.failed
        /\ AppendFails(f, s, was, r, sync) => faults'.failed > 0
        /\ faults'.glued => faults.glued \/ was
    BY <1>4, <1>5, WriteTypes
  <1>7. (torn' \/ faults'.glued) => faults'.failed > 0
    <2>1. (torn \/ faults.glued) => faults.failed > 0
      BY DEF DiskTypes
    <2>2. CASE AppendFails(f, s, was, r, sync)
      BY <1>6, <2>2
    <2>3. CASE Appends(f, s, was, r, sync)
      BY <1>6, <2>1, <2>3
    <2> QED
      BY <1>4, <2>2, <2>3
  <1> QED
    BY <1>6, <1>7 DEF DiskTypes

\* An event more (push_event).
LEMMA PushTypes ==
    ASSUME TypeInv, NEW boundary \in BOOLEAN, Push(boundary)
    PROVE  DiskTypes' /\ LogTypes'
  <1>1. /\ logged \in Nat /\ MaxEvents \in Nat /\ logged \in 0 .. MaxEvents
        /\ log \in Seq(1 .. logged) /\ kept \subseteq 1 .. logged
    BY BoundsAssumption DEF TypeInv, LogTypes
  <1>2. /\ logged' = logged + 1 /\ logged < MaxEvents /\ log' = Append(log, logged')
        /\ kept' \subseteq kept \cup {logged'}
    BY DEF Push
  <1>3. logged' \in Nat /\ logged <= logged' /\ logged' \in 1 .. logged'
    BY <1>1, <1>2
  <1>4. EventRecord(logged') \in KnownRecords(logged')
    BY <1>3, KnownTypes
  <1>5. DiskTypes'
    <2>1. Synced(boundary) \in BOOLEAN
      BY DEF Synced
    <2>2. \/ Appends(file, synced, torn, EventRecord(logged'), Synced(boundary))
          \/ AppendFails(file, synced, torn, EventRecord(logged'), Synced(boundary))
      BY DEF Push
    <2>3. DiskTypes
      BY DEF TypeInv
    <2> QED
      BY <1>1, <1>3, <1>4, <2>1, <2>2, <2>3, AppendDisk
  <1>6. log' \in Seq(1 .. logged')
    <2>1. 1 .. logged \subseteq 1 .. logged'
      BY <1>1, <1>2
    <2>2. log \in Seq(1 .. logged')
      <3> DEFINE A == 1 .. logged
                 B == 1 .. logged'
      <3>1. log \in Seq(A) /\ A \subseteq B
        BY <1>1, <2>1
      <3> HIDE DEF A, B
      <3>2. log \in Seq(B)
        BY <3>1
      <3> QED
        BY <3>2 DEF B
    <2> QED
      BY <1>2, <1>3, <2>2
  <1>7. kept' \subseteq 1 .. logged' /\ logged' \in 0 .. MaxEvents
    BY <1>1, <1>2
  <1> QED
    BY <1>5, <1>6, <1>7 DEF LogTypes

\* A prompt is settled, its terminal record written or not (finish_prompt_intent).
LEMMA FinishTypes ==
    ASSUME TypeInv, NEW id \in 1 .. MaxPrompts, Finish(id), UNCHANGED logged
    PROVE  DiskTypes' /\ settled' \subseteq 1 .. MaxPrompts
  <1>1. logged \in Nat /\ logged' = logged /\ settled \subseteq 1 .. MaxPrompts /\ DiskTypes
    BY BoundsAssumption DEF TypeInv, LogTypes, ActorTypes
  <1>2. Terminal(id) \in KnownRecords(logged')
    BY <1>1, KnownTypes
  <1>3. \/ Appends(file, synced, torn, Terminal(id), TRUE)
        \/ AppendFails(file, synced, torn, Terminal(id), TRUE)
    BY DEF Finish, AppendTolerant
  <1>4. DiskTypes'
    <2>1. logged' \in Nat /\ logged <= logged' /\ TRUE \in BOOLEAN
      BY <1>1
    <2> QED
      BY <1>1, <1>2, <1>3, <2>1, AppendDisk
  <1> QED
    BY <1>1, <1>4 DEF Finish

\* The numbers of a file's records, as recovery finds them (recover_one).
LEMMA RecoveredTypes ==
    ASSUME TypeInv
    PROVE  /\ EventsOf(file) \in Seq(1 .. logged)
           /\ ArchivedOf(file) \in BOOLEAN
           /\ NextPrompt(file) \in 1 .. MaxPrompts + 1
           /\ PendingOf(file) \in Seq(1 .. NextPrompt(file) - 1)
  <1> DEFINE R == KnownRecords(logged)
  <1>1. logged \in Nat /\ file \in Seq(LinesOf(R)) /\ file \in Seq(Lines) /\ R \subseteq Records
    BY FileTypes, KnownTypes DEF TypeInv, DiskTypes, LogTypes
  <1>2. \A kinds : /\ OfKind(file, kinds) \in Seq(R)
                   /\ ToSet(OfKind(file, kinds)) = {r \in ToSet(RecordsOf(file)) : r.kind \in kinds}
    BY <1>1, KindElements
  <1>3. RecordsOf(file) \in Seq(R)
    BY <1>1, RecordElements
  <1>4. ToSet(RecordsOf(file)) \subseteq R
    <2> HIDE DEF R
    <2>1. \A s \in Seq(R) : ToSet(s) \subseteq R
      BY DEF ToSet
    <2> QED
      BY <1>3, <2>1
  <1>5. EventsOf(file) \in Seq(1 .. logged)
    <2> DEFINE E == {r \in R : r.kind = "event"}
               s == OfKind(file, {"event"})
    <2>1. s \in Seq(R) /\ ToSet(s) \subseteq E
      BY <1>2, <1>4
    <2>2. s \in Seq(E)
      <3> HIDE DEF E, R, s
      <3>1. \A i \in 1 .. Len(s) : s[i] \in E
        BY <2>1 DEF ToSet
      <3> QED
        BY <2>1, <3>1
    <2>3. \A r \in E : r.n \in 1 .. logged
      BY DEF KnownRecords
    <2> HIDE DEF E, s
    <2>4. Numbers(s) \in Seq(1 .. logged)
      BY <2>2, <2>3, NumbersOf
    <2> QED
      BY <2>4 DEF EventsOf, s
  <1>6. PromptIds(file) \subseteq 1 .. MaxPrompts
    BY <1>2, <1>4 DEF PromptIds, KnownRecords
  <1>7. NextPrompt(file) \in 1 .. MaxPrompts + 1
    BY <1>6, NextIsAbove
  <1>8. PendingOf(file) \in Seq(1 .. NextPrompt(file) - 1)
    BY <1>1, <1>6, PendingTypes
  <1>9. ArchivedOf(file) \in BOOLEAN
    BY DEF ArchivedOf
  <1> QED
    BY <1>5, <1>7, <1>8, <1>9

\* The invariant has the types of the module.
LEMMA TypesHold ==
    ASSUME TypeInv
    PROVE  TypeOK
  <1>1. logged \in Nat /\ file \in Seq(Lines)
    BY FileTypes DEF TypeInv, DiskTypes, LogTypes
  <1>2. nextPrompt \in Nat
    BY BoundsAssumption DEF TypeInv, ActorTypes
  <1> QED
    BY <1>1, <1>2 DEF TypeInv, DiskTypes, LogTypes, ActorTypes, FaultTypes, TypeOK

\* They hold of a new session.
LEMMA TypesBegin == Init => TypeInv
  <1> SUFFICES ASSUME Init
               PROVE  TypeInv
    OBVIOUS
  <1>1. MaxEvents \in Nat /\ MaxPrompts \in Nat /\ MaxFailures \in Nat /\ MaxStops \in Nat
    BY BoundsAssumption
  <1>0. \A S : << >> \in Seq(S) /\ Len(<< >>) = 0
    OBVIOUS
  <1>2. DiskTypes
    <2> DEFINE S == LinesOf(KnownRecords(logged))
    <2>1. file \in Seq(S) /\ synced \in 0 .. Len(file) /\ torn = FALSE
      BY <1>0 DEF Init
    <2>2. faults \in FaultTypes /\ ~ faults.glued
      BY <1>1 DEF Init, FaultTypes
    <2> QED
      BY <2>1, <2>2 DEF DiskTypes
  <1>3. LogTypes
    BY <1>1 DEF Init, LogTypes
  <1>4. ActorTypes
    <2>1. pending \in Seq(1 .. nextPrompt - 1)
      BY <1>0 DEF Init
    <2>2. /\ nextPrompt \in 1 .. MaxPrompts + 1 /\ stops \in 0 .. MaxStops
          /\ task = Idle /\ mode = "up" /\ admitted = {} /\ settled = {}
          /\ open = TRUE /\ archived = FALSE
      BY <1>1 DEF Init
    <2>3. Idle.kind = "idle" /\ Idle \in [kind : {"idle", "deliver", "log", "cancel"}, id : Nat]
      BY DEF Idle
    <2> QED
      BY <2>1, <2>2, <2>3 DEF ActorTypes
  <1> QED
    BY <1>2, <1>3, <1>4 DEF TypeInv

\* Every step keeps them.
LEMMA TypesStep == TypeInv /\ [Next]_vars => TypeInv'
  <1> SUFFICES ASSUME TypeInv, [Next]_vars
               PROVE  TypeInv'
    OBVIOUS
  <1>0. /\ MaxEvents \in Nat /\ MaxPrompts \in Nat /\ MaxFailures \in Nat /\ MaxStops \in Nat
        /\ logged \in Nat /\ nextPrompt \in Nat
    BY BoundsAssumption DEF TypeInv, LogTypes, ActorTypes
  <1>a. DiskTypes /\ LogTypes /\ ActorTypes
    BY DEF TypeInv
  <1>b. ASSUME UNCHANGED <<logged, log, kept>>
        PROVE  LogTypes'
    BY <1>a, <1>b DEF LogTypes
  <1>c. ASSUME UNCHANGED <<file, synced, torn, faults, logged>>
        PROVE  DiskTypes'
    BY <1>a, <1>c DEF DiskTypes
  <1>d. ASSUME NEW r \in KnownRecords(logged), UNCHANGED logged,
               \/ Appends(file, synced, torn, r, TRUE) \/ AppendFails(file, synced, torn, r, TRUE)
               \/ Appends(Repaired(file), Resynced, FALSE, r, TRUE)
               \/ AppendFails(Repaired(file), Resynced, FALSE, r, TRUE)
        PROVE  DiskTypes'
    <2>1. logged' \in Nat /\ logged <= logged' /\ r \in KnownRecords(logged') /\ TRUE \in BOOLEAN
      BY <1>0, <1>d
    <2> QED
      BY <1>0, <1>a, <1>d, <2>1, AppendDisk
  <1>1. ASSUME NEW boundary \in BOOLEAN, Record(boundary)
        PROVE  TypeInv'
    <2>1. DiskTypes' /\ LogTypes'
      BY <1>1, PushTypes DEF Record
    <2>2. ActorTypes'
      BY <1>1, <1>a DEF Record, ActorTypes
    <2> QED
      BY <2>1, <2>2 DEF TypeInv
  <1>2. CASE Admit
    <2>1. nextPrompt \in 1 .. MaxPrompts /\ nextPrompt <= MaxPrompts /\ mode = "up" /\ open
      BY <1>0, <1>2, <1>a DEF Admit, Begins, Ready, ActorTypes
    <2>2. /\ Intent(nextPrompt) \in KnownRecords(logged)
          /\ UNCHANGED <<mode, open, log, archived, logged, kept, settled, stops>>
          /\ \/ Appends(file, synced, torn, Intent(nextPrompt), TRUE)
             \/ AppendFails(file, synced, torn, Intent(nextPrompt), TRUE)
      BY <1>0, <1>2, <2>1, KnownTypes DEF Admit
    <2>3. DiskTypes' /\ LogTypes'
      BY <1>b, <1>d, <2>2
    <2>4. pending \in Seq(1 .. nextPrompt - 1) /\ admitted \subseteq 1 .. MaxPrompts
      BY <1>a DEF ActorTypes
    <2>5. ASSUME nextPrompt' = nextPrompt + 1
          PROVE  /\ nextPrompt' - 1 = nextPrompt
                 /\ pending \in Seq(1 .. nextPrompt) /\ Append(pending, nextPrompt) \in Seq(1 .. nextPrompt)
      <3> DEFINE A == 1 .. nextPrompt - 1
                 B == 1 .. nextPrompt
      <3>1. A \subseteq B /\ nextPrompt \in B /\ nextPrompt' - 1 = nextPrompt
        BY <2>1, <2>5, <1>0
      <3>2. pending \in Seq(A)
        BY <2>4
      <3> HIDE DEF A, B
      <3>3. pending \in Seq(B) /\ Append(pending, nextPrompt) \in Seq(B)
        BY <3>1, <3>2
      <3> QED
        BY <3>1, <3>3 DEF B
    <2>6. /\ nextPrompt' \in 1 .. MaxPrompts + 1
          /\ pending' \in Seq(1 .. nextPrompt' - 1)
          /\ admitted' \subseteq 1 .. MaxPrompts
          /\ \/ task' = [kind |-> "deliver", id |-> nextPrompt]
             \/ task' = [kind |-> "log", id |-> nextPrompt]
             \/ task' = task
      <3>1. \/ UNCHANGED <<nextPrompt, admitted, pending, task>>
            \/ /\ nextPrompt' = nextPrompt + 1 /\ admitted' = admitted \cup {nextPrompt}
               /\ \/ /\ task' = [kind |-> "deliver", id |-> nextPrompt] /\ pending' = pending
                  \/ /\ task' = [kind |-> "log", id |-> nextPrompt]
                     /\ pending' = Append(pending, nextPrompt)
        BY <1>2 DEF Admit
      <3>2. CASE UNCHANGED <<nextPrompt, admitted, pending, task>>
        <4>1. nextPrompt \in 1 .. MaxPrompts + 1
          BY <1>a DEF ActorTypes
        <4> QED
          BY <2>4, <3>2, <4>1
      <3>3. CASE /\ nextPrompt' = nextPrompt + 1 /\ admitted' = admitted \cup {nextPrompt}
                 /\ \/ /\ task' = [kind |-> "deliver", id |-> nextPrompt] /\ pending' = pending
                    \/ /\ task' = [kind |-> "log", id |-> nextPrompt]
                       /\ pending' = Append(pending, nextPrompt)
        <4>1. pending' \in Seq(1 .. nextPrompt) /\ nextPrompt' - 1 = nextPrompt
          BY <2>5, <3>3
        <4>2. nextPrompt' \in 1 .. MaxPrompts + 1
          BY <1>0, <2>1, <3>3
        <4> QED
          BY <2>1, <2>4, <3>3, <4>1, <4>2
      <3> QED
        BY <3>1, <3>2, <3>3
    <2>7. ActorTypes'
      BY <1>a, <1>0, <2>1, <2>2, <2>6 DEF ActorTypes
    <2> QED
      BY <2>3, <2>7 DEF TypeInv
  <1>3. CASE Deliver
    <2>1. task.id \in 1 .. MaxPrompts /\ mode = "up" /\ open /\ task.id \in Nat
      BY <1>3, <1>a DEF Deliver, Ready, ActorTypes
    <2>2. DiskTypes' /\ settled' \subseteq 1 .. MaxPrompts
      BY <1>3, <2>1, FinishTypes DEF Deliver
    <2>3. LogTypes'
      BY <1>3, <1>b DEF Deliver
    <2>4. task' = Idle \/ (task' = [task EXCEPT !.kind = "log"])
      BY <1>3 DEF Deliver
    <2>5. /\ task' \in [kind : {"idle", "deliver", "log", "cancel"}, id : Nat]
          /\ task'.kind = "idle" => task' = Idle
          /\ task'.kind # "deliver"
      BY <1>a, <2>4 DEF ActorTypes, Idle
    <2>6. UNCHANGED <<mode, open, archived, pending, nextPrompt, admitted, stops>>
      BY <1>3 DEF Deliver
    <2>7. ActorTypes'
      BY <1>a, <2>1, <2>2, <2>5, <2>6 DEF ActorTypes
    <2> QED
      BY <2>2, <2>3, <2>7 DEF TypeInv
  <1>4. CASE LogPrompt
    <2>1. DiskTypes' /\ LogTypes'
      <3>1. CASE logged < MaxEvents
        <4>1. Push(TRUE)
          BY <1>4, <3>1 DEF LogPrompt
        <4> QED
          BY <4>1, PushTypes
      <3>2. CASE ~ (logged < MaxEvents)
        BY <1>4, <1>b, <1>c, <3>2 DEF LogPrompt, disk
      <3> QED
        BY <3>1, <3>2
    <2>2. ActorTypes'
      BY <1>4, <1>a DEF LogPrompt, Ready, ActorTypes, Idle
    <2> QED
      BY <2>1, <2>2 DEF TypeInv
  <1>5. CASE HandOver
    <2>1. /\ pending \in Seq(1 .. nextPrompt - 1) /\ pending # << >>
          /\ nextPrompt \in 1 .. MaxPrompts + 1
      BY <1>5, <1>a DEF HandOver, ActorTypes
    <2>2. Head(pending) \in 1 .. MaxPrompts /\ Tail(pending) \in Seq(1 .. nextPrompt - 1)
      <3> DEFINE A == 1 .. nextPrompt - 1
      <3>1. A \subseteq 1 .. MaxPrompts
        BY <1>0, <2>1
      <3>2. pending \in Seq(A)
        BY <2>1
      <3> HIDE DEF A
      <3>3. Head(pending) \in A /\ Tail(pending) \in Seq(A)
        BY <2>1, <3>2
      <3> QED
        BY <3>1, <3>3 DEF A
    <2>3. DiskTypes' /\ settled' \subseteq 1 .. MaxPrompts
      BY <1>5, <2>2, FinishTypes DEF HandOver
    <2>4. /\ UNCHANGED <<mode, open, log, archived, nextPrompt, task, logged, kept, admitted, stops>>
          /\ pending' = Tail(pending)
      BY <1>5 DEF HandOver
    <2>5. LogTypes'
      BY <1>b, <2>4
    <2>6. ActorTypes'
      BY <1>a, <2>2, <2>3, <2>4 DEF ActorTypes
    <2> QED
      BY <2>3, <2>5, <2>6 DEF TypeInv
  <1>6. CASE Archive
    <2>1. /\ UNCHANGED <<mode, open, log, pending, nextPrompt, logged, kept, admitted, settled, stops>>
          /\ \/ Appends(file, synced, torn, ArchiveRecord(TRUE), TRUE)
             \/ AppendFails(file, synced, torn, ArchiveRecord(TRUE), TRUE)
          /\ \/ archived' = TRUE /\ task' = [kind |-> "cancel", id |-> 0]
             \/ archived' = archived /\ task' = task
          /\ open
      BY <1>6 DEF Archive, Begins
    <2>2. ArchiveRecord(TRUE) \in KnownRecords(logged)
      BY <1>0, KnownTypes
    <2>3. DiskTypes' /\ LogTypes'
      BY <1>b, <1>d, <2>1, <2>2
    <2>4. archived' \in BOOLEAN
      BY <1>a, <2>1 DEF ActorTypes
    <2>5. /\ task' \in [kind : {"idle", "deliver", "log", "cancel"}, id : Nat]
          /\ task'.kind = "cancel" \/ task' = task
      BY <1>a, <2>1 DEF ActorTypes
    <2>6. UNCHANGED <<mode, open, pending, nextPrompt, admitted, settled, stops>> /\ mode = "up" /\ open
      BY <1>a, <2>1 DEF ActorTypes
    <2>7. ActorTypes'
      BY <1>a, <2>4, <2>5, <2>6 DEF ActorTypes
    <2> QED
      BY <2>3, <2>7 DEF TypeInv
  <1>7. CASE Cancel
    <2>0. UNCHANGED <<mode, log, archived, nextPrompt, logged, kept, admitted, stops>>
      BY <1>7 DEF Cancel
    <2>1. LogTypes'
      BY <1>b, <2>0
    <2>2. CASE pending # << >>
      <3>1. /\ pending \in Seq(1 .. nextPrompt - 1) /\ pending # << >>
            /\ nextPrompt \in 1 .. MaxPrompts + 1
        BY <2>2, <1>a DEF ActorTypes
      <3>2. Head(pending) \in 1 .. MaxPrompts /\ Tail(pending) \in Seq(1 .. nextPrompt - 1)
        <4> DEFINE A == 1 .. nextPrompt - 1
        <4>1. A \subseteq 1 .. MaxPrompts
          BY <1>0, <3>1
        <4>2. pending \in Seq(A)
          BY <3>1
        <4> HIDE DEF A
        <4>3. Head(pending) \in A /\ Tail(pending) \in Seq(A)
          BY <3>1, <4>2
        <4> QED
          BY <4>1, <4>3 DEF A
      <3>3. /\ Finish(Head(pending)) /\ pending' = Tail(pending) /\ UNCHANGED <<open, task>>
        BY <1>7, <2>2 DEF Cancel
      <3>4. DiskTypes' /\ settled' \subseteq 1 .. MaxPrompts
        BY <2>0, <3>2, <3>3, FinishTypes
      <3>5. ActorTypes'
        BY <1>a, <2>0, <3>2, <3>3, <3>4 DEF ActorTypes
      <3> QED
        BY <2>1, <3>4, <3>5 DEF TypeInv
    <2>3. CASE pending = << >>
      <3>1. /\ open' = FALSE /\ task' = Idle /\ torn' = FALSE
            /\ UNCHANGED <<file, synced, pending, settled, faults>>
        BY <1>7, <2>3 DEF Cancel, disk
      <3>2. DiskTypes'
        BY <1>a, <2>0, <3>1 DEF DiskTypes
      <3>3. ActorTypes'
        BY <1>a, <2>0, <3>1 DEF ActorTypes, Idle
      <3> QED
        BY <2>1, <3>2, <3>3 DEF TypeInv
    <2> QED
      BY <2>2, <2>3
  <1>8. CASE Unarchive
    <2>1. /\ UNCHANGED <<mode, log, pending, nextPrompt, task, logged, kept, admitted, settled, stops>>
          /\ \/ Appends(Repaired(file), Resynced, FALSE, ArchiveRecord(FALSE), TRUE)
             \/ AppendFails(Repaired(file), Resynced, FALSE, ArchiveRecord(FALSE), TRUE)
          /\ \/ archived' = FALSE /\ open' = TRUE
             \/ archived' = archived /\ open' = open
          /\ mode = "up"
      BY <1>8 DEF Unarchive, Ready
    <2>2. ArchiveRecord(FALSE) \in KnownRecords(logged)
      BY <1>0, KnownTypes
    <2>3. DiskTypes' /\ LogTypes'
      BY <1>b, <1>d, <2>1, <2>2
    <2>4. archived' \in BOOLEAN /\ open' \in BOOLEAN /\ task = Idle
      BY <1>8, <1>a, <2>1 DEF ActorTypes, Unarchive, Ready
    <2>5. UNCHANGED <<mode, task, pending, nextPrompt, admitted, settled, stops>> /\ mode = "up"
      BY <2>1
    <2>6. Idle.kind = "idle"
      BY DEF Idle
    <2>7. ActorTypes'
      BY <1>a, <2>4, <2>5, <2>6 DEF ActorTypes
    <2> QED
      BY <2>3, <2>7 DEF TypeInv
  <1>e. ASSUME Stop
        PROVE  LogTypes' /\ ActorTypes'
    <2>1. LogTypes'
      BY <1>a, <1>e DEF Stop, LogTypes
    <2>2. stops' \in 0 .. MaxStops
      BY <1>0, <1>a, <1>e DEF Stop, ActorTypes
    <2>3. /\ mode' = "down" /\ open' = FALSE /\ archived' = FALSE /\ pending' = << >>
          /\ nextPrompt' = 1 /\ task' = Idle /\ UNCHANGED <<admitted, settled>>
      BY <1>e DEF Stop
    <2>4. pending' \in Seq(1 .. nextPrompt' - 1) /\ nextPrompt' \in 1 .. MaxPrompts + 1
      BY <1>0, <2>3
    <2>5. Idle.kind = "idle" /\ Idle \in [kind : {"idle", "deliver", "log", "cancel"}, id : Nat]
      BY DEF Idle
    <2>6. ActorTypes'
      BY <1>a, <2>2, <2>3, <2>4, <2>5 DEF ActorTypes
    <2> QED
      BY <2>1, <2>6
  <1>9. CASE Crash
    <2>1. Stop /\ UNCHANGED <<file, synced>>
      BY <1>9 DEF Crash, disk
    <2>2. DiskTypes'
      BY <1>a, <2>1 DEF DiskTypes, Stop
    <2> QED
      BY <1>e, <2>1, <2>2 DEF TypeInv
  <1>10. CASE PowerLoss
    <2>1. Stop
      BY <1>10 DEF PowerLoss
    <2>2. UNCHANGED <<logged, faults>> /\ torn' = FALSE
      BY <2>1 DEF Stop
    <2>3. file' \in Seq(LinesOf(KnownRecords(logged))) /\ synced' = Len(file')
      BY <1>0, <1>10, <1>a, LossTypes, KnownTypes DEF DiskTypes
    <2>4. synced' \in 0 .. Len(file')
      <3> DEFINE S == LinesOf(KnownRecords(logged))
      <3> HIDE DEF S
      <3>1. file' \in Seq(S)
        BY <2>3 DEF S
      <3> QED
        BY <2>3, <3>1
    <2>5. DiskTypes'
      BY <1>a, <2>2, <2>3, <2>4 DEF DiskTypes
    <2> QED
      BY <1>e, <2>1, <2>5 DEF TypeInv
  <1>11. CASE Recover
    <2>1. /\ UNCHANGED <<task, logged, kept, admitted, settled, torn, faults, stops>>
          /\ mode = "down"
      BY <1>11 DEF Recover, history
    <2>2. CASE Readable(file)
      <3>1. /\ mode' = "up" /\ log' = EventsOf(file) /\ archived' = ArchivedOf(file)
            /\ pending' = PendingOf(file) /\ nextPrompt' = NextPrompt(file)
            /\ open' = ~ archived'
            /\ \/ file' = file /\ synced' = synced
               \/ file' = Repaired(file) /\ synced' = Resynced
        BY <1>11, <2>2 DEF Recover
      <3>2. LogTypes'
        BY <1>a, <2>1, <3>1, RecoveredTypes DEF LogTypes
      <3>3. DiskTypes'
        <4>1. /\ Repaired(file) \in Seq(LinesOf(KnownRecords(logged)))
              /\ Resynced \in 0 .. Len(Repaired(file))
          BY <1>0, <1>a, ResyncedTypes, KnownTypes DEF DiskTypes
        <4> QED
          BY <1>a, <2>1, <3>1, <4>1 DEF DiskTypes
      <3>4. ActorTypes'
        <4>1. task = Idle /\ Idle.kind = "idle"
          BY <1>a, <2>1 DEF ActorTypes, Idle
        <4>2. archived' \in BOOLEAN /\ open' \in BOOLEAN
          BY <3>1, RecoveredTypes
        <4> QED
          BY <1>a, <2>1, <3>1, <4>1, <4>2, RecoveredTypes DEF ActorTypes
      <3> QED
        BY <3>2, <3>3, <3>4 DEF TypeInv
    <2>3. CASE ~ Readable(file)
      <3>1. mode' = "skipped" /\ UNCHANGED <<file, synced, log, archived, pending, nextPrompt, open>>
        BY <1>11, <2>3 DEF Recover, disk
      <3>2. LogTypes' /\ DiskTypes'
        BY <1>b, <1>c, <2>1, <3>1
      <3>3. ActorTypes'
        BY <1>a, <2>1, <3>1 DEF ActorTypes
      <3> QED
        BY <3>2, <3>3 DEF TypeInv
    <2> QED
      BY <2>2, <2>3
  <1>12. CASE UNCHANGED vars
    <2>1. /\ UNCHANGED <<file, synced, torn, faults, logged, log, kept>>
          /\ UNCHANGED <<mode, open, archived, pending, nextPrompt, task, admitted, settled, stops>>
      BY <1>12 DEF vars, disk, server, history
    <2>2. DiskTypes' /\ LogTypes'
      BY <1>b, <1>c, <2>1
    <2>3. ActorTypes'
      BY <1>a, <2>1 DEF ActorTypes
    <2> QED
      BY <2>2, <2>3 DEF TypeInv
  <1> QED
    BY <1>1, <1>2, <1>3, <1>4, <1>5, <1>6, <1>7, <1>8, <1>9, <1>10, <1>11, <1>12 DEF Next

\* The types of the log's and the actor's state hold throughout, with the ranges of
\* what is on disk: no event beyond those logged, no prompt id beyond those to give, and
\* nothing under way in a session that is not up and open.
THEOREM WalTypes == Spec => []TypeOK
  <1>1. Spec => []TypeInv
    BY TypesBegin, TypesStep, PTL DEF Spec
  <1> QED
    BY <1>1, TypesHold, PTL

-----------------------------------------------------------------------------
(***************************************************************************)
(* The file stays readable, and what was promised is on it.                *)
(***************************************************************************)

\* An append through the handle that is open knows of a torn line before it.
FileInv ==
    /\ mode # "skipped"
    /\ Sound(file)
    /\ open /\ Torn(file) => torn

PromiseInv ==
    /\ \A n \in kept : EventRecord(n) \in Stably(file, synced)
    /\ \A id \in admitted \ settled : Intent(id) \in Stably(file, synced)
    /\ \A id \in 1 .. MaxPrompts : Terminal(id) \in ToSet(RecordsOf(file)) => id \in settled

SafeInv == ~ faults.glued => FileInv /\ PromiseInv

\* What is on stable storage is so after a repair too (repair_torn_tail syncs).
LEMMA RepairStable ==
    ASSUME file \in Seq(Lines), synced \in 0 .. Len(file)
    PROVE  /\ Stably(file, synced) \subseteq Stably(Repaired(file), Resynced)
           /\ Stably(file, synced) \subseteq ToSet(RecordsOf(file))
  <1>1. /\ Repaired(file) \in Seq(Lines) /\ RecordsOf(Repaired(file)) = RecordsOf(file)
        /\ ~ Torn(file) => Repaired(file) = file
    BY RepairedTypes, AllLines
  <1>2. Stably(file, synced) \subseteq ToSet(RecordsOf(file))
    <2>1. Len(file) \in synced .. Len(file) /\ \A i \in 1 .. synced : file[i] = file[i]
      OBVIOUS
    <2>2. Stably(file, synced) \subseteq Stably(file, Len(file))
      BY <2>1, StablyKept
    <2> QED
      BY <2>2, StablyAll
  <1>3. CASE Torn(file)
    <2>1. Stably(Repaired(file), Resynced) = ToSet(RecordsOf(Repaired(file)))
      BY <1>1, <1>3, StablyAll DEF Resynced
    <2> QED
      BY <1>1, <1>2, <2>1
  <1>4. CASE ~ Torn(file)
    BY <1>1, <1>2, <1>4 DEF Resynced
  <1> QED
    BY <1>3, <1>4

\* An append to f, which is the file or the repaired file, kept the file sound and what
\* is stable on it, and its record came to it if it succeeded.
SafelyWritten(f, s, was, r, sync) ==
    /\ ~ faults.glued
    /\ Sound(file')
    /\ Torn(file') => torn'
    /\ Stably(file, synced) \subseteq Stably(file', synced')
    /\ ToSet(RecordsOf(file')) \subseteq ToSet(RecordsOf(file)) \cup {r}
    /\ Appends(f, s, was, r, sync) =>
          /\ RecordsOf(file') = Append(RecordsOf(f), r)
          /\ RecordsOf(f) = RecordsOf(file)
          /\ file' = Append(f, Line(r, TRUE, TRUE))
          /\ sync => r \in Stably(file', synced')

\* So does every append.
LEMMA AppendSafe ==
    ASSUME TypeInv, SafeInv, logged' \in Nat, logged <= logged', ~ faults'.glued,
           NEW r \in KnownRecords(logged'), NEW sync \in BOOLEAN,
           NEW f, NEW s, NEW was,
           \/ open /\ f = file /\ s = synced /\ was = torn
           \/ f = Repaired(file) /\ s = Resynced /\ was = FALSE,
           Appends(f, s, was, r, sync) \/ AppendFails(f, s, was, r, sync)
    PROVE  SafelyWritten(f, s, was, r, sync)
  <1> DEFINE R == KnownRecords(logged')
  <1>1. R \subseteq Records /\ logged \in Nat /\ DiskTypes
    BY KnownTypes DEF TypeInv, LogTypes
  <1>2. /\ file \in Seq(LinesOf(R)) /\ file \in Seq(Lines) /\ synced \in 0 .. Len(file)
        /\ torn \in BOOLEAN /\ faults \in FaultTypes
    BY <1>1, FileTypes DEF DiskTypes
  <1>3. /\ Repaired(file) \in Seq(LinesOf(R)) /\ Resynced \in 0 .. Len(Repaired(file))
        /\ RecordsOf(Repaired(file)) = RecordsOf(file)
        /\ Sound(file) => Sound(Repaired(file)) /\ ~ Torn(Repaired(file))
    BY <1>1, <1>2, ResyncedTypes, RepairedTypes
  <1>4. Stably(file, synced) \subseteq Stably(Repaired(file), Resynced)
    BY <1>2, RepairStable
  <1>5. f \in Seq(LinesOf(R)) /\ s \in 0 .. Len(f) /\ was \in BOOLEAN
    BY <1>2, <1>3
  <1>6. (faults.glued => faults'.glued) /\ (Torn(file') => torn')
    BY <1>2, <1>5, WriteTypes
  <1>7. Sound(file) /\ (open /\ Torn(file) => torn)
    BY <1>6 DEF SafeInv, FileInv
  <1>8. Sound(f) /\ (Torn(f) => was) /\ RecordsOf(f) = RecordsOf(file)
        /\ Stably(file, synced) \subseteq Stably(f, s)
    BY <1>3, <1>4, <1>7
  <1>9. SoundlyWritten(f, s, was, r, sync)
    <2>1. r \in R /\ (Appends(f, s, was, r, sync) \/ AppendFails(f, s, was, r, sync))
      OBVIOUS
    <2> HIDE DEF R
    <2> QED
      BY <1>1, <1>2, <1>5, <1>8, <2>1, WriteSound
  <1> QED
    BY <1>6, <1>8, <1>9 DEF SoundlyWritten, SafelyWritten

\* Records are told apart by their kind.
LEMMA RecordKinds ==
    ASSUME NEW n, NEW id, NEW b \in BOOLEAN
    PROVE  /\ EventRecord(n) # Terminal(id) /\ Intent(n) # Terminal(id)
           /\ ArchiveRecord(b) # Terminal(id)
           /\ Terminal(n) = Terminal(id) => n = id
  BY DEF EventRecord, Terminal, Intent, ArchiveRecord

\* The promises are kept when what is stable stays so, a new promise is on stable
\* storage, and no terminal record is new but of what is settled.
LEMMA PromiseKept ==
    ASSUME PromiseInv, Stably(file, synced) \subseteq Stably(file', synced'),
           \A n \in kept' : n \in kept \/ EventRecord(n) \in Stably(file', synced'),
           \A id \in admitted' \ settled' :
              id \in admitted \ settled \/ Intent(id) \in Stably(file', synced'),
           settled \subseteq settled',
           \A id \in 1 .. MaxPrompts : Terminal(id) \in ToSet(RecordsOf(file')) =>
                                          Terminal(id) \in ToSet(RecordsOf(file)) \/ id \in settled'
    PROVE  PromiseInv'
  BY DEF PromiseInv

\* An event that is written (push_event).
LEMMA PushSafe ==
    ASSUME TypeInv, SafeInv, open, NEW boundary \in BOOLEAN, Push(boundary),
           UNCHANGED <<admitted, settled>>, ~ faults'.glued
    PROVE  /\ ~ faults.glued /\ Sound(file') /\ (Torn(file') => torn')
           /\ PromiseInv'
  <1> DEFINE r == EventRecord(logged')
             sync == Synced(boundary)
             succeeds == Appends(file, synced, torn, r, sync)
  <1>1. /\ logged' = logged + 1
        /\ \/ succeeds /\ kept' = IF boundary THEN kept \cup {logged'} ELSE kept
           \/ AppendFails(file, synced, torn, r, sync) /\ kept' = kept
        /\ sync = boundary
    BY DEF Push, Synced
  <1>2. logged \in Nat
    BY DEF TypeInv, LogTypes
  <1>3. logged' \in Nat /\ logged <= logged' /\ logged' \in 1 .. logged'
    BY <1>1, <1>2
  <1>4. r \in KnownRecords(logged')
    BY <1>3, KnownTypes
  <1>5. sync \in BOOLEAN
    BY <1>1
  <1> HIDE DEF r, sync
  <1>6. /\ ~ faults.glued /\ Sound(file') /\ (Torn(file') => torn')
        /\ Stably(file, synced) \subseteq Stably(file', synced')
        /\ ToSet(RecordsOf(file')) \subseteq ToSet(RecordsOf(file)) \cup {r}
        /\ succeeds /\ sync => r \in Stably(file', synced')
    <2>1. SafelyWritten(file, synced, torn, r, sync)
      BY <1>1, <1>3, <1>4, <1>5, AppendSafe
    <2> QED
      BY <2>1 DEF SafelyWritten
  <1>7. PromiseInv
    BY <1>6 DEF SafeInv
  <1>8. \A n \in kept' : n \in kept \/ EventRecord(n) \in Stably(file', synced')
    BY <1>1, <1>6 DEF r
  <1>9. \A id \in 1 .. MaxPrompts : Terminal(id) \in ToSet(RecordsOf(file')) =>
                                       Terminal(id) \in ToSet(RecordsOf(file)) \/ id \in settled'
    BY <1>6, RecordKinds DEF r
  <1>10. PromiseInv'
    BY <1>6, <1>7, <1>8, <1>9, PromiseKept
  <1> QED
    BY <1>6, <1>10

\* A prompt that is settled (finish_prompt_intent).
LEMMA FinishSafe ==
    ASSUME TypeInv, SafeInv, open, NEW p \in 1 .. MaxPrompts, Finish(p),
           UNCHANGED <<logged, kept, admitted>>, ~ faults'.glued
    PROVE  /\ ~ faults.glued /\ Sound(file') /\ (Torn(file') => torn')
           /\ PromiseInv'
  <1> DEFINE r == Terminal(p)
  <1>1. /\ settled' = settled \cup {p}
        /\ Appends(file, synced, torn, r, TRUE) \/ AppendFails(file, synced, torn, r, TRUE)
    BY DEF Finish, AppendTolerant
  <1>2. logged \in Nat
    BY DEF TypeInv, LogTypes
  <1>3. logged' \in Nat /\ logged <= logged' /\ TRUE \in BOOLEAN
    BY <1>2
  <1>4. r \in KnownRecords(logged')
    BY <1>3, KnownTypes
  <1> HIDE DEF r
  <1>5. /\ ~ faults.glued /\ Sound(file') /\ (Torn(file') => torn')
        /\ Stably(file, synced) \subseteq Stably(file', synced')
        /\ ToSet(RecordsOf(file')) \subseteq ToSet(RecordsOf(file)) \cup {r}
    <2>1. SafelyWritten(file, synced, torn, r, TRUE)
      BY <1>1, <1>3, <1>4, AppendSafe
    <2> QED
      BY <2>1 DEF SafelyWritten
  <1>6. PromiseInv
    BY <1>5 DEF SafeInv
  <1>7. \A id \in 1 .. MaxPrompts : Terminal(id) \in ToSet(RecordsOf(file')) =>
                                       Terminal(id) \in ToSet(RecordsOf(file)) \/ id \in settled'
    BY <1>1, <1>5, RecordKinds DEF r
  <1>8. PromiseInv'
    BY <1>1, <1>5, <1>6, <1>7, PromiseKept
  <1> QED
    BY <1>5, <1>8

\* A sound file can be recovered (walk_wal).
LEMMA SoundReadable ==
    ASSUME NEW f \in Seq(Lines), Sound(f)
    PROVE  Readable(f)
  <1> SUFFICES ASSUME NEW i \in DOMAIN f
               PROVE  Parses(f[i]) \/ (i = Len(f) /\ ~ f[i].ended)
    BY DEF Readable
  <1>1. i \in 1 .. Len(f) /\ Len(f) \in Nat
    OBVIOUS
  <1> QED
    BY <1>1 DEF Sound, Parses

\* A new session has an empty file, and nothing is promised.
LEMMA SafeBegin == Init => SafeInv
  <1> SUFFICES ASSUME Init
               PROVE  FileInv /\ PromiseInv
    BY DEF SafeInv
  <1>1. file = << >> /\ Len(file) = 0 /\ ~ Torn(file) /\ mode = "up"
    BY DEF Init, Torn
  <1>2. FileInv
    BY <1>1 DEF FileInv, Sound
  <1>3. << >> \in Seq(Lines)
    OBVIOUS
  <1>4. ToSet(RecordsOf(file)) = {}
    <2>1. ToSet(RecordsOf(<< >>)) =
             {RecordOf(<< >>[i]) : i \in {j \in 1 .. Len(<< >>) : Parses(<< >>[j])}}
      BY <1>3, AllLines, RecordElements
    <2> QED
      BY <1>1, <2>1
  <1> QED
    BY <1>2, <1>4 DEF PromiseInv, Init

\* Every step keeps the file sound and the promises.
LEMMA SafeStep == TypeInv /\ TypeInv' /\ SafeInv /\ [Next]_vars => SafeInv'
  <1> SUFFICES ASSUME TypeInv, TypeInv', SafeInv, [Next]_vars, ~ faults'.glued
               PROVE  FileInv' /\ PromiseInv'
    BY DEF SafeInv
  <1>0. /\ logged \in Nat /\ logged' \in Nat /\ MaxPrompts \in Nat
        /\ DiskTypes /\ ActorTypes /\ DiskTypes'
    BY BoundsAssumption DEF TypeInv, LogTypes
  <1>a. /\ file \in Seq(Lines) /\ synced \in 0 .. Len(file)
        /\ file' \in Seq(Lines) /\ synced' \in 0 .. Len(file')
    <2>1. file \in Seq(Lines)
      BY <1>0, FileTypes
    <2>2. file' \in Seq(LinesOf(KnownRecords(logged'))) /\ synced' \in 0 .. Len(file')
      BY <1>0 DEF DiskTypes
    <2>3. file' \in Seq(Lines)
      BY <1>0, <2>2, KnownTypes, FewerLines, AllLines
    <2> QED
      BY <1>0, <2>1, <2>2, <2>3 DEF DiskTypes
  <1>b. ASSUME Sound(file'), Torn(file') => torn', mode = "up", UNCHANGED mode
        PROVE  FileInv'
    BY <1>b DEF FileInv
  <1>1. ASSUME NEW boundary \in BOOLEAN, Record(boundary)
        PROVE  FileInv' /\ PromiseInv'
    <2>1. /\ open /\ mode = "up" /\ Push(boundary)
          /\ UNCHANGED <<mode, admitted, settled>>
      BY <1>1 DEF Record, Begins, Ready
    <2>2. Sound(file') /\ (Torn(file') => torn') /\ PromiseInv'
      BY <2>1, PushSafe
    <2> QED
      BY <1>b, <2>1, <2>2
  <1>2. CASE Admit
    <2> DEFINE r == Intent(nextPrompt)
               succeeds == Appends(file, synced, torn, r, TRUE)
    <2>1. /\ open /\ mode = "up" /\ UNCHANGED <<mode, logged, kept, settled>>
          /\ nextPrompt \in 1 .. MaxPrompts
          /\ \/ succeeds /\ admitted' = admitted \cup {nextPrompt}
             \/ AppendFails(file, synced, torn, r, TRUE) /\ admitted' = admitted
      <3>1. nextPrompt \in 1 .. MaxPrompts + 1 /\ nextPrompt <= MaxPrompts
        BY <1>0, <1>2 DEF Admit, ActorTypes
      <3>2. nextPrompt \in 1 .. MaxPrompts
        BY <1>0, <3>1
      <3>3. open /\ mode = "up" /\ UNCHANGED <<mode, logged, kept, settled>>
        BY <1>2 DEF Admit, Begins, Ready
      <3>4. \/ succeeds /\ admitted' = admitted \cup {nextPrompt}
            \/ AppendFails(file, synced, torn, r, TRUE) /\ admitted' = admitted
        BY <1>2 DEF Admit
      <3> QED
        BY <3>2, <3>3, <3>4
    <2>2. r \in KnownRecords(logged') /\ logged <= logged' /\ TRUE \in BOOLEAN
      BY <1>0, <2>1, KnownTypes
    <2> HIDE DEF r
    <2>3. /\ ~ faults.glued /\ Sound(file') /\ (Torn(file') => torn')
          /\ Stably(file, synced) \subseteq Stably(file', synced')
          /\ ToSet(RecordsOf(file')) \subseteq ToSet(RecordsOf(file)) \cup {r}
          /\ succeeds => r \in Stably(file', synced')
      <3>1. SafelyWritten(file, synced, torn, r, TRUE)
        BY <1>0, <2>1, <2>2, AppendSafe
      <3> QED
        BY <3>1 DEF SafelyWritten
    <2>4. PromiseInv
      BY <2>3 DEF SafeInv
    <2>5. \A id \in admitted' \ settled' :
             id \in admitted \ settled \/ Intent(id) \in Stably(file', synced')
      BY <2>1, <2>3 DEF r
    <2>6. \A id \in 1 .. MaxPrompts : Terminal(id) \in ToSet(RecordsOf(file')) =>
                                         Terminal(id) \in ToSet(RecordsOf(file)) \/ id \in settled'
      BY <2>3, RecordKinds DEF r
    <2>7. PromiseInv'
      BY <2>1, <2>3, <2>4, <2>5, <2>6, PromiseKept
    <2> QED
      BY <1>b, <2>1, <2>3, <2>7
  <1>3. CASE Deliver
    <2>1. /\ open /\ mode = "up" /\ Finish(task.id) /\ task.id \in 1 .. MaxPrompts
          /\ UNCHANGED <<mode, logged, kept, admitted>>
      BY <1>0, <1>3 DEF Deliver, Ready, ActorTypes
    <2>2. Sound(file') /\ (Torn(file') => torn') /\ PromiseInv'
      BY <2>1, FinishSafe
    <2> QED
      BY <1>b, <2>1, <2>2
  <1>c. ASSUME UNCHANGED <<file, synced, torn, faults, mode, open, kept, admitted, settled>>
        PROVE  FileInv' /\ PromiseInv'
    <2>1. FileInv /\ PromiseInv
      BY <1>c DEF SafeInv
    <2> QED
      BY <1>c, <2>1 DEF FileInv, PromiseInv
  <1>4. CASE LogPrompt
    <2>1. CASE logged < MaxEvents
      <3>1. /\ open /\ mode = "up" /\ Push(TRUE) /\ TRUE \in BOOLEAN
            /\ UNCHANGED <<mode, admitted, settled>>
        BY <1>0, <1>4, <2>1 DEF LogPrompt, Ready, ActorTypes
      <3>2. Sound(file') /\ (Torn(file') => torn') /\ PromiseInv'
        BY <3>1, PushSafe
      <3> QED
        BY <1>b, <3>1, <3>2
    <2>2. CASE ~ (logged < MaxEvents)
      BY <1>4, <1>c, <2>2 DEF LogPrompt, disk
    <2> QED
      BY <2>1, <2>2
  <1>d. ASSUME pending # << >>
        PROVE  Head(pending) \in 1 .. MaxPrompts
    <2>1. pending \in Seq(1 .. nextPrompt - 1) /\ nextPrompt \in 1 .. MaxPrompts + 1
      BY <1>0 DEF ActorTypes
    <2>2. Head(pending) \in 1 .. nextPrompt - 1
      BY <1>d, <2>1
    <2> QED
      BY <1>0, <2>1, <2>2
  <1>5. CASE HandOver
    <2>1. /\ open /\ mode = "up" /\ Finish(Head(pending)) /\ Head(pending) \in 1 .. MaxPrompts
          /\ UNCHANGED <<mode, logged, kept, admitted>>
      BY <1>5, <1>d DEF HandOver, Begins, Ready
    <2>2. Sound(file') /\ (Torn(file') => torn') /\ PromiseInv'
      BY <2>1, FinishSafe
    <2> QED
      BY <1>b, <2>1, <2>2
  <1>e. ASSUME NEW r \in KnownRecords(logged), NEW f, NEW s, NEW was, mode = "up",
               \/ open /\ f = file /\ s = synced /\ was = torn
               \/ f = Repaired(file) /\ s = Resynced /\ was = FALSE,
               Appends(f, s, was, r, TRUE) \/ AppendFails(f, s, was, r, TRUE),
               UNCHANGED <<mode, logged, kept, admitted, settled>>,
               \A id : r # Terminal(id)
        PROVE  FileInv' /\ PromiseInv'
    <2>1. r \in KnownRecords(logged') /\ logged <= logged' /\ TRUE \in BOOLEAN
      BY <1>0, <1>e
    <2>2. /\ ~ faults.glued /\ Sound(file') /\ (Torn(file') => torn')
          /\ Stably(file, synced) \subseteq Stably(file', synced')
          /\ ToSet(RecordsOf(file')) \subseteq ToSet(RecordsOf(file)) \cup {r}
      <3>1. SafelyWritten(f, s, was, r, TRUE)
        BY <1>0, <1>e, <2>1, AppendSafe
      <3> QED
        BY <3>1 DEF SafelyWritten
    <2>3. PromiseInv
      BY <2>2 DEF SafeInv
    <2>4. PromiseInv'
      BY <1>e, <2>2, <2>3, PromiseKept
    <2> QED
      BY <1>b, <1>e, <2>2, <2>4
  <1>f. \A b \in BOOLEAN : /\ ArchiveRecord(b) \in KnownRecords(logged)
                           /\ \A id : ArchiveRecord(b) # Terminal(id)
    BY <1>0, KnownTypes, RecordKinds
  <1>6. CASE Archive
    <2>1. /\ open /\ mode = "up" /\ UNCHANGED <<mode, logged, kept, admitted, settled>>
          /\ \/ Appends(file, synced, torn, ArchiveRecord(TRUE), TRUE)
             \/ AppendFails(file, synced, torn, ArchiveRecord(TRUE), TRUE)
      BY <1>6 DEF Archive, Begins, Ready
    <2> QED
      BY <1>e, <1>f, <2>1
  <1>7. CASE Cancel
    <2>1. /\ mode = "up" /\ open /\ UNCHANGED <<mode, logged, kept, admitted>>
      BY <1>0, <1>7 DEF Cancel, Ready, ActorTypes
    <2>2. CASE pending # << >>
      <3>1. Finish(Head(pending)) /\ Head(pending) \in 1 .. MaxPrompts
        BY <1>7, <1>d, <2>2 DEF Cancel
      <3>2. Sound(file') /\ (Torn(file') => torn') /\ PromiseInv'
        BY <2>1, <3>1, FinishSafe
      <3> QED
        BY <1>b, <2>1, <3>2
    <2>3. CASE pending = << >>
      <3>1. /\ open' = FALSE /\ UNCHANGED <<file, synced, faults, settled>>
        BY <1>7, <2>3 DEF Cancel, disk
      <3>2. FileInv /\ PromiseInv
        BY <3>1 DEF SafeInv
      <3> QED
        BY <2>1, <3>1, <3>2 DEF FileInv, PromiseInv
    <2> QED
      BY <2>2, <2>3
  <1>8. CASE Unarchive
    <2>1. /\ mode = "up" /\ UNCHANGED <<mode, logged, kept, admitted, settled>>
          /\ \/ Appends(Repaired(file), Resynced, FALSE, ArchiveRecord(FALSE), TRUE)
             \/ AppendFails(Repaired(file), Resynced, FALSE, ArchiveRecord(FALSE), TRUE)
      BY <1>8 DEF Unarchive, Ready
    <2> QED
      BY <1>e, <1>f, <2>1
  <1>9. CASE Crash
    <2>1. /\ mode' = "down" /\ open' = FALSE
          /\ UNCHANGED <<file, synced, faults, kept, admitted, settled>>
      BY <1>9 DEF Crash, Stop, disk
    <2>2. FileInv /\ PromiseInv
      BY <2>1 DEF SafeInv
    <2> QED
      BY <2>1, <2>2 DEF FileInv, PromiseInv
  <1>10. CASE PowerLoss
    <2>1. mode' = "down" /\ open' = FALSE /\ UNCHANGED <<faults, kept, admitted, settled>>
      BY <1>10 DEF PowerLoss, Stop
    <2>2. FileInv /\ PromiseInv
      BY <2>1 DEF SafeInv
    <2>3. /\ synced' = Len(file') /\ synced <= Len(file')
          /\ \A i \in 1 .. synced : file'[i] = file[i]
          /\ Sound(file) => Sound(file') /\ Shortened(file', file)
      BY <1>0, <1>10, <1>a, LossTypes, AllLines
    <2>4. Sound(file') /\ Shortened(file', file)
      BY <2>2, <2>3 DEF FileInv
    <2>5. ToSet(RecordsOf(file')) \subseteq ToSet(RecordsOf(file))
      BY <1>a, <2>4, ShortenedRecords
    <2>6. Stably(file, synced) \subseteq Stably(file', synced')
      <3>1. synced' \in synced .. Len(file')
        BY <1>a, <2>3
      <3> QED
        BY <1>a, <2>3, <3>1, StablyKept
    <2>7. PromiseInv'
      BY <2>1, <2>2, <2>5, <2>6, PromiseKept
    <2> QED
      BY <2>1, <2>4, <2>7 DEF FileInv
  <1>11. CASE Recover
    <2>1. UNCHANGED <<faults, torn, kept, admitted, settled>>
      BY <1>11 DEF Recover, history
    <2>2. FileInv /\ PromiseInv
      BY <2>1 DEF SafeInv
    <2>3. Readable(file)
      BY <1>a, <2>2, SoundReadable DEF FileInv
    <2>4. /\ mode' = "up" /\ open' = ~ archived'
          /\ file' = IF archived' THEN file ELSE Repaired(file)
          /\ synced' = IF archived' THEN synced ELSE Resynced
      BY <1>11, <2>3 DEF Recover
    <2>5. CASE archived'
      <3>1. ~ open' /\ file' = file /\ synced' = synced
        BY <2>4, <2>5
      <3> QED
        BY <2>1, <2>2, <2>4, <3>1 DEF FileInv, PromiseInv
    <2>6. CASE ~ archived'
      <3>1. file' = Repaired(file) /\ synced' = Resynced
        BY <2>4, <2>6
      <3>2. Sound(file') /\ ~ Torn(file') /\ RecordsOf(file') = RecordsOf(file)
        BY <1>a, <2>2, <3>1, RepairedTypes, AllLines DEF FileInv
      <3>3. Stably(file, synced) \subseteq Stably(file', synced')
        BY <1>a, <3>1, RepairStable
      <3>4. PromiseInv'
        BY <2>1, <2>2, <3>2, <3>3, PromiseKept
      <3> QED
        BY <2>4, <3>2, <3>4 DEF FileInv
    <2> QED
      BY <2>5, <2>6
  <1>12. CASE UNCHANGED vars
    BY <1>12, <1>c DEF vars, disk, server, history
  <1> QED
    BY <1>1, <1>2, <1>3, <1>4, <1>5, <1>6, <1>7, <1>8, <1>9, <1>10, <1>11, <1>12 DEF Next

\* The inductive invariant.
LEMMA WalInvariant == Spec => [](TypeInv /\ SafeInv)
  <1>1. Init => TypeInv /\ SafeInv
    BY TypesBegin, SafeBegin
  <1>2. TypeInv /\ SafeInv /\ [Next]_vars => (TypeInv /\ SafeInv)'
    BY TypesStep, SafeStep
  <1> QED
    BY <1>1, <1>2, PTL DEF Spec

\* Wherever a failed append, a crash or a power loss cut the file, and however often it
\* was repaired and opened again, the session can be recovered, unless an append went
\* on behind one that had failed part of the way (walk_wal, repair_torn_tail).
THEOREM AlwaysRecoverable == Spec => []AlwaysReadable
  <1>1. TypeInv /\ SafeInv => AlwaysReadable
    <2> SUFFICES ASSUME TypeInv, SafeInv, ~ faults.glued
                 PROVE  Readable(file) /\ mode # "skipped"
      BY DEF AlwaysReadable
    <2>1. file \in Seq(Lines)
      BY FileTypes DEF TypeInv, LogTypes
    <2> QED
      BY <2>1, SoundReadable DEF SafeInv, FileInv
  <1> QED
    BY <1>1, WalInvariant, PTL

\* What was promised outlives every crash and power loss: the boundary events that were
\* appended and the prompts admitted and not settled are on stable storage, where
\* recovery finds them (wal_append, begin_prompt_intent, finish_prompt_intent).
THEOREM PromisesAlwaysSurvive == Spec => []PromisesSurvive
  <1>1. TypeInv /\ SafeInv => PromisesSurvive
    <2> SUFFICES ASSUME TypeInv, SafeInv, ~ faults.glued
                 PROVE  /\ kept \subseteq ToSet(EventsOf(Stable))
                        /\ admitted \ settled \subseteq ToSet(PendingOf(Stable))
      BY DEF PromisesSurvive
    <2>1. logged \in Nat /\ DiskTypes
      BY DEF TypeInv, LogTypes
    <2>2. file \in Seq(Lines) /\ synced \in 0 .. Len(file)
      BY <2>1, FileTypes DEF DiskTypes
    <2>3. Stable \in Seq(Lines)
      BY <2>2, FirstLines DEF Stable
    <2>4. ToSet(RecordsOf(Stable)) = Stably(file, synced)
      BY DEF Stable, Stably
    <2>5. Stably(file, synced) \subseteq ToSet(RecordsOf(file))
      BY <2>2, RepairStable
    <2>6. PromiseInv
      BY DEF SafeInv
    <2>7. /\ kept \subseteq Nat /\ admitted \subseteq 1 .. MaxPrompts
          /\ 1 .. MaxPrompts \subseteq Nat
      BY <2>1, BoundsAssumption DEF TypeInv, LogTypes, ActorTypes
    <2>8. kept \subseteq ToSet(EventsOf(Stable))
      BY <2>3, <2>4, <2>6, <2>7, RecoveredSets DEF PromiseInv
    <2>9. ASSUME NEW id \in admitted \ settled
          PROVE  id \in ToSet(PendingOf(Stable))
      <3>1. Intent(id) \in ToSet(RecordsOf(Stable)) /\ Terminal(id) \notin ToSet(RecordsOf(Stable))
        BY <2>4, <2>5, <2>6, <2>7, <2>9 DEF PromiseInv
      <3>2. id \in Nat
        BY <2>7, <2>9
      <3> QED
        BY <2>3, <3>1, <3>2, RecoveredSets
    <2> QED
      BY <2>8, <2>9
  <1> QED
    BY <1>1, WalInvariant, PTL

-----------------------------------------------------------------------------
(***************************************************************************)
(* The file follows the actor as long as no append fails.                  *)
(***************************************************************************)

\* No prompt's intent is on two lines.
OneIntent(f) ==
    \A i, j \in 1 .. Len(f) :
        Parses(f[i]) /\ Parses(f[j]) /\ RecordOf(f[i]) = RecordOf(f[j])
            /\ RecordOf(f[i]).kind = "intent" => i = j

DiskFollows ==
    /\ EventsOf(file) = log
    /\ ArchivedOf(file) = archived
    /\ \A r \in ToSet(RecordsOf(file)) : r.kind = "intent" => r.n < nextPrompt

\* An archived session has its handle until its prompts are cancelled, and begins
\* nothing else.
ActorFollows ==
    /\ open <=> ~ (archived /\ task = Idle)
    /\ task.kind = "cancel" => archived
    /\ archived => task.kind \in {"idle", "cancel"}

FollowInv ==
    faults.failed = 0 => OneIntent(file) /\ (mode = "up" => DiskFollows /\ ActorFollows)

\* What is left of a file has no intent twice either.
LEMMA OneIntentShortened ==
    ASSUME NEW f \in Seq(Lines), NEW g \in Seq(Lines), OneIntent(f), Shortened(g, f)
    PROVE  OneIntent(g)
  <1>1. Len(f) \in Nat /\ Len(g) \in Nat /\ \A i \in 1 .. Len(g) : i \in 1 .. Len(f)
    BY DEF Shortened
  <1> QED
    BY <1>1 DEF OneIntent, Shortened

\* Nor has a repaired file.
LEMMA OneIntentRepaired ==
    ASSUME NEW f \in Seq(Lines), OneIntent(f)
    PROVE  OneIntent(Repaired(f))
  <1> DEFINE g == Repaired(f)
  <1>1. /\ g \in Seq(Lines) /\ Len(g) <= Len(f)
        /\ \A i \in 1 .. Len(g) : g[i].fragments = f[i].fragments
    BY RepairedTypes, AllLines
  <1> HIDE DEF g
  <1>2. Shortened(g, f)
    BY <1>1 DEF Shortened, Parses, RecordOf
  <1>3. OneIntent(g)
    BY <1>1, <1>2, OneIntentShortened
  <1> QED
    BY <1>3 DEF g

\* A line more, of another record or of no intent.
LEMMA OneIntentAppend ==
    ASSUME NEW f \in Seq(Lines), OneIntent(f), NEW r \in Records,
           r.kind = "intent" => r \notin ToSet(RecordsOf(f))
    PROVE  OneIntent(Append(f, Line(r, TRUE, TRUE)))
  <1> DEFINE l == Line(r, TRUE, TRUE)
             n == Len(f)
             g == Append(f, l)
  <1>1. l \in Lines /\ RecordOf(l) = r
    BY LineTypes, AllLines
  <1>2. ToSet(RecordsOf(f)) = {RecordOf(f[i]) : i \in {j \in 1 .. n : Parses(f[j])}}
    BY RecordElements, AllLines
  <1> HIDE DEF l
  <1>3. n \in Nat /\ Len(g) = n + 1 /\ g[n + 1] = l /\ \A i \in 1 .. n : g[i] = f[i]
    BY <1>1
  <1>4. r.kind = "intent" => \A i \in 1 .. n : Parses(f[i]) => RecordOf(f[i]) # r
    BY <1>2
  <1> HIDE DEF g, n
  <1>5. ASSUME NEW i \in 1 .. n + 1, NEW j \in 1 .. n + 1,
               Parses(g[i]), Parses(g[j]), RecordOf(g[i]) = RecordOf(g[j]),
               RecordOf(g[i]).kind = "intent"
        PROVE  i = j
    <2>1. CASE i \in 1 .. n /\ j \in 1 .. n
      BY <1>3, <1>5, <2>1 DEF OneIntent, n
    <2>2. CASE i = n + 1 /\ j \in 1 .. n
      BY <1>1, <1>3, <1>4, <1>5, <2>2
    <2>3. CASE i \in 1 .. n /\ j = n + 1
      BY <1>1, <1>3, <1>4, <1>5, <2>3
    <2> QED
      BY <1>3, <2>1, <2>2, <2>3
  <1>6. OneIntent(g)
    BY <1>3, <1>5 DEF OneIntent
  <1> QED
    BY <1>6 DEF g, l

\* Then the intents that recovery finds are of different prompts (recover_one).
LEMMA OneIntentDistinct ==
    ASSUME NEW f \in Seq(Lines), OneIntent(f)
    PROVE  Distinct(OfKind(f, {"intent"}))
  <1> DEFINE k == {"intent"}
             G == {h \in Seq(Lines) : OneIntent(h) => Distinct(OfKind(h, k))}
  <1>1. << >> \in G
    <2>1. << >> \in Seq(Lines)
      OBVIOUS
    <2>2. /\ OfKind(<< >>, k) \in Seq(Records)
          /\ ToSet(OfKind(<< >>, k)) \subseteq ToSet(RecordsOf(<< >>))
      <3>1. \A h \in Seq(Lines) : /\ OfKind(h, k) \in Seq(Records)
                                  /\ ToSet(OfKind(h, k)) \subseteq ToSet(RecordsOf(h))
        BY KindElements, AllLines
      <3> HIDE DEF k
      <3> QED
        BY <2>1, <3>1
    <2>3. ToSet(RecordsOf(<< >>)) = {}
      <3>1. ToSet(RecordsOf(<< >>)) =
               {RecordOf(<< >>[i]) : i \in {j \in 1 .. Len(<< >>) : Parses(<< >>[j])}}
        BY <2>1, AllLines, RecordElements
      <3> QED
        BY <3>1
    <2>4. Distinct(OfKind(<< >>, k))
      <3> DEFINE s == OfKind(<< >>, k)
      <3> HIDE DEF s
      <3>1. \A i \in DOMAIN s : FALSE
        BY <2>2, <2>3 DEF ToSet, s
      <3> QED
        BY <3>1 DEF Distinct, s
    <2> QED
      BY <2>1, <2>4
  <1>2. ASSUME NEW h \in Seq(Lines), h \in G, NEW l \in Lines
        PROVE  Append(h, l) \in G
    <2> DEFINE g == Append(h, l)
               n == Len(h)
               s == OfKind(h, k)
    <2>1. g \in Seq(Lines) /\ n \in Nat /\ Len(g) = n + 1 /\ g[n + 1] = l /\ \A i \in 1 .. n : g[i] = h[i]
      BY <1>2
    <2> SUFFICES ASSUME OneIntent(g)
                 PROVE  Distinct(OfKind(g, k))
      BY <2>1
    <2>2. OneIntent(h)
      <3> HIDE DEF g, n
      <3>1. \A i \in 1 .. n : i \in 1 .. n + 1
        BY <2>1
      <3> QED
        BY <2>1, <3>1 DEF OneIntent, n
    <2>3. Distinct(s)
      BY <1>2, <2>2
    <2>4. RecordsOf(g) = IF Parses(l) THEN Append(RecordsOf(h), RecordOf(l)) ELSE RecordsOf(h)
      BY <1>2, RecordsAppend, AllLines
    <2>5. CASE ~ Parses(l)
      BY <2>3, <2>4, <2>5 DEF OfKind
    <2>6. CASE Parses(l)
      <3> DEFINE r == RecordOf(l)
      <3>1. r \in Records /\ RecordsOf(g) = Append(RecordsOf(h), r)
        BY <2>4, <2>6, ParsedRecord, AllLines
      <3>2. OfKind(g, k) = IF r.kind \in k THEN Append(s, r) ELSE s
        BY <1>2, <3>1, KindAppend
      <3>3. r.kind = "intent" => r \notin ToSet(RecordsOf(h))
        <4>1. ToSet(RecordsOf(h)) = {RecordOf(h[i]) : i \in {j \in 1 .. n : Parses(h[j])}}
          BY <1>2, RecordElements, AllLines
        <4> SUFFICES ASSUME r.kind = "intent", NEW i \in 1 .. n, Parses(h[i]), RecordOf(h[i]) = r
                     PROVE  FALSE
          BY <4>1
        <4> HIDE DEF g, n
        <4>2. i \in 1 .. n + 1 /\ n + 1 \in 1 .. n + 1 /\ i # n + 1 /\ g[i] = h[i]
          BY <2>1
        <4> QED
          BY <2>1, <2>6, <4>2 DEF OneIntent
      <3>4. s \in Seq(Records) /\ ToSet(s) \subseteq ToSet(RecordsOf(h))
        BY <1>2, KindElements, AllLines
      <3> HIDE DEF s, r
      <3>5. r.kind \in k => Distinct(Append(s, r))
        BY <2>3, <3>1, <3>3, <3>4, AppendElements
      <3> QED
        BY <2>3, <3>2, <3>5
    <2> QED
      BY <2>5, <2>6
  <1> HIDE DEF G
  <1>3. Seq(Lines) \subseteq G
    BY <1>1, <1>2, ByAppending
  <1> QED
    BY <1>3 DEF G

\* When no append has failed an append succeeds, and the file has its record as it has
\* those before.
LEMMA AppendFollows ==
    ASSUME TypeInv, TypeInv', SafeInv, logged <= logged', faults'.failed = 0, OneIntent(file),
           NEW r \in KnownRecords(logged'), NEW sync \in BOOLEAN,
           NEW f, NEW s, NEW was,
           \/ open /\ f = file /\ s = synced /\ was = torn
           \/ f = Repaired(file) /\ s = Resynced /\ was = FALSE,
           Appends(f, s, was, r, sync),
           r.kind = "intent" => r \notin ToSet(RecordsOf(file))
    PROVE  /\ OneIntent(file')
           /\ EventsOf(file') = IF r.kind = "event" THEN Append(EventsOf(file), r.n) ELSE EventsOf(file)
           /\ ArchivedOf(file') = IF r.kind \in {"archive", "unarchive"} THEN r.kind = "archive"
                                  ELSE ArchivedOf(file)
           /\ ToSet(RecordsOf(file')) \subseteq ToSet(RecordsOf(file)) \cup {r}
           /\ RecordsOf(file') = Append(RecordsOf(file), r)
  <1>1. logged \in Nat /\ logged' \in Nat /\ DiskTypes /\ DiskTypes'
    BY DEF TypeInv, LogTypes
  <1>2. file \in Seq(Lines) /\ r \in Records
    BY <1>1, FileTypes, KnownTypes
  <1>3. ~ faults'.glued
    BY <1>1 DEF DiskTypes, FaultTypes
  <1>4. /\ ToSet(RecordsOf(file')) \subseteq ToSet(RecordsOf(file)) \cup {r}
        /\ RecordsOf(file') = Append(RecordsOf(file), r)
        /\ file' = Append(f, Line(r, TRUE, TRUE))
        /\ RecordsOf(f) = RecordsOf(file)
    <2>1. SafelyWritten(f, s, was, r, sync)
      BY <1>1, <1>3, AppendSafe
    <2> QED
      BY <2>1 DEF SafelyWritten
  <1>5. f \in Seq(Lines) /\ OneIntent(f)
    BY <1>2, OneIntentRepaired, RepairedTypes, AllLines
  <1>6. OneIntent(file')
    BY <1>2, <1>4, <1>5, OneIntentAppend
  <1>7. /\ EventsOf(file') = IF r.kind = "event" THEN Append(EventsOf(file), r.n) ELSE EventsOf(file)
        /\ ArchivedOf(file') = IF r.kind \in {"archive", "unarchive"} THEN r.kind = "archive"
                               ELSE ArchivedOf(file)
    BY <1>2, <1>4, RecordMore
  <1> QED
    BY <1>4, <1>6, <1>7

\* An append that fails is counted.
LEMMA FailureCounted ==
    ASSUME faults \in FaultTypes, NEW f, NEW s, NEW was, NEW r, NEW sync
    PROVE  /\ AppendFails(f, s, was, r, sync) => faults'.failed # 0
           /\ Appends(f, s, was, r, sync) => faults'.failed = faults.failed
  <1>1. faults.failed \in Nat /\ faults \in [failed : Nat, glued : BOOLEAN]
    BY BoundsAssumption DEF FaultTypes
  <1>2. ASSUME AppendFails(f, s, was, r, sync)
        PROVE  faults'.failed # 0
    <2>1. faults'.failed = faults.failed + 1
      BY <1>2 DEF AppendFails
    <2> QED
      BY <1>1, <2>1
  <1>3. ASSUME Appends(f, s, was, r, sync)
        PROVE  faults'.failed = faults.failed
    <2>1. faults' = [faults EXCEPT !.glued = @ \/ was]
      BY <1>3 DEF Appends
    <2> QED
      BY <1>1, <2>1
  <1> QED
    BY <1>2, <1>3

\* An event more, for a session that is up and not archived (push_event).
LEMMA PushFollows ==
    ASSUME TypeInv, TypeInv', SafeInv, FollowInv, mode = "up", open, ~ archived,
           NEW boundary \in BOOLEAN, Push(boundary), UNCHANGED <<archived, nextPrompt>>,
           faults'.failed = 0
    PROVE  faults.failed = 0 /\ OneIntent(file') /\ DiskFollows'
  <1> DEFINE r == EventRecord(logged')
             sync == Synced(boundary)
  <1>1. faults \in FaultTypes /\ logged \in Nat /\ logged' \in Nat
    BY DEF TypeInv, DiskTypes, LogTypes
  <1>2. /\ logged' = logged + 1 /\ log' = Append(log, logged')
        /\ Appends(file, synced, torn, r, sync) \/ AppendFails(file, synced, torn, r, sync)
        /\ sync \in BOOLEAN
    BY DEF Push, Synced
  <1>3. r \in KnownRecords(logged') /\ r.kind = "event" /\ r.n = logged' /\ logged <= logged'
    <2>1. logged' \in 1 .. logged' /\ logged <= logged'
      BY <1>1, <1>2
    <2> QED
      BY <1>1, <2>1, KnownTypes DEF EventRecord
  <1> HIDE DEF r, sync
  <1>4. Appends(file, synced, torn, r, sync) /\ faults.failed = 0
    BY <1>1, <1>2, FailureCounted
  <1>5. OneIntent(file) /\ DiskFollows
    BY <1>4 DEF FollowInv
  <1>6. /\ OneIntent(file')
        /\ EventsOf(file') = Append(EventsOf(file), logged')
        /\ ArchivedOf(file') = ArchivedOf(file)
        /\ ToSet(RecordsOf(file')) \subseteq ToSet(RecordsOf(file)) \cup {r}
    BY <1>2, <1>3, <1>4, <1>5, AppendFollows
  <1> QED
    BY <1>2, <1>3, <1>4, <1>5, <1>6 DEF DiskFollows

\* A prompt is settled (finish_prompt_intent).
LEMMA FinishFollows ==
    ASSUME TypeInv, TypeInv', SafeInv, FollowInv, mode = "up", open,
           NEW p \in 1 .. MaxPrompts, Finish(p), UNCHANGED <<logged, log, archived, nextPrompt>>,
           faults'.failed = 0
    PROVE  faults.failed = 0 /\ OneIntent(file') /\ DiskFollows'
  <1> DEFINE r == Terminal(p)
  <1>1. faults \in FaultTypes /\ logged \in Nat /\ logged' \in Nat /\ logged <= logged'
        /\ TRUE \in BOOLEAN
    BY DEF TypeInv, DiskTypes, LogTypes
  <1>2. Appends(file, synced, torn, r, TRUE) \/ AppendFails(file, synced, torn, r, TRUE)
    BY DEF Finish, AppendTolerant
  <1>3. r \in KnownRecords(logged') /\ r.kind = "terminal"
    BY <1>1, KnownTypes DEF Terminal
  <1> HIDE DEF r
  <1>4. Appends(file, synced, torn, r, TRUE) /\ faults.failed = 0
    BY <1>1, <1>2, FailureCounted
  <1>5. OneIntent(file) /\ DiskFollows
    BY <1>4 DEF FollowInv
  <1>6. /\ OneIntent(file')
        /\ EventsOf(file') = EventsOf(file)
        /\ ArchivedOf(file') = ArchivedOf(file)
        /\ ToSet(RecordsOf(file')) \subseteq ToSet(RecordsOf(file)) \cup {r}
    BY <1>1, <1>3, <1>4, <1>5, AppendFollows
  <1> QED
    BY <1>3, <1>4, <1>5, <1>6 DEF DiskFollows

\* A sequence without elements is empty.
LEMMA NoElements ==
    ASSUME NEW S, NEW s \in Seq(S), ToSet(s) = {}
    PROVE  s = << >>
  <1>1. s # << >> => s[1] \in ToSet(s)
    BY DEF ToSet
  <1> QED
    BY <1>1

\* A new session's file says what its actor believes.
LEMMA FollowBegin == Init => FollowInv
  <1> SUFFICES ASSUME Init
               PROVE  OneIntent(file) /\ DiskFollows /\ ActorFollows
    BY DEF FollowInv
  <1>1. /\ file = << >> /\ log = << >> /\ archived = FALSE /\ open = TRUE /\ task = Idle
        /\ << >> \in Seq(Lines)
    BY DEF Init
  <1>2. OneIntent(file)
    BY <1>1 DEF OneIntent
  <1>3. ToSet(RecordsOf(file)) = {}
    <2>1. ToSet(RecordsOf(<< >>)) =
             {RecordOf(<< >>[i]) : i \in {j \in 1 .. Len(<< >>) : Parses(<< >>[j])}}
      BY <1>1, AllLines, RecordElements
    <2> QED
      BY <1>1, <2>1
  <1>4. \A kinds : OfKind(file, kinds) = << >>
    <2> SUFFICES ASSUME NEW kinds
                 PROVE  OfKind(file, kinds) = << >>
      OBVIOUS
    <2> DEFINE s == OfKind(file, kinds)
    <2>1. \A f \in Seq(Lines) : /\ OfKind(f, kinds) \in Seq(Records)
                                /\ ToSet(OfKind(f, kinds)) \subseteq ToSet(RecordsOf(f))
      BY KindElements, AllLines
    <2>2. s \in Seq(Records) /\ ToSet(s) = {}
      BY <1>1, <1>3, <2>1
    <2> HIDE DEF s
    <2>3. s = << >>
      BY <2>2, NoElements
    <2> QED
      BY <2>3 DEF s
  <1>5. EventsOf(file) = << >>
    <2>1. EventsOf(file) = Numbers(<< >>)
      BY <1>4 DEF EventsOf
    <2>2. Numbers(<< >>) \in Seq(Nat) /\ ToSet(Numbers(<< >>)) = {r.n : r \in ToSet(<< >>)}
      <3>1. << >> \in Seq(Records) /\ \A r \in Records : r.n \in Nat
        BY DEF Records
      <3> QED
        BY <3>1, NumbersOf
    <2>3. ToSet(<< >>) = {}
      BY DEF ToSet
    <2>4. Numbers(<< >>) = << >>
      <3> DEFINE s == Numbers(<< >>)
      <3>1. s \in Seq(Nat) /\ ToSet(s) = {}
        BY <2>2, <2>3
      <3> HIDE DEF s
      <3>2. s = << >>
        BY <3>1, NoElements
      <3> QED
        BY <3>2 DEF s
    <2> QED
      BY <2>1, <2>4
  <1>6. ~ ArchivedOf(file)
    BY <1>4 DEF ArchivedOf
  <1>7. ArchivedOf(file) = archived
    BY <1>1, <1>6 DEF ArchivedOf
  <1>8. DiskFollows
    BY <1>1, <1>3, <1>5, <1>7 DEF DiskFollows
  <1>9. ActorFollows
    BY <1>1 DEF ActorFollows, Idle
  <1> QED
    BY <1>2, <1>8, <1>9

\* Every step keeps it so.
LEMMA FollowStep ==
    TypeInv /\ TypeInv' /\ SafeInv /\ FollowInv /\ [Next]_vars => FollowInv'
  <1> SUFFICES ASSUME TypeInv, TypeInv', SafeInv, FollowInv, [Next]_vars, faults'.failed = 0
               PROVE  OneIntent(file') /\ (mode' = "up" => DiskFollows' /\ ActorFollows')
    BY DEF FollowInv, OneIntent
  <1>0. /\ logged \in Nat /\ MaxPrompts \in Nat /\ nextPrompt \in Nat
        /\ DiskTypes /\ ActorTypes /\ file \in Seq(Lines) /\ file' \in Seq(Lines)
        /\ faults \in FaultTypes
    <2>1. logged \in Nat /\ logged' \in Nat /\ DiskTypes /\ DiskTypes' /\ ActorTypes
      BY DEF TypeInv, LogTypes
    <2>2. file \in Seq(Lines)
      BY <2>1, FileTypes
    <2>3. file' \in Seq(LinesOf(KnownRecords(logged')))
      BY <2>1 DEF DiskTypes
    <2>4. file' \in Seq(Lines)
      BY <2>1, <2>3, KnownTypes, FewerLines, AllLines
    <2> QED
      BY <2>1, <2>2, <2>4, BoundsAssumption DEF DiskTypes, ActorTypes
  <1>a. ASSUME mode = "up", faults.failed = 0
        PROVE  /\ OneIntent(file) /\ DiskFollows /\ ActorFollows
               /\ task.kind = "idle" => task = Idle
               /\ Idle.kind = "idle"
    BY <1>0, <1>a DEF FollowInv, ActorTypes, Idle
  <1>b. ASSUME mode = "up", open, task.kind \in {"idle", "deliver", "log"}, faults.failed = 0
        PROVE  ~ archived
    BY <1>a, <1>b DEF ActorFollows
  <1>1. ASSUME NEW boundary \in BOOLEAN, Record(boundary)
        PROVE  OneIntent(file') /\ DiskFollows' /\ ActorFollows'
    <2>1. /\ open /\ mode = "up" /\ task.kind = "idle" /\ Push(boundary)
          /\ UNCHANGED <<mode, open, archived, nextPrompt, task>>
      BY <1>1 DEF Record, Begins, Ready
    <2>2. faults.failed = 0
      <3>1. \/ Appends(file, synced, torn, EventRecord(logged'), Synced(boundary))
            \/ AppendFails(file, synced, torn, EventRecord(logged'), Synced(boundary))
        BY <2>1 DEF Push
      <3> QED
        BY <1>0, <3>1, FailureCounted
    <2>3. ~ archived
      BY <1>b, <2>1, <2>2
    <2>4. OneIntent(file') /\ DiskFollows'
      BY <2>1, <2>3, PushFollows
    <2>5. ActorFollows'
      BY <1>a, <2>1, <2>2 DEF ActorFollows
    <2> QED
      BY <2>4, <2>5
  <1>2. CASE Admit
    <2> DEFINE r == Intent(nextPrompt)
    <2>1. /\ open /\ mode = "up" /\ task.kind = "idle"
          /\ UNCHANGED <<mode, open, log, archived, logged>>
          /\ nextPrompt <= MaxPrompts
          /\ Appends(file, synced, torn, r, TRUE) \/ AppendFails(file, synced, torn, r, TRUE)
          /\ \/ /\ nextPrompt' = nextPrompt + 1
                /\ task'.kind \in {"deliver", "log"}
             \/ AppendFails(file, synced, torn, r, TRUE)
      <3>1. /\ open /\ mode = "up" /\ task.kind = "idle"
            /\ UNCHANGED <<mode, open, log, archived, logged>>
            /\ nextPrompt <= MaxPrompts
        BY <1>2 DEF Admit, Begins, Ready
      <3>2. \/ /\ Appends(file, synced, torn, r, TRUE) /\ nextPrompt' = nextPrompt + 1
               /\ \/ task' = [kind |-> "deliver", id |-> nextPrompt]
                  \/ task' = [kind |-> "log", id |-> nextPrompt]
            \/ AppendFails(file, synced, torn, r, TRUE)
        BY <1>2 DEF Admit
      <3>3. task' = [kind |-> "deliver", id |-> nextPrompt] \/ task' = [kind |-> "log", id |-> nextPrompt]
               => task'.kind \in {"deliver", "log"}
        OBVIOUS
      <3> HIDE DEF r
      <3> QED
        BY <3>1, <3>2, <3>3, Zenon
    <2>2. /\ Appends(file, synced, torn, r, TRUE) /\ faults.failed = 0
          /\ nextPrompt' = nextPrompt + 1 /\ task'.kind \in {"deliver", "log"}
      BY <1>0, <2>1, FailureCounted
    <2>3. r.kind = "intent" /\ r.n = nextPrompt
      BY DEF Intent
    <2>4. nextPrompt \in 1 .. MaxPrompts /\ logged' = logged /\ logged <= logged' /\ logged' \in Nat
      BY <1>0, <2>1 DEF ActorTypes
    <2>5. r \in KnownRecords(logged') /\ TRUE \in BOOLEAN
      BY <2>4, KnownTypes
    <2> HIDE DEF r
    <2>6. OneIntent(file) /\ DiskFollows /\ ActorFollows /\ ~ archived
      BY <1>a, <1>b, <2>1, <2>2
    <2>7. r \notin ToSet(RecordsOf(file))
      BY <1>0, <2>3, <2>6 DEF DiskFollows
    <2>8. /\ OneIntent(file')
          /\ EventsOf(file') = EventsOf(file)
          /\ ArchivedOf(file') = ArchivedOf(file)
          /\ ToSet(RecordsOf(file')) \subseteq ToSet(RecordsOf(file)) \cup {r}
      BY <2>1, <2>2, <2>3, <2>4, <2>5, <2>6, <2>7, AppendFollows
    <2>9. ASSUME NEW q \in ToSet(RecordsOf(file')), q.kind = "intent"
          PROVE  q.n < nextPrompt'
      <3>1. CASE q = r
        BY <1>0, <2>2, <2>3, <3>1
      <3>2. CASE q \in ToSet(RecordsOf(file))
        <4>1. q.n < nextPrompt
          BY <2>6, <2>9, <3>2 DEF DiskFollows
        <4>2. q.n \in Nat
          <5>1. RecordsOf(file) \in Seq(Records)
            BY <1>0, AllLines, RecordElements
          <5>2. q \in Records
            BY <3>2, <5>1 DEF ToSet
          <5> QED
            BY <5>2 DEF Records
        <4> QED
          BY <1>0, <2>2, <4>1, <4>2
      <3> QED
        BY <2>8, <2>9, <3>1, <3>2
    <2>10. DiskFollows'
      BY <2>1, <2>6, <2>8, <2>9 DEF DiskFollows
    <2>11. ActorFollows'
      BY <2>1, <2>2, <2>6 DEF ActorFollows
    <2> QED
      BY <2>8, <2>10, <2>11
  <1>c. ASSUME NEW id, Finish(id)
        PROVE  faults.failed = 0
    <2>1. \/ Appends(file, synced, torn, Terminal(id), TRUE)
          \/ AppendFails(file, synced, torn, Terminal(id), TRUE)
      BY <1>c DEF Finish, AppendTolerant
    <2> QED
      BY <1>0, <2>1, FailureCounted
  <1>3. CASE Deliver
    <2>1. /\ open /\ mode = "up" /\ task.kind = "deliver" /\ Finish(task.id) /\ task.id \in 1 .. MaxPrompts
          /\ UNCHANGED <<mode, open, archived, log, nextPrompt, logged>>
          /\ task' = Idle \/ task' = [task EXCEPT !.kind = "log"]
      BY <1>0, <1>3 DEF Deliver, Ready, ActorTypes
    <2>2. faults.failed = 0
      BY <1>c, <2>1
    <2>3. ~ archived /\ ActorFollows
      BY <1>a, <1>b, <2>1, <2>2
    <2>4. OneIntent(file') /\ DiskFollows'
      BY <2>1, <2>3, FinishFollows
    <2>5. task'.kind # "cancel"
      BY <1>0, <2>1 DEF Idle, ActorTypes
    <2>6. ActorFollows'
      BY <2>1, <2>3, <2>5 DEF ActorFollows
    <2> QED
      BY <2>4, <2>6
  <1>d. ASSUME UNCHANGED <<file, faults, mode, open, log, archived, nextPrompt, task>>
        PROVE  OneIntent(file') /\ (mode' = "up" => DiskFollows' /\ ActorFollows')
    BY <1>d DEF FollowInv, DiskFollows, ActorFollows
  <1>4. CASE LogPrompt
    <2>1. /\ open /\ mode = "up" /\ task.kind = "log" /\ task' = Idle
          /\ UNCHANGED <<mode, open, archived, nextPrompt>>
          /\ IF logged < MaxEvents THEN Push(TRUE) ELSE UNCHANGED <<disk, log, faults>>
      BY <1>0, <1>4 DEF LogPrompt, Ready, ActorTypes
    <2>2. faults.failed = 0
      <3>1. CASE Push(TRUE)
        <4>1. \/ Appends(file, synced, torn, EventRecord(logged'), Synced(TRUE))
              \/ AppendFails(file, synced, torn, EventRecord(logged'), Synced(TRUE))
          BY <3>1 DEF Push
        <4> QED
          BY <1>0, <4>1, FailureCounted
      <3>2. CASE ~ (logged < MaxEvents)
        BY <2>1, <3>2
      <3> QED
        BY <2>1, <3>1, <3>2
    <2>3. ~ archived /\ ActorFollows /\ DiskFollows /\ OneIntent(file) /\ Idle.kind = "idle"
      BY <1>a, <1>b, <2>1, <2>2
    <2>4. OneIntent(file') /\ DiskFollows'
      <3>1. CASE logged < MaxEvents
        <4>1. Push(TRUE) /\ TRUE \in BOOLEAN
          BY <2>1, <3>1
        <4> QED
          BY <2>1, <2>3, <4>1, PushFollows
      <3>2. CASE ~ (logged < MaxEvents)
        BY <2>1, <2>3, <3>2 DEF DiskFollows, disk
      <3> QED
        BY <3>1, <3>2
    <2>5. ActorFollows'
      BY <2>1, <2>3 DEF ActorFollows
    <2> QED
      BY <2>4, <2>5
  <1>e. ASSUME pending # << >>
        PROVE  Head(pending) \in 1 .. MaxPrompts
    <2>1. pending \in Seq(1 .. nextPrompt - 1) /\ nextPrompt \in 1 .. MaxPrompts + 1
      BY <1>0 DEF ActorTypes
    <2>2. Head(pending) \in 1 .. nextPrompt - 1
      BY <1>e, <2>1
    <2> QED
      BY <1>0, <2>1, <2>2
  <1>5. CASE HandOver
    <2>1. /\ open /\ mode = "up" /\ task.kind = "idle" /\ Finish(Head(pending))
          /\ Head(pending) \in 1 .. MaxPrompts
          /\ UNCHANGED <<mode, open, archived, log, nextPrompt, logged, task>>
      BY <1>5, <1>e DEF HandOver, Begins, Ready
    <2>2. faults.failed = 0
      BY <1>c, <2>1
    <2>3. ActorFollows
      BY <1>a, <2>1, <2>2
    <2>4. OneIntent(file') /\ DiskFollows'
      BY <2>1, FinishFollows
    <2>5. ActorFollows'
      BY <2>1, <2>3 DEF ActorFollows
    <2> QED
      BY <2>4, <2>5
  <1>f. /\ ArchiveRecord(TRUE) \in KnownRecords(logged) /\ ArchiveRecord(TRUE).kind = "archive"
        /\ ArchiveRecord(FALSE) \in KnownRecords(logged) /\ ArchiveRecord(FALSE).kind = "unarchive"
    <2>1. ArchiveRecord(TRUE) \in KnownRecords(logged) /\ ArchiveRecord(FALSE) \in KnownRecords(logged)
      BY <1>0, KnownTypes
    <2>2. ArchiveRecord(TRUE).kind = "archive" /\ ArchiveRecord(FALSE).kind = "unarchive"
      BY DEF ArchiveRecord
    <2> QED
      BY <2>1, <2>2
  <1>6. CASE Archive
    <2> DEFINE r == ArchiveRecord(TRUE)
    <2>1. /\ open /\ mode = "up" /\ UNCHANGED <<mode, open, log, nextPrompt, logged>>
          /\ Appends(file, synced, torn, r, TRUE) \/ AppendFails(file, synced, torn, r, TRUE)
          /\ \/ archived' = TRUE /\ task' = [kind |-> "cancel", id |-> 0]
             \/ AppendFails(file, synced, torn, r, TRUE)
      BY <1>6 DEF Archive, Begins, Ready
    <2>2. /\ Appends(file, synced, torn, r, TRUE) /\ faults.failed = 0
          /\ archived' = TRUE /\ task'.kind = "cancel"
      <3>1. ~ AppendFails(file, synced, torn, r, TRUE)
        BY <1>0, FailureCounted
      <3>2. Appends(file, synced, torn, r, TRUE) /\ task' = [kind |-> "cancel", id |-> 0]
        BY <2>1, <3>1
      <3>3. faults.failed = 0
        BY <1>0, <3>2, FailureCounted
      <3> QED
        BY <2>1, <3>1, <3>2, <3>3
    <2>3. r \in KnownRecords(logged') /\ r.kind = "archive" /\ logged <= logged' /\ TRUE \in BOOLEAN
      <3> HIDE DEF r
      <3>1. r \in KnownRecords(logged) /\ logged' = logged
        BY <1>f, <2>1 DEF r
      <3>2. r.kind = "archive"
        BY <1>f DEF r
      <3> QED
        BY <1>0, <3>1, <3>2
    <2> HIDE DEF r
    <2>4. OneIntent(file) /\ DiskFollows /\ Idle.kind = "idle"
      BY <1>a, <2>1, <2>2
    <2>5. /\ OneIntent(file')
          /\ EventsOf(file') = EventsOf(file)
          /\ ArchivedOf(file') = TRUE
          /\ ToSet(RecordsOf(file')) \subseteq ToSet(RecordsOf(file)) \cup {r}
      BY <2>1, <2>2, <2>3, <2>4, AppendFollows
    <2>6. DiskFollows'
      BY <2>1, <2>2, <2>3, <2>4, <2>5 DEF DiskFollows
    <2>7. ActorFollows'
      BY <2>1, <2>2, <2>4 DEF ActorFollows
    <2> QED
      BY <2>5, <2>6, <2>7
  <1>7. CASE Cancel
    <2>1. /\ mode = "up" /\ open /\ task.kind = "cancel"
          /\ UNCHANGED <<mode, log, archived, nextPrompt, logged>>
      BY <1>0, <1>7 DEF Cancel, Ready, ActorTypes
    <2>2. CASE pending # << >>
      <3>1. Finish(Head(pending)) /\ Head(pending) \in 1 .. MaxPrompts /\ UNCHANGED <<open, task>>
        BY <1>7, <1>e, <2>2 DEF Cancel
      <3>2. faults.failed = 0
        BY <1>c, <3>1
      <3>3. ActorFollows
        BY <1>a, <2>1, <3>2
      <3>4. OneIntent(file') /\ DiskFollows'
        BY <2>1, <3>1, FinishFollows
      <3>5. ActorFollows'
        BY <2>1, <3>1, <3>3 DEF ActorFollows
      <3> QED
        BY <3>4, <3>5
    <2>3. CASE pending = << >>
      <3>1. /\ open' = FALSE /\ task' = Idle /\ UNCHANGED <<file, faults>>
        BY <1>7, <2>3 DEF Cancel, disk
      <3>2. OneIntent(file) /\ DiskFollows /\ ActorFollows /\ Idle.kind = "idle"
        BY <1>a, <2>1, <3>1
      <3>3. archived
        BY <2>1, <3>2 DEF ActorFollows
      <3>4. ActorFollows'
        BY <2>1, <3>1, <3>2, <3>3 DEF ActorFollows
      <3> QED
        BY <2>1, <3>1, <3>2, <3>4 DEF DiskFollows
    <2> QED
      BY <2>2, <2>3
  <1>8. CASE Unarchive
    <2> DEFINE r == ArchiveRecord(FALSE)
               Succeeds == Appends(Repaired(file), Resynced, FALSE, r, TRUE)
               Fails == AppendFails(Repaired(file), Resynced, FALSE, r, TRUE)
    <2>1. /\ mode = "up" /\ task.kind = "idle"
          /\ UNCHANGED <<mode, log, nextPrompt, logged, task>>
          /\ Succeeds \/ Fails
          /\ (archived' = FALSE /\ open' = TRUE) \/ Fails
      BY <1>8 DEF Unarchive, Ready
    <2>2. Succeeds /\ faults.failed = 0 /\ archived' = FALSE /\ open' = TRUE
      BY <1>0, <2>1, FailureCounted
    <2>3. r \in KnownRecords(logged') /\ r.kind = "unarchive" /\ logged <= logged' /\ TRUE \in BOOLEAN
      <3> HIDE DEF r
      <3>1. r \in KnownRecords(logged) /\ logged' = logged
        BY <1>f, <2>1 DEF r
      <3>2. r.kind = "unarchive"
        BY <1>f DEF r
      <3> QED
        BY <1>0, <3>1, <3>2
    <2> HIDE DEF r
    <2>4. OneIntent(file) /\ DiskFollows
      BY <1>a, <2>1, <2>2
    <2>5. /\ OneIntent(file')
          /\ EventsOf(file') = EventsOf(file)
          /\ ArchivedOf(file') = FALSE
          /\ ToSet(RecordsOf(file')) \subseteq ToSet(RecordsOf(file)) \cup {r}
      BY <2>2, <2>3, <2>4, AppendFollows
    <2>6. DiskFollows'
      BY <2>1, <2>2, <2>3, <2>4, <2>5 DEF DiskFollows
    <2>7. ActorFollows'
      BY <2>1, <2>2 DEF ActorFollows
    <2> QED
      BY <2>5, <2>6, <2>7
  <1>9. CASE Crash
    <2>1. mode' # "up" /\ UNCHANGED <<file, faults>>
      BY <1>9 DEF Crash, Stop, disk
    <2> QED
      BY <2>1 DEF FollowInv
  <1>g. ASSUME faults.failed = 0
        PROVE  Sound(file)
    BY <1>0, <1>g DEF SafeInv, FileInv, DiskTypes, FaultTypes
  <1>10. CASE PowerLoss
    <2>1. mode' # "up" /\ UNCHANGED faults
      BY <1>10 DEF PowerLoss, Stop
    <2>2. OneIntent(file) /\ Sound(file)
      BY <1>g, <2>1 DEF FollowInv
    <2>3. Shortened(file', file)
      BY <1>0, <1>10, <2>2, LossTypes, AllLines DEF DiskTypes
    <2> QED
      BY <1>0, <2>1, <2>2, <2>3, OneIntentShortened
  <1>11. CASE Recover
    <2>1. UNCHANGED <<faults, task>> /\ mode = "down"
      BY <1>11 DEF Recover, history
    <2>2. OneIntent(file) /\ Sound(file) /\ Readable(file)
      BY <1>0, <1>g, <2>1, SoundReadable DEF FollowInv
    <2>3. /\ log' = EventsOf(file) /\ archived' = ArchivedOf(file)
          /\ nextPrompt' = NextPrompt(file) /\ open' = ~ archived'
          /\ file' = IF archived' THEN file ELSE Repaired(file)
      BY <1>11, <2>2 DEF Recover
    <2>4. RecordsOf(file') = RecordsOf(file) /\ OneIntent(file')
      BY <1>0, <2>2, <2>3, RepairedTypes, OneIntentRepaired, AllLines
    <2>5. EventsOf(file') = EventsOf(file) /\ ArchivedOf(file') = ArchivedOf(file)
      BY <2>4 DEF EventsOf, ArchivedOf, OfKind
    <2>6. ASSUME NEW q \in ToSet(RecordsOf(file)), q.kind = "intent"
          PROVE  q.n < NextPrompt(file)
      <3>1. ToSet(OfKind(file, {"intent", "terminal"})) =
               {r \in ToSet(RecordsOf(file)) : r.kind \in {"intent", "terminal"}}
        BY <1>0, KindElements, AllLines
      <3>2. ToSet(RecordsOf(file)) \subseteq KnownRecords(logged)
        <4>1. RecordsOf(file) \in Seq(KnownRecords(logged))
          BY <1>0, KnownTypes, RecordElements DEF DiskTypes
        <4> QED
          BY <4>1 DEF ToSet
      <3>3. PromptIds(file) \subseteq 1 .. MaxPrompts /\ q.n \in PromptIds(file)
        BY <2>6, <3>1, <3>2 DEF PromptIds, KnownRecords
      <3> QED
        BY <3>3, NextIsAbove
    <2>7. DiskFollows'
      BY <2>3, <2>4, <2>5, <2>6 DEF DiskFollows
    <2>8. task' = Idle /\ Idle.kind = "idle"
      BY <1>0, <2>1 DEF ActorTypes, Idle
    <2>9. ActorFollows'
      BY <2>3, <2>8 DEF ActorFollows
    <2> QED
      BY <2>4, <2>7, <2>9
  <1>12. CASE UNCHANGED vars
    BY <1>12, <1>d DEF vars, disk, server, history
  <1> QED
    BY <1>1, <1>2, <1>3, <1>4, <1>5, <1>6, <1>7, <1>8, <1>9, <1>10, <1>11, <1>12 DEF Next

\* What is selected of a sequence when everything but its head is kept.
LEMMA SelectRest ==
    ASSUME NEW S, NEW s \in Seq(S), s # << >>, Distinct(s), NEW T,
           ToSet(s) \cap T = ToSet(s) \ {Head(s)}
    PROVE  Select(s, T) = Tail(s)
  <1> DEFINE h == Head(s)
             t == Tail(s)
  <1>1. h \in S /\ t \in Seq(S) /\ s = <<h>> \o t
    OBVIOUS
  <1>2. h \in ToSet(s) /\ ToSet(s) = ToSet(t) \cup {h} /\ h \notin ToSet(t)
    BY TailElements
  <1> HIDE DEF h, t
  <1>3. h \notin T /\ ToSet(t) \subseteq T
    BY <1>2 DEF h
  <1>4. Select(t, T) = t
    BY <1>1, <1>3, SelectAll
  <1> DEFINE u == <<h>>
  <1>5. u \in Seq(S) /\ ToSet(u) \cap T = {}
    BY <1>1, <1>3 DEF ToSet
  <1> HIDE DEF u
  <1>6. Select(u, T) = << >> /\ Select(u \o t, T) = Select(u, T) \o Select(t, T)
    BY <1>1, <1>5, SelectConcat, SelectNone
  <1>7. << >> \o t = t
    BY <1>1
  <1> QED
    BY <1>1, <1>4, <1>6, <1>7 DEF t, u

\* What a record more changes of the prompts recovery finds unsettled (recover_one).
LEMMA PendingMore ==
    ASSUME NEW f \in Seq(Lines), NEW g, NEW r \in Records,
           RecordsOf(g) = Append(RecordsOf(f), r)
    PROVE  /\ r.kind \notin {"intent", "terminal"} => PendingOf(g) = PendingOf(f)
           /\ r.kind = "intent" /\ r.n \notin TerminalsOf(f)
                 => PendingOf(g) = Append(PendingOf(f), r.n)
           /\ r.kind = "terminal" /\ Distinct(OfKind(f, {"intent"}))
                    /\ PendingOf(f) # << >> /\ Head(PendingOf(f)) = r.n
                 => PendingOf(g) = Tail(PendingOf(f))
  <1> DEFINE s == OfKind(f, {"intent"})
             d == OfKind(f, {"terminal"})
             Unsettled(D) == [kind : {"intent"}, n : Nat \ D]
             T == Unsettled(TerminalsOf(f))
             q == Select(s, T)
  <1>1. /\ s \in Seq(Records) /\ d \in Seq(Records)
        /\ ToSet(s) = {e \in ToSet(RecordsOf(f)) : e.kind = "intent"}
    BY KindElements, AllLines
  <1>2. /\ OfKind(g, {"intent"}) = IF r.kind = "intent" THEN Append(s, r) ELSE s
        /\ OfKind(g, {"terminal"}) = IF r.kind = "terminal" THEN Append(d, r) ELSE d
    BY KindAppend
  <1>3. /\ PendingOf(f) = Numbers(q)
        /\ PendingOf(g) = Numbers(Select(OfKind(g, {"intent"}), Unsettled(TerminalsOf(g))))
    BY DEF PendingOf
  <1>4. TerminalsOf(g) = IF r.kind = "terminal" THEN TerminalsOf(f) \cup {r.n} ELSE TerminalsOf(f)
    <2>1. TerminalsOf(f) = {e.n : e \in ToSet(d)}
          /\ TerminalsOf(g) = {e.n : e \in ToSet(OfKind(g, {"terminal"}))}
      BY DEF TerminalsOf
    <2> HIDE DEF d
    <2>2. ToSet(Append(d, r)) = ToSet(d) \cup {r}
      BY <1>1, AppendElements
    <2>3. CASE r.kind = "terminal"
      <3> DEFINE A == ToSet(d)
      <3>1. ToSet(OfKind(g, {"terminal"})) = A \cup {r}
        BY <1>2, <2>2, <2>3
      <3>2. TerminalsOf(f) = {e.n : e \in A} /\ TerminalsOf(g) = {e.n : e \in A \cup {r}}
        BY <2>1, <3>1
      <3> HIDE DEF A
      <3>3. {e.n : e \in A \cup {r}} = {e.n : e \in A} \cup {r.n}
        OBVIOUS
      <3> QED
        BY <2>3, <3>2, <3>3
    <2>4. CASE r.kind # "terminal"
      BY <1>2, <2>1, <2>4
    <2> QED
      BY <2>3, <2>4
  <1>5. \A e \in Records : e.n \in Nat
    BY DEF Records
  <1>6. ASSUME r.kind \notin {"intent", "terminal"}
        PROVE  PendingOf(g) = PendingOf(f)
    BY <1>2, <1>3, <1>4, <1>6
  <1>7. ASSUME r.kind = "intent", r.n \notin TerminalsOf(f)
        PROVE  PendingOf(g) = Append(PendingOf(f), r.n)
    <2>1. r \in T
      BY <1>5, <1>7 DEF Records
    <2>2. OfKind(g, {"intent"}) = Append(s, r) /\ TerminalsOf(g) = TerminalsOf(f)
      BY <1>2, <1>4, <1>7
    <2>3. PendingOf(g) = Numbers(Select(Append(s, r), T))
      BY <1>3, <2>2
    <2> HIDE DEF s, T
    <2>4. q \in Seq(Records) /\ Select(Append(s, r), T) = Append(q, r)
      BY <1>1, <2>1, SelectAppend
    <2> HIDE DEF q
    <2>5. Numbers(Append(q, r)) = Append(Numbers(q), r.n)
      BY <1>5, <2>4, NumbersOf
    <2> QED
      BY <1>3, <1>7, <2>3, <2>4, <2>5
  <1>8. r.kind = "terminal" /\ Distinct(OfKind(f, {"intent"}))
              /\ PendingOf(f) # << >> /\ Head(PendingOf(f)) = r.n
           => PendingOf(g) = Tail(PendingOf(f))
    <2>0. SUFFICES ASSUME r.kind = "terminal", Distinct(OfKind(f, {"intent"})),
                          PendingOf(f) # << >>, Head(PendingOf(f)) = r.n
                   PROVE  PendingOf(g) = Tail(PendingOf(f))
      OBVIOUS
    <2> DEFINE T2 == Unsettled(TerminalsOf(f) \cup {r.n})
               h == Head(q)
    <2>1. PendingOf(g) = Numbers(Select(s, T2))
      BY <1>2, <1>3, <1>4, <2>0
    <2>2. q \in Seq(Records) /\ ToSet(q) = ToSet(s) \cap T /\ Distinct(q)
      <3>1. Distinct(s)
        BY <2>0
      <3> HIDE DEF s, T
      <3> QED
        BY <1>1, <3>1, SelectElements, SelectDistinct
    <2>3. \A e \in ToSet(q) : e.kind = "intent" /\ e \in T /\ e \in Records
      <3>1. \A e \in ToSet(q) : e \in Records
        <4> HIDE DEF q
        <4> QED
          BY <2>2 DEF ToSet
      <3> QED
        BY <2>2, <3>1
    <2>4. q # << >> /\ h \in ToSet(q) /\ h.n = r.n
      <3> HIDE DEF q
      <3>1. q # << >>
        <4>1. Numbers(<< >>) = << >>
          BY DEF Numbers
        <4> QED
          BY <1>3, <2>0, <4>1
      <3>2. 1 \in DOMAIN q /\ Head(q) = q[1] /\ DOMAIN q = 1 .. Len(q)
        BY <2>2, <3>1
      <3>3. Numbers(q) = [i \in DOMAIN q |-> q[i].n]
        BY DEF Numbers
      <3>4. Numbers(q) \in Seq(Nat)
        BY <1>5, <2>2, NumbersOf
      <3>5. Head(Numbers(q)) = Numbers(q)[1]
        BY <1>3, <2>0, <3>4
      <3>6. Head(Numbers(q)) = Head(q).n
        BY <3>2, <3>3, <3>5
      <3>7. Head(q) \in ToSet(q)
        BY <3>2 DEF ToSet
      <3> QED
        BY <1>3, <2>0, <3>1, <3>6, <3>7
    <2>5. \A e \in ToSet(q) : e \in T2 <=> e # h
      <3>1. \A e \in ToSet(q) : e = h <=> e.n = r.n
        <4> HIDE DEF q, T
        <4> QED
          BY <2>3, <2>4 DEF Records
      <3>2. \A e \in ToSet(q) : e \in T2 <=> e.n # r.n
        BY <2>3
      <3> QED
        BY <3>1, <3>2
    <2>6. ToSet(s) \cap T2 \subseteq T
      OBVIOUS
    <2> HIDE DEF s, T, T2
    <2>7. Select(q, T2) = Select(s, T2)
      BY <1>1, <2>6, SelectTwice
    <2> HIDE DEF q
    <2>8. Select(q, T2) = Tail(q)
      BY <2>2, <2>4, <2>5, SelectRest DEF h
    <2>9. Numbers(Tail(q)) = Tail(Numbers(q))
      <3>1. /\ Len(q) \in Nat \ {0} /\ DOMAIN q = 1 .. Len(q)
            /\ DOMAIN Tail(q) = 1 .. Len(q) - 1
            /\ \A i \in 1 .. Len(q) - 1 : Tail(q)[i] = q[i + 1] /\ i + 1 \in 1 .. Len(q)
        BY <2>2, <2>4
      <3>2. Numbers(q) = [i \in 1 .. Len(q) |-> q[i].n] /\ Numbers(q) \in Seq(Nat)
        BY <1>5, <2>2, <3>1, NumbersOf DEF Numbers
      <3>3. Numbers(Tail(q)) = [i \in 1 .. Len(q) - 1 |-> Tail(q)[i].n]
        BY <3>1 DEF Numbers
      <3> DEFINE N == Numbers(q)
      <3>4. Len(N) = Len(q) /\ N # << >> /\ N \in Seq(Nat)
        BY <3>1, <3>2
      <3>5. \A i \in 1 .. Len(q) : N[i] = q[i].n
        BY <3>2
      <3> HIDE DEF N
      <3>6. /\ Tail(N) \in Seq(Nat) /\ Len(Tail(N)) = Len(q) - 1
            /\ \A i \in 1 .. Len(q) - 1 : Tail(N)[i] = N[i + 1]
        BY <3>4
      <3> DEFINE M == Numbers(Tail(q))
      <3>7. M \in Seq(Nat) /\ Len(M) = Len(q) - 1 /\ \A i \in 1 .. Len(q) - 1 : M[i] = N[i + 1]
        <4>1. Tail(q) \in Seq(Records)
          BY <2>2, <2>4
        <4>2. M \in Seq(Nat)
          BY <1>5, <4>1, NumbersOf
        <4>3. M = [i \in 1 .. Len(q) - 1 |-> Tail(q)[i].n]
          BY <3>3
        <4>4. \A i \in 1 .. Len(q) - 1 : Tail(q)[i].n = N[i + 1]
          BY <3>1, <3>5
        <4> HIDE DEF M
        <4> QED
          BY <3>1, <4>2, <4>3, <4>4
      <3> HIDE DEF M
      <3>8. M = Tail(N)
        BY <3>6, <3>7, SeqEqual
      <3> QED
        BY <3>8 DEF M, N
    <2> QED
      BY <1>3, <2>0, <2>1, <2>7, <2>8, <2>9
  <1>9. r.kind \notin {"intent", "terminal"} => PendingOf(g) = PendingOf(f)
    BY <1>6
  <1>10. r.kind = "intent" /\ r.n \notin TerminalsOf(f) => PendingOf(g) = Append(PendingOf(f), r.n)
    BY <1>7
  <1> QED
    BY <1>8, <1>9, <1>10

TerminalsBelow == \A r \in ToSet(RecordsOf(file)) : r.kind = "terminal" => r.n < nextPrompt

\* The prompts recovery would find are those the actor has yet to settle: the one it
\* hands over, which it does only when none waits, or those that wait.
DiskOwes ==
    /\ PendingOf(file) = IF task.kind = "deliver" THEN <<task.id>> ELSE pending
    /\ task.kind = "deliver" => pending = << >>
    /\ TerminalsBelow

OwesInv == mode = "up" /\ faults.failed = 0 => DiskOwes

\* A successful append and what recovery would find.
LEMMA AppendOwes ==
    ASSUME TypeInv, TypeInv', SafeInv, logged <= logged', faults'.failed = 0, OneIntent(file),
           NEW r \in KnownRecords(logged'), NEW sync \in BOOLEAN,
           NEW f, NEW s, NEW was,
           \/ open /\ f = file /\ s = synced /\ was = torn
           \/ f = Repaired(file) /\ s = Resynced /\ was = FALSE,
           Appends(f, s, was, r, sync),
           r.kind = "intent" => r \notin ToSet(RecordsOf(file)),
           TerminalsBelow, nextPrompt' \in {nextPrompt, nextPrompt + 1},
           r.kind = "terminal" => r.n < nextPrompt
    PROVE  /\ TerminalsBelow'
           /\ r.kind \notin {"intent", "terminal"} => PendingOf(file') = PendingOf(file)
           /\ r.kind = "intent" /\ r.n = nextPrompt
                 => PendingOf(file') = Append(PendingOf(file), r.n)
           /\ r.kind = "terminal" /\ PendingOf(file) # << >> /\ Head(PendingOf(file)) = r.n
                 => PendingOf(file') = Tail(PendingOf(file))
  <1>1. /\ file \in Seq(Lines) /\ r \in Records
        /\ nextPrompt \in Nat
    <2>1. logged' \in Nat /\ DiskTypes /\ logged \in Nat /\ ActorTypes
      BY DEF TypeInv, LogTypes
    <2>2. r \in Records
      BY <2>1, KnownTypes
    <2> QED
      BY <2>1, <2>2, FileTypes, BoundsAssumption DEF ActorTypes
  <1>2. RecordsOf(file') = Append(RecordsOf(file), r)
    BY AppendFollows
  <1>3. RecordsOf(file) \in Seq(Records)
    BY <1>1, RecordElements, AllLines
  <1>4. TerminalsBelow'
    <2>1. ToSet(RecordsOf(file')) = ToSet(RecordsOf(file)) \cup {r}
      BY <1>1, <1>2, <1>3, AppendElements
    <2>2. \A q \in ToSet(RecordsOf(file)) : q.n \in Nat
      <3>1. \A q \in ToSet(RecordsOf(file)) : q \in Records
        BY <1>3 DEF ToSet
      <3> QED
        BY <3>1 DEF Records
    <2>3. r.n \in Nat
      BY <1>1 DEF Records
    <2> QED
      BY <1>1, <2>1, <2>2, <2>3 DEF TerminalsBelow
  <1>5. Distinct(OfKind(file, {"intent"}))
    BY <1>1, OneIntentDistinct
  <1>6. nextPrompt \notin TerminalsOf(file)
    <2>1. nextPrompt \in TerminalsOf(file) => Terminal(nextPrompt) \in ToSet(RecordsOf(file))
      BY <1>1, RecoveredSets
    <2>2. Terminal(nextPrompt).kind = "terminal" /\ Terminal(nextPrompt).n = nextPrompt
      BY DEF Terminal
    <2> QED
      BY <1>1, <2>1, <2>2 DEF TerminalsBelow
  <1>7. /\ r.kind \notin {"intent", "terminal"} => PendingOf(file') = PendingOf(file)
        /\ r.kind = "intent" /\ r.n \notin TerminalsOf(file)
              => PendingOf(file') = Append(PendingOf(file), r.n)
        /\ r.kind = "terminal" /\ Distinct(OfKind(file, {"intent"}))
                 /\ PendingOf(file) # << >> /\ Head(PendingOf(file)) = r.n
              => PendingOf(file') = Tail(PendingOf(file))
    BY <1>1, <1>2, PendingMore
  <1> QED
    BY <1>4, <1>5, <1>6, <1>7

\* An event more settles nothing (push_event).
LEMMA PushOwes ==
    ASSUME TypeInv, TypeInv', SafeInv, FollowInv, OwesInv, mode = "up", open,
           NEW boundary \in BOOLEAN, Push(boundary), UNCHANGED nextPrompt, faults'.failed = 0
    PROVE  DiskOwes /\ TerminalsBelow' /\ PendingOf(file') = PendingOf(file)
  <1> DEFINE r == EventRecord(logged')
             sync == Synced(boundary)
  <1>1. faults \in FaultTypes /\ logged \in Nat /\ logged' \in Nat
    BY DEF TypeInv, DiskTypes, LogTypes
  <1>2. /\ logged' = logged + 1
        /\ Appends(file, synced, torn, r, sync) \/ AppendFails(file, synced, torn, r, sync)
        /\ sync \in BOOLEAN
    BY DEF Push, Synced
  <1>3. r \in KnownRecords(logged') /\ r.kind = "event" /\ logged <= logged'
    <2>1. logged' \in 1 .. logged' /\ logged <= logged'
      BY <1>1, <1>2
    <2> QED
      BY <1>1, <2>1, KnownTypes DEF EventRecord
  <1> HIDE DEF r, sync
  <1>4. Appends(file, synced, torn, r, sync) /\ faults.failed = 0
    BY <1>1, <1>2, FailureCounted
  <1>5. OneIntent(file) /\ DiskOwes
    BY <1>4 DEF FollowInv, OwesInv
  <1>6. TerminalsBelow' /\ PendingOf(file') = PendingOf(file)
    BY <1>2, <1>3, <1>4, <1>5, AppendOwes DEF DiskOwes
  <1> QED
    BY <1>5, <1>6

\* The first of the prompts recovery would find is settled (finish_prompt_intent).
LEMMA FinishOwes ==
    ASSUME TypeInv, TypeInv', SafeInv, FollowInv, OwesInv, mode = "up", open,
           NEW p \in 1 .. MaxPrompts, Finish(p), UNCHANGED <<logged, nextPrompt>>,
           faults'.failed = 0,
           PendingOf(file) # << >>, Head(PendingOf(file)) = p
    PROVE  TerminalsBelow' /\ PendingOf(file') = Tail(PendingOf(file))
  <1> DEFINE r == Terminal(p)
  <1>1. /\ faults \in FaultTypes /\ logged \in Nat /\ logged' \in Nat /\ logged <= logged'
        /\ TRUE \in BOOLEAN /\ DiskTypes /\ file \in Seq(Lines)
    BY FileTypes DEF TypeInv, DiskTypes, LogTypes
  <1>2. Appends(file, synced, torn, r, TRUE) \/ AppendFails(file, synced, torn, r, TRUE)
    BY DEF Finish, AppendTolerant
  <1>3. r \in KnownRecords(logged') /\ r.kind = "terminal" /\ r.n = p
    BY <1>1, KnownTypes DEF Terminal
  <1> HIDE DEF r
  <1>4. Appends(file, synced, torn, r, TRUE) /\ faults.failed = 0
    BY <1>1, <1>2, FailureCounted
  <1>5. OneIntent(file) /\ DiskFollows /\ TerminalsBelow
    BY <1>4 DEF FollowInv, OwesInv, DiskOwes
  <1>6. p < nextPrompt
    <2>1. p \in ToSet(PendingOf(file))
      <3>1. PendingOf(file) \in Seq(1 .. NextPrompt(file) - 1)
        BY RecoveredTypes
      <3> QED
        BY <3>1, TailElements
    <2>2. Intent(p) \in ToSet(RecordsOf(file))
      BY <1>1, <2>1, RecoveredSets
    <2>3. Intent(p).kind = "intent" /\ Intent(p).n = p
      BY DEF Intent
    <2> QED
      BY <1>5, <2>2, <2>3 DEF DiskFollows
  <1> QED
    BY <1>1, <1>3, <1>4, <1>5, <1>6, AppendOwes

\* A new session owes nothing.
LEMMA OwesBegin == Init => OwesInv
  <1> SUFFICES ASSUME Init
               PROVE  DiskOwes
    BY DEF OwesInv
  <1>1. file = << >> /\ file \in Seq(Lines) /\ task.kind = "idle" /\ pending = << >>
    BY DEF Init, Idle
  <1>2. ToSet(RecordsOf(file)) = {}
    <2>1. ToSet(RecordsOf(<< >>)) =
             {RecordOf(<< >>[i]) : i \in {j \in 1 .. Len(<< >>) : Parses(<< >>[j])}}
      BY <1>1, AllLines, RecordElements
    <2> QED
      BY <1>1, <2>1
  <1>3. PendingOf(file) = << >>
    <2>1. \A n \in Nat : n \notin ToSet(PendingOf(file))
      BY <1>1, <1>2, RecoveredSets
    <2>2. PendingOf(file) \in Seq(1 .. NextPrompt(file) - 1) /\ NextPrompt(file) \in Nat
      BY TypesBegin, RecoveredTypes, BoundsAssumption
    <2> DEFINE q == PendingOf(file)
               b == NextPrompt(file) - 1
    <2>3. ToSet(q) \subseteq 1 .. b /\ b \in Int /\ q \in Seq(1 .. b)
      BY <2>2 DEF ToSet
    <2> HIDE DEF q, b
    <2>4. ToSet(q) = {}
      BY <2>1, <2>3 DEF q
    <2> QED
      BY <2>3, <2>4, NoElements DEF q
  <1> QED
    BY <1>1, <1>2, <1>3 DEF DiskOwes, TerminalsBelow

\* Every step leaves on disk what the actor owes.
LEMMA OwesStep ==
    TypeInv /\ TypeInv' /\ SafeInv /\ FollowInv /\ OwesInv /\ [Next]_vars => OwesInv'
  <1> SUFFICES ASSUME TypeInv, TypeInv', SafeInv, FollowInv, OwesInv, [Next]_vars,
                      faults'.failed = 0, mode' = "up"
               PROVE  DiskOwes'
    BY DEF OwesInv
  <1>0. /\ logged \in Nat /\ MaxPrompts \in Nat /\ nextPrompt \in Nat
        /\ ActorTypes /\ file \in Seq(Lines) /\ faults \in FaultTypes
        /\ DiskTypes /\ TRUE \in BOOLEAN
    BY FileTypes, BoundsAssumption DEF TypeInv, LogTypes, ActorTypes, DiskTypes
  <1>a. ASSUME mode = "up", faults.failed = 0
        PROVE  DiskOwes /\ OneIntent(file) /\ DiskFollows
    BY <1>a DEF OwesInv, FollowInv
  <1>b. ASSUME NEW id, Finish(id)
        PROVE  faults.failed = 0
    <2>1. \/ Appends(file, synced, torn, Terminal(id), TRUE)
          \/ AppendFails(file, synced, torn, Terminal(id), TRUE)
      BY <1>b DEF Finish, AppendTolerant
    <2> QED
      BY <1>0, <2>1, FailureCounted
  <1>c. ASSUME UNCHANGED <<file, faults, mode, nextPrompt, pending>>,
               task.kind # "deliver", task'.kind # "deliver"
        PROVE  DiskOwes'
    BY <1>c DEF OwesInv, DiskOwes, TerminalsBelow
  <1>d. ASSUME pending # << >>
        PROVE  Head(pending) \in 1 .. MaxPrompts
    <2>1. pending \in Seq(1 .. nextPrompt - 1) /\ nextPrompt \in 1 .. MaxPrompts + 1
      BY <1>0 DEF ActorTypes
    <2>2. Head(pending) \in 1 .. nextPrompt - 1
      BY <1>d, <2>1
    <2> QED
      BY <1>0, <2>1, <2>2
  <1>e. ASSUME mode = "up", open, task.kind \notin {"deliver"}, UNCHANGED <<task, nextPrompt, logged>>,
               pending # << >>, Finish(Head(pending)), pending' = Tail(pending)
        PROVE  DiskOwes'
    <2>1. DiskOwes /\ Head(pending) \in 1 .. MaxPrompts
      BY <1>a, <1>b, <1>d, <1>e
    <2>2. PendingOf(file) = pending
      BY <1>e, <2>1 DEF DiskOwes
    <2>3. TerminalsBelow' /\ PendingOf(file') = Tail(PendingOf(file))
      BY <1>e, <2>1, <2>2, FinishOwes
    <2> QED
      BY <1>e, <2>2, <2>3 DEF DiskOwes
  <1>1. ASSUME NEW boundary \in BOOLEAN, Record(boundary)
        PROVE  DiskOwes'
    <2>1. /\ open /\ mode = "up" /\ task.kind = "idle" /\ Push(boundary)
          /\ UNCHANGED <<mode, pending, nextPrompt, task>>
      BY <1>1 DEF Record, Begins, Ready
    <2>2. DiskOwes /\ TerminalsBelow' /\ PendingOf(file') = PendingOf(file)
      BY <2>1, PushOwes
    <2> QED
      BY <2>1, <2>2 DEF DiskOwes
  <1>2. CASE Admit
    <2> DEFINE r == Intent(nextPrompt)
               Succeeds == Appends(file, synced, torn, r, TRUE)
               Fails == AppendFails(file, synced, torn, r, TRUE)
    <2>1. /\ open /\ mode = "up" /\ task.kind = "idle" /\ UNCHANGED <<mode, logged>>
          /\ nextPrompt <= MaxPrompts
          /\ \/ /\ Succeeds /\ nextPrompt' = nextPrompt + 1
                /\ \/ /\ pending = << >> /\ UNCHANGED pending
                      /\ task' = [kind |-> "deliver", id |-> nextPrompt]
                   \/ /\ pending' = Append(pending, nextPrompt)
                      /\ task' = [kind |-> "log", id |-> nextPrompt]
             \/ Fails
      BY <1>2 DEF Admit, Begins, Ready
    <2>2. Succeeds /\ ~ Fails /\ faults.failed = 0
      BY <1>0, <2>1, FailureCounted
    <2>3. r.kind = "intent" /\ r.n = nextPrompt
      BY DEF Intent
    <2>4. nextPrompt \in 1 .. MaxPrompts /\ logged <= logged' /\ logged' \in Nat
      BY <1>0, <2>1 DEF ActorTypes
    <2>5. r \in KnownRecords(logged')
      BY <2>4, KnownTypes
    <2>6. nextPrompt' = nextPrompt + 1
      BY <2>1, <2>2
    <2>7. \/ /\ pending = << >> /\ pending' = << >>
             /\ task'.kind = "deliver" /\ task'.id = nextPrompt
          \/ /\ pending' = Append(pending, nextPrompt) /\ task'.kind = "log"
      <3> HIDE DEF Fails, Succeeds
      <3> QED
        BY <2>1, <2>2
    <2> HIDE DEF r
    <2>8. DiskOwes /\ OneIntent(file) /\ DiskFollows
      BY <1>a, <2>1, <2>2
    <2>9. r \notin ToSet(RecordsOf(file))
      BY <1>0, <2>3, <2>8 DEF DiskFollows
    <2>10. TerminalsBelow' /\ PendingOf(file') = Append(PendingOf(file), nextPrompt)
      BY <1>0, <2>1, <2>2, <2>3, <2>4, <2>5, <2>6, <2>8, <2>9, AppendOwes DEF DiskOwes
    <2>11. PendingOf(file) = pending
      BY <2>1, <2>8 DEF DiskOwes
    <2>12. pending = << >> => Append(pending, nextPrompt) = <<nextPrompt>>
      OBVIOUS
    <2> QED
      BY <2>7, <2>10, <2>11, <2>12 DEF DiskOwes
  <1>3. CASE Deliver
    <2>1. /\ open /\ mode = "up" /\ task.kind = "deliver" /\ Finish(task.id) /\ task.id \in 1 .. MaxPrompts
          /\ UNCHANGED <<mode, pending, nextPrompt, logged>>
          /\ task'.kind \in {"idle", "log"}
      BY <1>0, <1>3 DEF Deliver, Ready, ActorTypes, Idle
    <2>2. DiskOwes
      BY <1>a, <1>b, <2>1
    <2>3. PendingOf(file) = <<task.id>> /\ pending = << >>
      BY <2>1, <2>2 DEF DiskOwes
    <2>4. PendingOf(file) # << >> /\ Head(PendingOf(file)) = task.id /\ Tail(PendingOf(file)) = << >>
      BY <2>3
    <2>5. TerminalsBelow' /\ PendingOf(file') = Tail(PendingOf(file))
      BY <2>1, <2>4, FinishOwes
    <2> QED
      BY <2>1, <2>3, <2>4, <2>5 DEF DiskOwes
  <1>4. CASE LogPrompt
    <2>1. /\ open /\ mode = "up" /\ task.kind = "log" /\ task'.kind = "idle"
          /\ UNCHANGED <<mode, pending, nextPrompt>>
          /\ IF logged < MaxEvents THEN Push(TRUE) ELSE UNCHANGED <<disk, log, faults>>
      BY <1>0, <1>4 DEF LogPrompt, Ready, ActorTypes, Idle
    <2>2. CASE logged < MaxEvents
      <3>1. DiskOwes /\ TerminalsBelow' /\ PendingOf(file') = PendingOf(file)
        BY <1>0, <2>1, <2>2, PushOwes
      <3> QED
        BY <2>1, <3>1 DEF DiskOwes
    <2>3. CASE ~ (logged < MaxEvents)
      BY <1>c, <2>1, <2>3 DEF disk
    <2> QED
      BY <2>2, <2>3
  <1>5. CASE HandOver
    BY <1>5, <1>e DEF HandOver, Begins, Ready
  <1>f. /\ ArchiveRecord(TRUE) \in KnownRecords(logged) /\ ArchiveRecord(TRUE).kind = "archive"
        /\ ArchiveRecord(FALSE) \in KnownRecords(logged) /\ ArchiveRecord(FALSE).kind = "unarchive"
    <2>1. ArchiveRecord(TRUE) \in KnownRecords(logged) /\ ArchiveRecord(FALSE) \in KnownRecords(logged)
      BY <1>0, KnownTypes
    <2>2. ArchiveRecord(TRUE).kind = "archive" /\ ArchiveRecord(FALSE).kind = "unarchive"
      BY DEF ArchiveRecord
    <2> QED
      BY <2>1, <2>2
  <1>6. CASE Archive
    <2> DEFINE r == ArchiveRecord(TRUE)
    <2>1. /\ open /\ mode = "up" /\ task.kind = "idle" /\ UNCHANGED <<mode, pending, nextPrompt, logged>>
          /\ Appends(file, synced, torn, r, TRUE) \/ AppendFails(file, synced, torn, r, TRUE)
          /\ task' = [kind |-> "cancel", id |-> 0] \/ UNCHANGED task
      BY <1>6 DEF Archive, Begins, Ready
    <2>2. Appends(file, synced, torn, r, TRUE) /\ faults.failed = 0
      BY <1>0, <2>1, FailureCounted
    <2>3. r \in KnownRecords(logged') /\ r.kind = "archive" /\ logged <= logged'
      <3> HIDE DEF r
      <3>1. r \in KnownRecords(logged) /\ r.kind = "archive" /\ logged' = logged
        BY <1>f, <2>1 DEF r
      <3> QED
        BY <1>0, <3>1
    <2>4. task'.kind # "deliver"
      BY <2>1
    <2> HIDE DEF r
    <2>5. DiskOwes /\ OneIntent(file)
      BY <1>a, <2>1, <2>2
    <2>6. TerminalsBelow' /\ PendingOf(file') = PendingOf(file)
      BY <1>0, <2>1, <2>2, <2>3, <2>5, AppendOwes DEF DiskOwes
    <2> QED
      BY <2>1, <2>4, <2>5, <2>6 DEF DiskOwes
  <1>7. CASE Cancel
    <2>1. /\ mode = "up" /\ open /\ task.kind = "cancel" /\ UNCHANGED <<mode, nextPrompt, logged>>
      BY <1>0, <1>7 DEF Cancel, Ready, ActorTypes
    <2>2. CASE pending # << >>
      BY <1>7, <1>e, <2>1, <2>2 DEF Cancel
    <2>3. CASE pending = << >>
      BY <1>7, <1>c, <2>1, <2>3 DEF Cancel, disk, Idle
    <2> QED
      BY <2>2, <2>3
  <1>8. CASE Unarchive
    <2> DEFINE r == ArchiveRecord(FALSE)
               Succeeds == Appends(Repaired(file), Resynced, FALSE, r, TRUE)
               Fails == AppendFails(Repaired(file), Resynced, FALSE, r, TRUE)
    <2>1. /\ mode = "up" /\ task.kind = "idle"
          /\ UNCHANGED <<mode, pending, nextPrompt, logged, task>>
          /\ Succeeds \/ Fails
      BY <1>8 DEF Unarchive, Ready
    <2>2. Succeeds /\ faults.failed = 0
      BY <1>0, <2>1, FailureCounted
    <2>3. r \in KnownRecords(logged') /\ r.kind = "unarchive" /\ logged <= logged'
      <3> HIDE DEF r
      <3>1. r \in KnownRecords(logged) /\ r.kind = "unarchive" /\ logged' = logged
        BY <1>f, <2>1 DEF r
      <3> QED
        BY <1>0, <3>1
    <2> HIDE DEF r
    <2>4. DiskOwes /\ OneIntent(file)
      BY <1>a, <2>1, <2>2
    <2>5. TerminalsBelow' /\ PendingOf(file') = PendingOf(file)
      BY <1>0, <2>1, <2>2, <2>3, <2>4, AppendOwes DEF DiskOwes
    <2> QED
      BY <2>1, <2>4, <2>5 DEF DiskOwes
  <1>9. CASE Crash \/ PowerLoss
    BY <1>9 DEF Crash, PowerLoss, Stop
  <1>10. CASE Recover
    <2>1. UNCHANGED <<faults, task>> /\ mode = "down" /\ Readable(file)
      BY <1>10 DEF Recover, history
    <2>2. /\ pending' = PendingOf(file) /\ nextPrompt' = NextPrompt(file)
          /\ file' = IF archived' THEN file ELSE Repaired(file)
      BY <1>10, <2>1 DEF Recover
    <2>3. RecordsOf(file') = RecordsOf(file)
      BY <1>0, <2>2, RepairedTypes, AllLines
    <2>4. PendingOf(file') = PendingOf(file)
      BY <2>3 DEF PendingOf, OfKind, TerminalsOf
    <2>5. TerminalsBelow'
      <3> SUFFICES ASSUME NEW q \in ToSet(RecordsOf(file)), q.kind = "terminal"
                   PROVE  q.n < NextPrompt(file)
        BY <2>2, <2>3 DEF TerminalsBelow
      <3>1. ToSet(OfKind(file, {"intent", "terminal"})) =
               {r \in ToSet(RecordsOf(file)) : r.kind \in {"intent", "terminal"}}
        BY <1>0, KindElements, AllLines
      <3>2. ToSet(RecordsOf(file)) \subseteq KnownRecords(logged)
        <4>1. RecordsOf(file) \in Seq(KnownRecords(logged))
          BY <1>0, KnownTypes, RecordElements DEF DiskTypes
        <4> QED
          BY <4>1 DEF ToSet
      <3>3. PromptIds(file) \subseteq 1 .. MaxPrompts /\ q.n \in PromptIds(file)
        BY <3>1, <3>2 DEF PromptIds, KnownRecords
      <3> QED
        BY <3>3, NextIsAbove
    <2>6. task'.kind = "idle"
      BY <1>0, <2>1 DEF ActorTypes, Idle
    <2> QED
      BY <2>2, <2>4, <2>5, <2>6 DEF DiskOwes
  <1>11. CASE UNCHANGED vars
    BY <1>11 DEF vars, disk, server, history, OwesInv, DiskOwes, TerminalsBelow
  <1> QED
    BY <1>1, <1>2, <1>3, <1>4, <1>5, <1>6, <1>7, <1>8, <1>9, <1>10, <1>11 DEF Next

\* As long as no append failed, what is on disk is what the actor believes: the log at
\* its positions, the prompts still to settle, the archive mark, and each prompt id given
\* once, through any number of crashes, power losses and recoveries (push_event,
\* enqueue_prompt, do_set_archived, restore_seed_from_dir).
THEOREM DiskAlwaysFollows == Spec => []DiskFollowsActor
  <1>1. Init => TypeInv /\ SafeInv /\ FollowInv /\ OwesInv
    BY TypesBegin, SafeBegin, FollowBegin, OwesBegin
  <1>2. TypeInv /\ SafeInv /\ FollowInv /\ OwesInv /\ [Next]_vars
            => (TypeInv /\ SafeInv /\ FollowInv /\ OwesInv)'
    BY TypesStep, SafeStep, FollowStep, OwesStep
  <1>3. TypeInv /\ SafeInv /\ FollowInv /\ OwesInv => DiskFollowsActor
    <2> SUFFICES ASSUME TypeInv, FollowInv, OwesInv, mode = "up", faults.failed = 0
                 PROVE  /\ EventsOf(file) = log
                        /\ PendingOf(file) = IF task.kind = "deliver" THEN <<task.id>> ELSE pending
                        /\ ArchivedOf(file) = archived
                        /\ open # (archived /\ task = Idle)
                        /\ IsInjective(OfKind(file, {"intent"}))
                        /\ \A r \in ToSet(OfKind(file, {"intent"})) : r.n < nextPrompt
      BY DEF DiskFollowsActor
    <2>1. OneIntent(file) /\ DiskFollows /\ ActorFollows /\ file \in Seq(Lines)
      BY FileTypes DEF FollowInv, TypeInv, LogTypes
    <2>2. IsInjective(OfKind(file, {"intent"}))
      BY <2>1, OneIntentDistinct DEF IsInjective, Distinct
    <2>3. \A r \in ToSet(OfKind(file, {"intent"})) : r.n < nextPrompt
      <3>1. ToSet(OfKind(file, {"intent"})) = {r \in ToSet(RecordsOf(file)) : r.kind \in {"intent"}}
        BY <2>1, KindElements, AllLines
      <3> QED
        BY <2>1, <3>1 DEF DiskFollows
    <2>4. open # (archived /\ task = Idle)
      BY <2>1 DEF ActorFollows, TypeInv, ActorTypes
    <2>5. PendingOf(file) = IF task.kind = "deliver" THEN <<task.id>> ELSE pending
      BY DEF OwesInv, DiskOwes
    <2> QED
      BY <2>1, <2>2, <2>3, <2>4, <2>5 DEF DiskFollows
  <1> QED
    BY <1>1, <1>2, <1>3, PTL DEF Spec
=============================================================================
