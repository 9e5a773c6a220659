---------------------------- MODULE Rebuild_proofs ----------------------------
(* What an update writes is what a full build of the same tree would have  *)
(* written, as long as no update met what its scope or its dirty closure   *)
(* does not cover.                                                         *)
EXTENDS Pipeline_proofs

(***************************************************************************)
(* Which files are units                                                   *)
(***************************************************************************)
\* The full serial run that all others are compared with; the files it skips
\* and those it compiles.
Reference(d) == SerialAfter("full", {}, d, NoDatabase, {})
SkippedOf(d) == Reference(d)[Len(Order)].skipped
Working(d)   == Discovered(d) \ SkippedOf(d)

\* What may be reused without a change: stored units of files that have a
\* parser, made of the texts that parsing them would splice today.
Intact(clean, d, base) ==
    \A u \in clean : /\ Made(base.unit[u], u, d[u])
                     /\ base.unit[u].parts = IR(d, u).parts
                     /\ Lang[u] \in Parsed

\* The files of which there is a turn up to position n, and the units among them.
Seen(d, n)    == {f \in Sources : Position(f) <= n /\ d[f] # Absent}
Live(r, d, n) == Seen(d, n) \ r.skipped

\* The files whose turn is past, when one more is.
LEMMA SeenNext ==
    ASSUME NEW d, NEW n \in Nat, n + 1 <= Len(Order)
    PROVE  /\ d[Order[n + 1]] = Absent => Seen(d, n + 1) = Seen(d, n)
           /\ d[Order[n + 1]] # Absent => Seen(d, n + 1) = Seen(d, n) \union {Order[n + 1]}
           /\ Order[n + 1] \notin Seen(d, n) /\ Order[n + 1] \in Sources
           /\ Position(Order[n + 1]) = n + 1
<1>1. n + 1 \in DOMAIN Order /\ Len(Order) \in Nat
  BY OrderFacts
<1>2. Order[n + 1] \in Sources /\ Position(Order[n + 1]) = n + 1
  BY <1>1, OrderFacts
<1>3. \A f \in Sources : Position(f) \in Nat /\ Order[Position(f)] = f
  BY OrderFacts
<1>4. \A f \in Sources : Position(f) <= n + 1 <=> Position(f) <= n \/ f = Order[n + 1]
  BY <1>2, <1>3
<1>5. ~(Position(Order[n + 1]) <= n)
  BY <1>2
<1> QED BY <1>2, <1>4, <1>5 DEF Seen

\* What parsing a file makes of it.
LEMMA IRParts ==
    ASSUME NEW d, NEW f
    PROVE  /\ IR(d, f).unit = f /\ IR(d, f).bad = "none"
           /\ DOMAIN IR(d, f).parts = Spliced(d, f)
           /\ \A g \in Spliced(d, f) : IR(d, f).parts[g] = d[g]
BY DEF IR

\* Parsed or reused, a file contributes what parsing it yields.
LEMMA IntactContribution ==
    ASSUME NEW r, NEW d, NEW base, NEW f, Intact(r.clean, d, base)
    PROVE  Contribution(r, d, base, f).parts = IR(d, f).parts
<1>1. CASE Treatment(r, d, base, f) \in {"replay", "reuse"}
  BY <1>1, TreatmentType DEF Contribution, Intact
<1>2. CASE Treatment(r, d, base, f) \notin {"replay", "reuse"}
  BY <1>2 DEF Contribution
<1> QED BY <1>1, <1>2

\* Which files a run skips, and which it only replays.
Skips(r, d, f)   == d[f].skip \/ f \in r.consumed \/ Lang[f] \notin Parsed
Replays(r, f)    == r.mode = "selective" /\ f \in r.clean

\* A file is skipped for what it is, or because an earlier unit spliced it.
LEMMA SkipRule ==
    ASSUME NEW r, NEW d, NEW base, NEW f, Intact(r.clean, d, base)
    PROVE  /\ Treatment(r, d, base, f) = "skip" <=> Skips(r, d, f)
           /\ Treatment(r, d, base, f) = "replay" <=> Replays(r, f) /\ ~Skips(r, d, f)
<1>1. f \in r.clean => Lang[f] \in Parsed
  BY DEF Intact
<1> QED BY <1>1 DEF Treatment, Skips, Replays

\* What compiling a file makes of a run: what was spliced and skipped, and the
\* results.
FrontAfter(c, r, d, f) ==
    /\ c.mode = r.mode /\ c.clean = r.clean
    /\ c.skipped = IF Skips(r, d, f) THEN r.skipped \union {f} ELSE r.skipped
    /\ Skips(r, d, f) \/ Lang[f] \notin Preprocessed =>
          c.processed = r.processed /\ c.consumed = r.consumed
    /\ ~Skips(r, d, f) /\ Lang[f] \in Preprocessed =>
          /\ c.processed = r.processed \union {f}
          /\ c.consumed = r.consumed \union (Spliced(d, f) \ (r.processed \union {f}))

ResultAfter(c, r, d, F, f) ==
    /\ Skips(r, d, f) \/ Replays(r, f) =>
          c.irs = r.irs /\ c.units = r.units /\ c.failed = r.failed
    /\ ~Skips(r, d, f) /\ ~Replays(r, f) /\ f \in F =>
          c.irs = r.irs /\ c.units = r.units /\ c.failed = r.failed \union {f}
    /\ ~Skips(r, d, f) /\ ~Replays(r, f) /\ f \notin F =>
          /\ c.irs = Append(r.irs, IR(d, f)) /\ c.units = r.units \union {f}
          /\ c.failed = r.failed

\* What compiling file f does to the front of a run and to its results.
LEMMA CompiledIs ==
    ASSUME NEW r \in Runs, NEW d \in Disks, NEW base, NEW F, NEW f \in Sources, d[f] # Absent,
           Intact(r.clean, d, base), NEW c, c = Compilation(r, d, base, F, f)
    PROVE  c \in Runs /\ FrontAfter(c, r, d, f) /\ ResultAfter(c, r, d, F, f)
<1> DEFINE n   == Dispatched(r, d, base, f)
           ir  == Contribution(r, d, base, f)
           how == Treatment(r, d, base, f)
<1>1. Reusable(r, d, base)
  BY DEF Intact, Reusable
<1>2. Made(ir, f, d[f]) /\ ir.parts = IR(d, f).parts /\ DOMAIN ir.parts = Spliced(d, f)
  BY <1>1, ContributionType, IntactContribution, IRParts
<1>3. /\ how = "skip" <=> Skips(r, d, f)
      /\ how = "replay" <=> Replays(r, f) /\ ~Skips(r, d, f)
  BY SkipRule
<1>4. /\ n \in Runs /\ n.mode = r.mode /\ n.clean = r.clean /\ n.irs = r.irs
      /\ n.units = r.units /\ n.failed = r.failed
      /\ how = "skip" => n.skipped = r.skipped \union {f}
      /\ how # "skip" => n.skipped = r.skipped
      /\ how = "skip" \/ Lang[f] \notin Preprocessed =>
            n.processed = r.processed /\ n.consumed = r.consumed
      /\ how # "skip" /\ Lang[f] \in Preprocessed =>
            /\ n.processed = r.processed \union {f}
            /\ n.consumed = r.consumed \union ((DOMAIN ir.parts) \ (r.processed \union {f}))
  BY <1>1, DispatchedIs
<1>5. c = IF how \in {"skip", "replay"} THEN n
          ELSE IF f \in F THEN WorkerFailed(n, f) ELSE Finalized(n, f, ir)
  BY DEF Compilation, Serial!Compiled
<1>6. ir \in IRs /\ ir.unit = f
  BY <1>2 DEF Made
<1>6a. how \notin {"skip", "replay"} => ir = IR(d, f)
  <2>1. IR(d, f).unit = f /\ IR(d, f).bad = "none" /\ Made(IR(d, f), f, d[f])
    BY IRParts, IRType
  <2>2. CASE how = "reuse"
    <3>1. ir.bad = "none"
      BY <2>2 DEF Treatment, Contribution
    <3> HIDE DEF ir
    <3> QED BY <1>2, <1>6, <2>1, <3>1 DEF Made, IRs
  <2>3. CASE how = "parse"
    BY <2>3 DEF Contribution
  <2> QED BY <2>2, <2>3, TreatmentType
<1> HIDE DEF n, ir, how
<1>7. CASE how \in {"skip", "replay"}
  BY <1>2, <1>3, <1>4, <1>5, <1>7 DEF FrontAfter, ResultAfter
<1>8. CASE how \notin {"skip", "replay"} /\ f \in F
  <2>1. /\ c \in Runs /\ c.mode = n.mode /\ c.clean = n.clean
        /\ c.processed = n.processed /\ c.consumed = n.consumed
        /\ c.skipped = n.skipped /\ c.failed = n.failed \union {f}
        /\ c.irs = n.irs /\ c.units = n.units
    BY <1>4, <1>5, <1>8, FailedIs
  <2> QED BY <1>2, <1>3, <1>4, <1>8, <2>1 DEF FrontAfter, ResultAfter
<1>9. CASE how \notin {"skip", "replay"} /\ f \notin F
  <2>1. /\ c \in Runs /\ c.mode = n.mode /\ c.clean = n.clean
        /\ c.processed = n.processed /\ c.consumed = n.consumed
        /\ c.skipped = n.skipped /\ c.failed = n.failed
        /\ c.irs = Append(n.irs, ir) /\ c.units = n.units \union {f}
    BY <1>4, <1>5, <1>6, <1>9, FinalizedIs
  <2>2. /\ ~Skips(r, d, f) /\ ~Replays(r, f)
        /\ c.skipped = r.skipped /\ c.failed = r.failed /\ c.irs = Append(r.irs, ir)
        /\ c.units = r.units \union {f} /\ c.mode = r.mode /\ c.clean = r.clean
    BY <1>3, <1>4, <1>9, <2>1
  <2>3. /\ Lang[f] \notin Preprocessed => c.processed = r.processed /\ c.consumed = r.consumed
        /\ Lang[f] \in Preprocessed =>
              /\ c.processed = r.processed \union {f}
              /\ c.consumed = r.consumed \union (Spliced(d, f) \ (r.processed \union {f}))
    BY <1>2, <1>3, <1>4, <1>9, <2>1
  <2> QED BY <1>6a, <1>9, <2>1, <2>2, <2>3 DEF FrontAfter, ResultAfter
<1> QED BY <1>7, <1>8, <1>9

\* Two runs agree about what is spliced and what is skipped.
FrontsAgree(r, s) ==
    r.processed = s.processed /\ r.consumed = s.consumed /\ r.skipped = s.skipped

\* They still do after the next file.
LEMMA FrontsNext ==
    ASSUME NEW r \in Runs, NEW s \in Runs, FrontsAgree(r, s), NEW d \in Disks, NEW base, NEW other,
           NEW f \in Sources, d[f] # Absent, Intact(r.clean, d, base), Intact(s.clean, d, other),
           NEW F, NEW G
    PROVE  FrontsAgree(Compilation(r, d, base, F, f), Compilation(s, d, other, G, f))
<1>1. PICK a : a = Compilation(r, d, base, F, f)
  OBVIOUS
<1>2. PICK b : b = Compilation(s, d, other, G, f)
  OBVIOUS
<1>3. FrontAfter(a, r, d, f)
  BY <1>1, CompiledIs
<1>4. FrontAfter(b, s, d, f)
  BY <1>2, CompiledIs
<1>5. Skips(r, d, f) <=> Skips(s, d, f)
  BY DEF FrontsAgree, Skips
<1>6. FrontsAgree(a, b)
  BY <1>3, <1>4, <1>5 DEF FrontAfter, FrontsAgree
<1> QED BY <1>1, <1>2, <1>6

\* What is spliced and what is skipped does not depend on what a run reuses or
\* on which parses fail.
LEMMA FrontsSame ==
    ASSUME NEW mode \in {"full", "legacy", "selective"}, NEW clean \in SUBSET Sources,
           NEW d \in Disks, NEW base, Intact(clean, d, base), NEW F,
           NEW after, after = SerialAfter(mode, clean, d, base, F),
           NEW n \in 0 .. Len(Order)
    PROVE  FrontsAgree(after[n], Reference(d)[n])
<1> DEFINE ref == Reference(d)
           N == Len(Order)
           T == {k \in Nat : k <= N => FrontsAgree(after[k], ref[k])}
<1>0. N \in Nat /\ \A k \in 1 .. N : Order[k] \in Sources
  BY OrderFacts
<1>1. IsSerial(after, mode, clean, d, base, F)
  <2>1. Fits(clean, d, base)
    BY DEF Intact, Fits
  <2> QED BY <2>1, SerialSteps
<1>2. IsSerial(ref, "full", {}, d, NoDatabase, {})
  <2>1. Fits({}, d, NoDatabase)
    BY DEF Fits
  <2> QED BY <2>1, SerialSteps DEF Reference
<1> HIDE DEF ref, N
<1>3. 0 \in T
  <2>1. after[0] = Fresh(mode, clean) /\ ref[0] = Fresh("full", {})
    BY <1>1, <1>2 DEF IsSerial
  <2>2. FrontsAgree(after[0], ref[0])
    BY <2>1 DEF Fresh, FrontsAgree
  <2> QED BY <2>2
<1>4. \A k \in T : k + 1 \in T
  <2> SUFFICES ASSUME NEW k \in Nat, k + 1 <= N, FrontsAgree(after[k], ref[k])
               PROVE  FrontsAgree(after[k + 1], ref[k + 1])
    BY <1>0
  <2> DEFINE f == Order[k + 1]
  <2>1. k \in 0 .. N /\ k + 1 \in 1 .. N /\ (k + 1) - 1 = k /\ f \in Sources
    BY <1>0
  <2>2. /\ after[k] \in RunsOf(mode, clean)
        /\ after[k + 1] = IF d[f] = Absent THEN after[k] ELSE Compilation(after[k], d, base, F, f)
    BY <1>1, <2>1 DEF IsSerial, N
  <2>3. /\ ref[k] \in RunsOf("full", {})
        /\ ref[k + 1] = IF d[f] = Absent THEN ref[k] ELSE Compilation(ref[k], d, NoDatabase, {}, f)
    BY <1>2, <2>1 DEF IsSerial, N
  <2> HIDE DEF f
  <2>4. CASE d[f] = Absent
    BY <2>2, <2>3, <2>4
  <2>5. CASE d[f] # Absent
    <3>1. /\ after[k] \in Runs /\ Intact(after[k].clean, d, base)
          /\ ref[k] \in Runs /\ Intact(ref[k].clean, d, NoDatabase)
      BY <2>2, <2>3 DEF RunsOf, Intact
    <3>2. FrontsAgree(Compilation(after[k], d, base, F, f), Compilation(ref[k], d, NoDatabase, {}, f))
      BY <2>1, <2>5, <3>1, FrontsNext
    <3> QED BY <2>2, <2>3, <2>5, <3>2
  <2> QED BY <2>4, <2>5
<1>5. T \in SUBSET Nat /\ n \in Nat /\ n <= N
  BY <1>0 DEF N
<1> HIDE DEF T
<1>6. n \in T
  BY <1>3, <1>4, <1>5, SetInduction
<1> QED BY <1>5, <1>6 DEF T, ref

(***************************************************************************)
(* The results of a serial run                                             *)
(***************************************************************************)
\* The IRs at the places live are those of the units U, in discovery order.
Listing(irs, live, U, d) ==
    /\ \A i \in live : irs[i].unit \in U /\ irs[i] = IR(d, irs[i].unit)
    /\ \A u \in U : \E i \in live : irs[i].unit = u
    /\ \A i, j \in live : i < j => Position(irs[i].unit) < Position(irs[j].unit)

\* The clean units that need no result.
Replayed(mode, clean) == IF mode = "selective" THEN clean ELSE {}

\* A unit is no header, has a parser, and was spliced by no unit before it.
Proper(U, d) ==
    /\ \A f \in U : ~d[f].skip /\ Lang[f] \in Parsed
    /\ \A u, f \in U : Lang[u] \in Preprocessed /\ Position(u) < Position(f) =>
          f \notin Spliced(d, u)

\* What pass 0 has to show for the first n files: what a unit spliced and is
\* still to come is consumed.
Prepared(r, d, n) ==
    /\ r.skipped \subseteq Seen(d, n) /\ r.processed \subseteq Seen(d, n)
    /\ Proper(Live(r, d, n), d)
    /\ \A u \in Live(r, d, n) : Lang[u] \in Preprocessed =>
          \A g \in Spliced(d, u) : Position(g) > n => g \in r.consumed

\* What pass 1 has to show for them: each unit that is not just replayed has a
\* result, or failed.
Tallied(r, d, F, n) ==
    LET replayed == Replayed(r.mode, r.clean)
    IN  /\ r.units = Live(r, d, n) \ (replayed \union F)
        /\ r.failed = (Live(r, d, n) \intersect F) \ replayed
        /\ Listing(r.irs, DOMAIN r.irs, r.units, d)

\* Splicing stays among the source files.
LEMMA SplicedSources ==
    ASSUME NEW d, NEW f \in Sources
    PROVE  Spliced(d, f) \subseteq Sources /\ f \in Spliced(d, f)
           /\ (Lang[f] \notin Preprocessed => Spliced(d, f) = {f})
BY DEF Spliced, Discovered

\* The next file, in pass 0.
LEMMA PreparedNext ==
    ASSUME NEW r \in Runs, NEW c \in Runs, NEW d, NEW n \in Nat, n + 1 <= Len(Order),
           Prepared(r, d, n), NEW f, f = Order[n + 1], d[f] # Absent, FrontAfter(c, r, d, f)
    PROVE  /\ Prepared(c, d, n + 1)
           /\ Skips(r, d, f) => Live(c, d, n + 1) = Live(r, d, n)
           /\ ~Skips(r, d, f) => Live(c, d, n + 1) = Live(r, d, n) \union {f}
           /\ f \notin Live(r, d, n)
<1>1. /\ Seen(d, n + 1) = Seen(d, n) \union {f} /\ f \notin Seen(d, n) /\ f \in Sources
      /\ Position(f) = n + 1
  BY SeenNext
<1>2. \A g \in Sources : Position(g) \in Nat
  BY OrderFacts
<1>3. \A g \in Seen(d, n) : g \in Sources /\ Position(g) <= n
  BY DEF Seen
<1>4. r.skipped \subseteq Seen(d, n) /\ r.processed \subseteq Seen(d, n)
  BY DEF Prepared
<1>5. CASE Skips(r, d, f)
  <2>1. c.skipped = r.skipped \union {f} /\ c.processed = r.processed /\ c.consumed = r.consumed
    BY <1>5 DEF FrontAfter
  <2>2. Live(c, d, n + 1) = Live(r, d, n) /\ f \notin Live(r, d, n)
    BY <1>1, <1>4, <2>1 DEF Live
  <2>3. ASSUME NEW u \in Live(r, d, n), Lang[u] \in Preprocessed, NEW g \in Spliced(d, u),
               Position(g) > n + 1
        PROVE  g \in r.consumed
    <3>1. g \in Sources
      BY <1>3, SplicedSources DEF Live
    <3>2. Position(g) > n
      BY <1>2, <2>3, <3>1
    <3> QED BY <2>3, <3>2 DEF Prepared
  <2>4. Prepared(c, d, n + 1)
    BY <1>1, <1>4, <2>1, <2>2, <2>3 DEF Prepared
  <2> QED BY <1>5, <2>2, <2>4
<1>6. CASE ~Skips(r, d, f)
  <2>1. /\ c.skipped = r.skipped
        /\ Lang[f] \notin Preprocessed => c.processed = r.processed /\ c.consumed = r.consumed
        /\ Lang[f] \in Preprocessed =>
              /\ c.processed = r.processed \union {f}
              /\ c.consumed = r.consumed \union (Spliced(d, f) \ (r.processed \union {f}))
    BY <1>6 DEF FrontAfter
  <2>2. Live(c, d, n + 1) = Live(r, d, n) \union {f} /\ f \notin Live(r, d, n)
    BY <1>1, <1>4, <2>1 DEF Live
  <2>3. \A u \in Live(r, d, n) : u \in Sources /\ Position(u) < Position(f)
    <3>1. \A u \in Live(r, d, n) : u \in Sources /\ Position(u) <= n
      BY <1>3 DEF Live
    <3> QED BY <1>1, <1>2, <3>1
  <2>4. Proper(Live(r, d, n), d)
    BY DEF Prepared
  <2>5. ASSUME NEW u \in Live(r, d, n), Lang[u] \in Preprocessed PROVE f \notin Spliced(d, u)
    <3>1. Position(f) > n
      BY <1>1
    <3>2. f \in Spliced(d, u) => f \in r.consumed
      BY <2>5, <3>1 DEF Prepared
    <3> QED BY <1>6, <3>2 DEF Skips
  <2>6. Proper(Live(r, d, n) \union {f}, d)
    <3>1. ~d[f].skip /\ Lang[f] \in Parsed
      BY <1>6 DEF Skips
    <3>2. \A u \in Live(r, d, n) : ~(Position(f) < Position(u))
      BY <1>1, <1>2, <2>3
    <3>3. ~(Position(f) < Position(f))
      BY <1>1, <1>2
    <3> QED BY <2>4, <2>5, <3>1, <3>2, <3>3 DEF Proper
  <2>7. ASSUME NEW u \in Live(r, d, n) \union {f}, Lang[u] \in Preprocessed, NEW g \in Spliced(d, u),
               Position(g) > n + 1
        PROVE  g \in c.consumed
    <3>1. g \in Sources
      BY <1>1, <2>3, SplicedSources
    <3>2. Position(g) > n
      BY <1>2, <2>7, <3>1
    <3>3. CASE u \in Live(r, d, n)
      <4>1. g \in r.consumed
        BY <2>7, <3>2, <3>3 DEF Prepared
      <4> QED BY <2>1, <4>1
    <3>4. CASE u = f
      <4>1. g \notin Seen(d, n)
        BY <1>2, <1>3, <3>1, <3>2
      <4>2. g # f
        BY <1>1, <2>7
      <4> QED BY <1>4, <2>1, <2>7, <3>4, <4>1, <4>2
    <3> QED BY <3>3, <3>4
  <2>8. c.skipped \subseteq Seen(d, n + 1) /\ c.processed \subseteq Seen(d, n + 1)
    BY <1>1, <1>4, <2>1
  <2>9. Prepared(c, d, n + 1)
    BY <2>2, <2>6, <2>7, <2>8 DEF Prepared
  <2> QED BY <1>6, <2>2, <2>9
<1> QED BY <1>5, <1>6

\* One more unit, later than the others, at the end of the list.
LEMMA ListingGrows ==
    ASSUME NEW irs \in Seq(IRs), NEW U, NEW d, Listing(irs, DOMAIN irs, U, d),
           NEW f, NEW ir \in IRs, ir = IR(d, f),
           \A u \in U : Position(u) < Position(f),
           NEW new, new = Append(irs, ir)
    PROVE  Listing(new, DOMAIN new, U \union {f}, d)
<1>1. /\ DOMAIN irs = 1 .. Len(irs) /\ Len(irs) \in Nat /\ DOMAIN new = 1 .. Len(irs) + 1
      /\ \A i \in 1 .. Len(irs) : new[i] = irs[i]
      /\ new[Len(irs) + 1] = ir
  BY Appended
<1> DEFINE L == Len(irs)
<1> HIDE DEF L
<1>2. /\ DOMAIN irs = 1 .. L /\ L \in Nat /\ DOMAIN new = 1 .. L + 1
      /\ \A i \in 1 .. L : new[i] = irs[i]
      /\ new[L + 1] = ir /\ L + 1 \in DOMAIN new
  BY <1>1 DEF L
<1>3. /\ \A i \in DOMAIN irs : irs[i].unit \in U /\ irs[i] = IR(d, irs[i].unit)
      /\ \A u \in U : \E i \in DOMAIN irs : irs[i].unit = u
      /\ \A i, j \in DOMAIN irs : i < j => Position(irs[i].unit) < Position(irs[j].unit)
  BY DEF Listing
<1>4. \A i \in DOMAIN new : new[i].unit \in U \union {f} /\ new[i] = IR(d, new[i].unit)
  <2> SUFFICES ASSUME NEW i \in DOMAIN new
               PROVE  new[i].unit \in U \union {f} /\ new[i] = IR(d, new[i].unit)
    OBVIOUS
  <2>1. i \in DOMAIN irs \/ i = L + 1
    BY <1>2
  <2>2. CASE i \in DOMAIN irs
    BY <1>2, <1>3, <2>2
  <2>3. CASE i = L + 1
    BY <1>2, <2>3, IRParts
  <2> QED BY <2>1, <2>2, <2>3
<1>5. \A u \in U \union {f} : \E i \in DOMAIN new : new[i].unit = u
  <2>1. \A u \in U : \E i \in DOMAIN new : new[i].unit = u
    <3> SUFFICES ASSUME NEW u \in U PROVE \E i \in DOMAIN new : new[i].unit = u
      OBVIOUS
    <3>1. PICK i \in DOMAIN irs : irs[i].unit = u
      BY <1>3
    <3>2. i \in DOMAIN new /\ new[i].unit = u
      BY <1>2, <3>1
    <3> QED BY <3>2
  <2> QED BY <1>2, <2>1, IRParts
<1>6. ASSUME NEW i \in DOMAIN new, NEW j \in DOMAIN new, i < j
      PROVE  Position(new[i].unit) < Position(new[j].unit)
  <2>1. i \in DOMAIN irs /\ new[i] = irs[i]
    BY <1>2, <1>6
  <2>2. CASE j \in DOMAIN irs
    BY <1>2, <1>3, <1>6, <2>1, <2>2
  <2>3. CASE j \notin DOMAIN irs
    <3>1. j = L + 1
      BY <1>2, <2>3
    <3> QED BY <1>2, <1>3, <2>1, <3>1, IRParts
  <2> QED BY <2>2, <2>3
<1> QED BY <1>4, <1>5, <1>6 DEF Listing

\* The next file, in pass 1.
LEMMA TalliedNext ==
    ASSUME NEW r \in Runs, NEW c \in Runs, NEW d \in Disks, NEW F, NEW n \in Nat, n + 1 <= Len(Order),
           Prepared(r, d, n), Tallied(r, d, F, n),
           NEW f, f = Order[n + 1], d[f] # Absent, FrontAfter(c, r, d, f), ResultAfter(c, r, d, F, f)
    PROVE  Tallied(c, d, F, n + 1)
<1> DEFINE replayed == Replayed(r.mode, r.clean)
           before == Live(r, d, n)
           now == Live(c, d, n + 1)
<1>1. /\ Skips(r, d, f) => now = before
      /\ ~Skips(r, d, f) => now = before \union {f}
      /\ f \notin before
  BY PreparedNext
<1>2. /\ r.units = before \ (replayed \union F)
      /\ r.failed = (before \intersect F) \ replayed
      /\ Listing(r.irs, DOMAIN r.irs, r.units, d)
  BY DEF Tallied
<1>3. Replayed(c.mode, c.clean) = replayed /\ (Replays(r, f) <=> f \in replayed)
  BY DEF FrontAfter, Replays, Replayed
<1>4. \A u \in before : Position(u) < Position(f)
  <2>1. f \in Sources /\ Position(f) = n + 1
    BY SeenNext
  <2>2. \A u \in before : u \in Sources /\ Position(u) <= n
    BY DEF Live, Seen
  <2> QED BY <2>1, <2>2, OrderFacts
<1> HIDE DEF replayed, before, now
<1>5. CASE Skips(r, d, f) \/ Replays(r, f)
  <2>1. c.irs = r.irs /\ c.units = r.units /\ c.failed = r.failed
    BY <1>5 DEF ResultAfter
  <2>2. c.units = now \ (replayed \union F) /\ c.failed = (now \intersect F) \ replayed
    BY <1>1, <1>2, <1>3, <1>5, <2>1
  <2> QED BY <1>2, <1>3, <2>1, <2>2 DEF Tallied, now
<1>6. CASE ~Skips(r, d, f) /\ ~Replays(r, f) /\ f \in F
  <2>1. c.irs = r.irs /\ c.units = r.units /\ c.failed = r.failed \union {f}
    BY <1>6 DEF ResultAfter
  <2>2. c.units = now \ (replayed \union F) /\ c.failed = (now \intersect F) \ replayed
    BY <1>1, <1>2, <1>3, <1>6, <2>1
  <2> QED BY <1>2, <1>3, <2>1, <2>2 DEF Tallied, now
<1>7. CASE ~Skips(r, d, f) /\ ~Replays(r, f) /\ f \notin F
  <2>1. /\ c.irs = Append(r.irs, IR(d, f)) /\ c.units = r.units \union {f}
        /\ c.failed = r.failed
    BY <1>7 DEF ResultAfter
  <2>2. c.units = now \ (replayed \union F) /\ c.failed = (now \intersect F) \ replayed
    BY <1>1, <1>2, <1>3, <1>7, <2>1
  <2>3. \A u \in r.units : Position(u) < Position(f)
    BY <1>2, <1>4
  <2>4. r.irs \in Seq(IRs)
    BY DEF Runs
  <2>5. Listing(c.irs, DOMAIN c.irs, c.units, d)
    <3>1. Listing(r.irs, DOMAIN r.irs, r.units, d) /\ IR(d, f) \in IRs
      <4>1. f \in Sources
        BY SeenNext
      <4> QED BY <1>2, <4>1, IRType DEF Made
    <3>2. Listing(c.irs, DOMAIN c.irs, r.units \union {f}, d)
      BY <2>1, <2>3, <2>4, <3>1, ListingGrows
    <3> QED BY <2>1, <3>2
  <2> QED BY <1>3, <2>2, <2>5 DEF Tallied, now
<1> QED BY <1>5, <1>6, <1>7

\* All its files are accounted for.
Booked(r, mode, clean, d, F) ==
    /\ r \in RunsOf(mode, clean)
    /\ r.skipped = SkippedOf(d) /\ Live(r, d, Len(Order)) = Working(d)
    /\ Prepared(r, d, Len(Order)) /\ Tallied(r, d, F, Len(Order))

\* A serial run that may reuse what is intact: its files are skipped as in
\* the full run, its units are accounted for.
LEMMA SerialTally ==
    ASSUME NEW mode \in {"full", "legacy", "selective"}, NEW clean \in SUBSET Sources,
           NEW d \in Disks, NEW base, Intact(clean, d, base), NEW F,
           NEW run1, run1 = SerialResult(mode, clean, d, base, F)
    PROVE  Booked(run1, mode, clean, d, F)
<1> DEFINE after == SerialAfter(mode, clean, d, base, F)
           N == Len(Order)
           T == {k \in Nat : k <= N => Prepared(after[k], d, k) /\ Tallied(after[k], d, F, k)}
<1>0. N \in Nat /\ \A k \in 1 .. N : Order[k] \in Sources
  BY OrderFacts
<1>1. IsSerial(after, mode, clean, d, base, F)
  <2>1. Fits(clean, d, base)
    BY DEF Intact, Fits
  <2> QED BY <2>1, SerialSteps
<1>2. run1 = after[N]
  BY DEF SerialResult, Serial!Serial, SerialAfter
<1> HIDE DEF after, N
<1>3. 0 \in T
  <2>1. after[0] = Fresh(mode, clean)
    BY <1>1 DEF IsSerial
  <2>2. /\ after[0].skipped = {} /\ after[0].processed = {} /\ after[0].units = {}
        /\ after[0].failed = {} /\ after[0].irs = << >>
    BY <2>1 DEF Fresh
  <2>3. Seen(d, 0) = {}
    <3>1. \A f \in Sources : Position(f) \in Nat /\ Position(f) >= 1
      BY OrderFacts
    <3> QED BY <3>1 DEF Seen
  <2>4. Live(after[0], d, 0) = {}
    BY <2>3 DEF Live
  <2>5. Prepared(after[0], d, 0)
    BY <2>2, <2>4 DEF Prepared, Proper
  <2>6. DOMAIN << >> = {}
    BY EmptyQueue
  <2>7. Tallied(after[0], d, F, 0)
    BY <2>2, <2>4, <2>6 DEF Tallied, Listing
  <2> QED BY <2>5, <2>7
<1>4. \A k \in T : k + 1 \in T
  <2> SUFFICES ASSUME NEW k \in Nat, k + 1 <= N, Prepared(after[k], d, k), Tallied(after[k], d, F, k)
               PROVE  Prepared(after[k + 1], d, k + 1) /\ Tallied(after[k + 1], d, F, k + 1)
    BY <1>0
  <2> DEFINE f == Order[k + 1]
  <2>1. k \in 0 .. N /\ k + 1 \in 1 .. N /\ (k + 1) - 1 = k /\ f \in Sources /\ k + 1 <= Len(Order)
    BY <1>0 DEF N
  <2>2. /\ after[k] \in RunsOf(mode, clean)
        /\ after[k + 1] = IF d[f] = Absent THEN after[k] ELSE Compilation(after[k], d, base, F, f)
    BY <1>1, <2>1 DEF IsSerial, N
  <2>3. CASE d[f] = Absent
    <3>1. Seen(d, k + 1) = Seen(d, k)
      BY <2>1, <2>3, SeenNext
    <3>2. after[k + 1] = after[k] /\ Live(after[k], d, k + 1) = Live(after[k], d, k)
      BY <2>2, <2>3, <3>1 DEF Live
    <3>3. Tallied(after[k + 1], d, F, k + 1)
      BY <3>2 DEF Tallied
    <3>4. ASSUME NEW u \in Live(after[k], d, k), Lang[u] \in Preprocessed, NEW g \in Spliced(d, u),
                 Position(g) > k + 1
          PROVE  g \in after[k].consumed
      <4>1. g \in Sources
        BY SplicedSources DEF Live, Seen
      <4>2. Position(g) > k
        BY <3>4, <4>1, OrderFacts
      <4> QED BY <3>4, <4>2 DEF Prepared
    <3>5. Prepared(after[k + 1], d, k + 1)
      BY <3>1, <3>2, <3>4 DEF Prepared
    <3> QED BY <3>3, <3>5
  <2>4. CASE d[f] # Absent
    <3>1. after[k] \in Runs /\ Intact(after[k].clean, d, base)
      BY <2>2 DEF RunsOf
    <3>2. after[k + 1] = Compilation(after[k], d, base, F, f)
      BY <2>2, <2>4
    <3>3. /\ after[k + 1] \in Runs /\ FrontAfter(after[k + 1], after[k], d, f)
          /\ ResultAfter(after[k + 1], after[k], d, F, f)
      BY <2>1, <2>4, <3>1, <3>2, CompiledIs
    <3>4. Prepared(after[k + 1], d, k + 1)
      BY <2>1, <2>4, <3>1, <3>3, PreparedNext
    <3>5. Tallied(after[k + 1], d, F, k + 1)
      BY <2>1, <2>4, <3>1, <3>3, TalliedNext
    <3> QED BY <3>4, <3>5
  <2> QED BY <2>3, <2>4
<1>5. T \in SUBSET Nat
  OBVIOUS
<1> HIDE DEF T
<1>6. N \in T
  BY <1>0, <1>3, <1>4, <1>5, SetInduction
<1>7. Prepared(run1, d, N) /\ Tallied(run1, d, F, N)
  BY <1>0, <1>2, <1>6 DEF T
<1>8. run1 \in RunsOf(mode, clean)
  BY <1>0, <1>1, <1>2 DEF IsSerial, N
<1>9. run1.skipped = SkippedOf(d)
  <2>1. N \in 0 .. Len(Order)
    BY <1>0 DEF N
  <2>2. FrontsAgree(after[N], Reference(d)[N])
    BY <2>1, FrontsSame DEF after
  <2> QED BY <1>2, <2>2 DEF FrontsAgree, SkippedOf, N
<1>10. Seen(d, N) = Discovered(d)
  <2>1. \A f \in Sources : Position(f) <= N
    BY <1>0, OrderFacts DEF N
  <2> QED BY <2>1 DEF Seen, Discovered
<1>11. Live(run1, d, N) = Working(d)
  BY <1>9, <1>10 DEF Live, Working
<1> QED BY <1>7, <1>8, <1>9, <1>11 DEF N, Booked

\* The units of a tree.
LEMMA WorkingFacts ==
    ASSUME NEW d \in Disks
    PROVE  Proper(Working(d), d) /\ Working(d) \subseteq Discovered(d)
           /\ SkippedOf(d) \subseteq Discovered(d)
<1>1. PICK r : r = SerialResult("full", {}, d, NoDatabase, {})
  OBVIOUS
<1>2. Intact({}, d, NoDatabase)
  BY DEF Intact
<1>3. /\ r.skipped = SkippedOf(d) /\ Live(r, d, Len(Order)) = Working(d)
      /\ Prepared(r, d, Len(Order))
  <2>1. "full" \in {"full", "legacy", "selective"} /\ {} \in SUBSET Sources
    OBVIOUS
  <2>2. Booked(r, "full", {}, d, {})
    BY <1>1, <1>2, <2>1, SerialTally
  <2> QED BY <2>2 DEF Booked
<1> QED BY <1>3 DEF Prepared, Working, Seen, Discovered

(***************************************************************************)
(* The graph of a set of units                                             *)
(***************************************************************************)
HeldIn(d, U)     == UNION {Spliced(d, u) : u \in U}
HeldBy(d, U, f)  == {u \in U : f \in Spliced(d, u)}
Leads(d, U, f, u) == u \in HeldBy(d, U, f) /\ \A v \in HeldBy(d, U, f) : Position(u) <= Position(v)
FirstOf(d, U, f) == CHOOSE u \in Sources : Leads(d, U, f, u)
TextsOf(d, U)    == [f \in HeldIn(d, U) |-> d[f]]

\* What the graph holds of a file: the first unit that splices it owns it.
RowOf(d, U, texts, f, enriched) ==
    [owner |-> FirstOf(d, U, f), text |-> d[f],
     res   |-> Resolved(texts, d[f]),
     wide  |-> {u \in U : Lang[u] \in Wide /\ f \in d[u].uses},
     enriched |-> enriched]

GraphOf(d, U, enriched) == [f \in HeldIn(d, U) |-> RowOf(d, U, TextsOf(d, U), f, enriched)]

\* One unit is the first that splices a file, and there is no other.
LEMMA FirstIs ==
    ASSUME NEW d, NEW U \in SUBSET Sources, NEW f
    PROVE  /\ f \in HeldIn(d, U) => Leads(d, U, f, FirstOf(d, U, f))
           /\ \A u : Leads(d, U, f, u) => u = FirstOf(d, U, f) /\ f \in HeldIn(d, U)
<1>1. \A u \in Sources : Position(u) \in Nat /\ Order[Position(u)] = u
  BY OrderFacts
<1>2. ASSUME NEW u, NEW v, Leads(d, U, f, u), Leads(d, U, f, v) PROVE u = v
  <2>1. u \in Sources /\ v \in Sources /\ Position(u) <= Position(v) /\ Position(v) <= Position(u)
    BY <1>2 DEF Leads, HeldBy
  <2>2. Position(u) = Position(v)
    BY <1>1, <2>1
  <2> QED BY <1>1, <2>1, <2>2
<1>3. \A u : Leads(d, U, f, u) => u \in Sources /\ f \in HeldIn(d, U)
  BY DEF Leads, HeldBy, HeldIn
<1>4. ASSUME f \in HeldIn(d, U) PROVE \E u \in Sources : Leads(d, U, f, u)
  <2> DEFINE I == {Position(u) : u \in HeldBy(d, U, f)}
  <2>1. HeldBy(d, U, f) \subseteq Sources /\ HeldBy(d, U, f) # {}
    BY <1>4 DEF HeldBy, HeldIn
  <2>2. I \in SUBSET Nat /\ I # {}
    BY <1>1, <2>1
  <2>3. PICK i \in I : \A j \in I : i <= j
    <3> HIDE DEF I
    <3> QED BY <2>2, LeastNumber
  <2>4. PICK u \in HeldBy(d, U, f) : i = Position(u)
    BY <2>3
  <2>5. \A v \in HeldBy(d, U, f) : Position(u) <= Position(v)
    BY <2>3, <2>4
  <2> QED BY <2>1, <2>4, <2>5 DEF Leads
<1>5. f \in HeldIn(d, U) => Leads(d, U, f, FirstOf(d, U, f))
  BY <1>4 DEF FirstOf
<1>6. ASSUME NEW u, Leads(d, U, f, u) PROVE u = FirstOf(d, U, f)
  <2>1. f \in HeldIn(d, U)
    BY <1>3, <1>6
  <2> QED BY <1>2, <1>5, <1>6, <2>1
<1> QED BY <1>3, <1>5, <1>6

\* The first IR in discovery order that holds a file is the one of that unit.
LEMMA OwnerIs ==
    ASSUME NEW irs, NEW live \in SUBSET Nat, NEW d, NEW U \in SUBSET Sources,
           Listing(irs, live, U, d), NEW f \in HeldIn(d, U)
    PROVE  OwnerOf(irs, live, f) = IR(d, FirstOf(d, U, f))
<1> DEFINE H == Holders(irs, live, f)
<1>1. /\ \A i \in live : irs[i].unit \in U /\ irs[i] = IR(d, irs[i].unit)
      /\ \A u \in U : \E i \in live : irs[i].unit = u
      /\ \A i, j \in live : i < j => Position(irs[i].unit) < Position(irs[j].unit)
  BY DEF Listing
<1>2. \A i \in live : i \in H <=> irs[i].unit \in HeldBy(d, U, f)
  <2>1. \A i \in live : DOMAIN irs[i].parts = Spliced(d, irs[i].unit)
    BY <1>1, IRParts
  <2> QED BY <1>1, <2>1 DEF Holders, HeldBy
<1>3. H \in SUBSET Nat /\ H \subseteq live /\ H # {}
  <2>1. PICK u \in U : f \in Spliced(d, u)
    BY DEF HeldIn
  <2>2. PICK i \in live : irs[i].unit = u
    BY <1>1
  <2>3. i \in H
    BY <1>2, <2>1, <2>2 DEF HeldBy
  <2> QED BY <2>3 DEF Holders
<1> HIDE DEF H
<1>4. \E i \in H : \A j \in H : i <= j
  BY <1>3, LeastNumber
<1>5. PICK i \in H : OwnerOf(irs, live, f) = irs[i] /\ \A j \in H : i <= j
  BY <1>4 DEF OwnerOf, H
<1>6. i \in live /\ irs[i].unit \in HeldBy(d, U, f)
  BY <1>2, <1>3
<1>7. ASSUME NEW v \in HeldBy(d, U, f) PROVE Position(irs[i].unit) <= Position(v)
  <2>1. PICK j \in live : irs[j].unit = v
    BY <1>1 DEF HeldBy
  <2>2. j \in H /\ i <= j /\ i \in Nat /\ j \in Nat
    BY <1>2, <1>3, <1>5, <2>1
  <2>3. Position(v) \in Nat
    BY OrderFacts DEF HeldBy
  <2>4. CASE i = j
    BY <2>1, <2>3, <2>4
  <2>5. CASE i < j
    <3>1. Position(irs[i].unit) < Position(v)
      BY <1>1, <1>6, <2>1, <2>5
    <3>2. Position(irs[i].unit) \in Nat
      BY <1>6, OrderFacts DEF HeldBy
    <3> QED BY <2>3, <3>1, <3>2
  <2> QED BY <2>2, <2>4, <2>5
<1>8. Leads(d, U, f, irs[i].unit)
  BY <1>6, <1>7 DEF Leads
<1>9. irs[i].unit = FirstOf(d, U, f)
  BY <1>8, FirstIs
<1> QED BY <1>1, <1>5, <1>6, <1>9

\* The files of the listed IRs.
LEMMA OwnedIs ==
    ASSUME NEW irs, NEW live, NEW d, NEW U, Listing(irs, live, U, d)
    PROVE  Owned(irs, live) = HeldIn(d, U)
<1>1. /\ \A i \in live : irs[i].unit \in U /\ irs[i] = IR(d, irs[i].unit)
      /\ \A u \in U : \E i \in live : irs[i].unit = u
  BY DEF Listing
<1>2. \A i \in live : DOMAIN irs[i].parts = Spliced(d, irs[i].unit)
  BY <1>1, IRParts
<1>3. \A f \in Owned(irs, live) : f \in HeldIn(d, U)
  BY <1>1, <1>2 DEF Owned, HeldIn
<1>4. ASSUME NEW u \in U, NEW f \in Spliced(d, u) PROVE f \in Owned(irs, live)
  <2>1. PICK i \in live : irs[i].unit = u
    BY <1>1
  <2> QED BY <1>2, <1>4, <2>1 DEF Owned
<1> QED BY <1>3, <1>4 DEF HeldIn

\* That unit, and the text it saw.
LEMMA OwnerText ==
    ASSUME NEW irs, NEW live \in SUBSET Nat, NEW d, NEW U \in SUBSET Sources,
           Listing(irs, live, U, d), NEW f \in HeldIn(d, U)
    PROVE  /\ OwnerOf(irs, live, f).unit = FirstOf(d, U, f)
           /\ OwnerOf(irs, live, f).parts[f] = d[f]
<1>1. OwnerOf(irs, live, f) = IR(d, FirstOf(d, U, f))
  BY OwnerIs
<1>2. f \in Spliced(d, FirstOf(d, U, f))
  BY FirstIs DEF Leads, HeldBy
<1> QED BY <1>1, <1>2, IRParts

\* What the linker makes of a file of the listed IRs.
LEMMA EntryIs ==
    ASSUME NEW irs, NEW live \in SUBSET Nat, NEW d, NEW U \in SUBSET Sources,
           Listing(irs, live, U, d), NEW f \in HeldIn(d, U), NEW texts, NEW enriched
    PROVE  Entry(irs, live, texts, f, enriched) = RowOf(d, U, texts, f, enriched)
<1> DEFINE owner == OwnerOf(irs, live, f)
           wide == {i \in live : Lang[irs[i].unit] \in Wide}
           touching == {irs[i].unit : i \in {j \in wide : f \in irs[j].parts[irs[j].unit].uses}}
<1>3. owner.unit = FirstOf(d, U, f) /\ owner.parts[f] = d[f]
  BY OwnerText
<1>4. touching = {u \in U : Lang[u] \in Wide /\ f \in d[u].uses}
  <2>1. /\ \A i \in live : irs[i].unit \in U /\ irs[i] = IR(d, irs[i].unit)
        /\ \A u \in U : \E i \in live : irs[i].unit = u
    BY DEF Listing
  <2>2. ASSUME NEW i \in live PROVE irs[i].parts[irs[i].unit] = d[irs[i].unit]
    <3>1. irs[i].unit \in Spliced(d, irs[i].unit)
      BY <2>1, SplicedSources
    <3> QED BY <2>1, <3>1, IRParts
  <2>3. ASSUME NEW u \in U, Lang[u] \in Wide, f \in d[u].uses PROVE u \in touching
    <3>1. PICK i \in live : irs[i].unit = u
      BY <2>1
    <3> QED BY <2>2, <2>3, <3>1
  <2>4. ASSUME NEW u \in touching PROVE u \in U /\ Lang[u] \in Wide /\ f \in d[u].uses
    <3>1. PICK i \in live : u = irs[i].unit /\ Lang[u] \in Wide /\ f \in irs[i].parts[irs[i].unit].uses
      OBVIOUS
    <3> QED BY <2>1, <2>2, <3>1
  <2> QED BY <2>3, <2>4
<1>5. Entry(irs, live, texts, f, enriched)
        = [owner |-> owner.unit, text |-> owner.parts[f], res |-> Resolved(texts, owner.parts[f]),
           wide |-> touching, enriched |-> enriched]
  BY DEF Entry
<1> HIDE DEF owner, touching
<1> QED BY <1>3, <1>4, <1>5 DEF RowOf

\* A full link of listed IRs makes the graph of their units.
LEMMA LinkGraphIs ==
    ASSUME NEW irs \in Seq(IRs), NEW d, NEW U \in SUBSET Sources, Listing(irs, DOMAIN irs, U, d),
           NEW enriched
    PROVE  LinkGraph(irs, enriched) = GraphOf(d, U, enriched)
<1> DEFINE all == DOMAIN irs
           texts == [f \in Owned(irs, all) |-> OwnerOf(irs, all, f).parts[f]]
<1>1. all \in SUBSET Nat
  OBVIOUS
<1>2. Owned(irs, all) = HeldIn(d, U)
  BY OwnedIs
<1>3. \A f \in HeldIn(d, U) : OwnerOf(irs, all, f).parts[f] = d[f]
  <2> SUFFICES ASSUME NEW f \in HeldIn(d, U) PROVE OwnerOf(irs, all, f).parts[f] = d[f]
    OBVIOUS
  <2>1. Listing(irs, all, U, d)
    OBVIOUS
  <2> HIDE DEF all
  <2> QED BY <1>1, <2>1, OwnerText
<1>4. texts = TextsOf(d, U)
  BY <1>2, <1>3 DEF TextsOf
<1>5. LinkGraph(irs, enriched) = [f \in Owned(irs, all) |-> Entry(irs, all, texts, f, enriched)]
  BY DEF LinkGraph, Texts
<1>6. \A f \in HeldIn(d, U) : Entry(irs, all, texts, f, enriched) = RowOf(d, U, texts, f, enriched)
  <2> SUFFICES ASSUME NEW f \in HeldIn(d, U)
               PROVE  Entry(irs, all, texts, f, enriched) = RowOf(d, U, texts, f, enriched)
    OBVIOUS
  <2> HIDE DEF texts
  <2>1. Listing(irs, all, U, d)
    OBVIOUS
  <2> HIDE DEF all
  <2> QED BY <1>1, <2>1, EntryIs
<1> HIDE DEF all, texts
<1> QED BY <1>2, <1>4, <1>5, <1>6 DEF GraphOf

\* The row of a unit that was compiled.
LEMMA UnitsOfIs ==
    ASSUME NEW r \in Runs, NEW d, Listing(r.irs, DOMAIN r.irs, r.units, d)
    PROVE  UnitsOf(r) = [u \in r.units |-> IR(d, u)]
<1>1. ASSUME NEW u \in r.units
      PROVE  r.irs[CHOOSE i \in DOMAIN r.irs : r.irs[i].unit = u] = IR(d, u)
  <2>1. \E i \in DOMAIN r.irs : r.irs[i].unit = u
    BY DEF Listing
  <2>2. PICK i \in DOMAIN r.irs : /\ r.irs[i].unit = u
                                  /\ i = CHOOSE k \in DOMAIN r.irs : r.irs[k].unit = u
    BY <2>1
  <2>3. r.irs[i] = IR(d, r.irs[i].unit)
    BY DEF Listing
  <2> QED BY <2>2, <2>3
<1> QED BY <1>1 DEF UnitsOf

(***************************************************************************)
(* What an update may reuse                                                *)
(***************************************************************************)
\* The database is what a full build of the texts d writes, if the units it
\* notes as failed fail.
Mirrors(base, d) ==
    /\ \A f \in Sources : base.hash[f] = d[f]
    /\ base.skipped = SkippedOf(d)
    /\ base.failed \subseteq Working(d)
    /\ DOMAIN base.unit = Working(d) \ base.failed
    /\ \A u \in DOMAIN base.unit : base.unit[u].parts = IR(d, u).parts
    /\ base.graph = GraphOf(d, DOMAIN base.unit, base.enrich)

\* The files a unit splices: the least set that holds it and what its members
\* include.
LEMMA SplicedLeast ==
    ASSUME NEW d, NEW f \in Sources, Lang[f] \in Preprocessed, d[f] # Absent
    PROVE  /\ Spliced(d, f) \subseteq Discovered(d) /\ f \in Spliced(d, f)
           /\ \A g \in Spliced(d, f) : d[g].inc \intersect Discovered(d) \subseteq Spliced(d, f)
           /\ \A S \in SUBSET Discovered(d) :
                 f \in S /\ (\A g \in S : d[g].inc \intersect Discovered(d) \subseteq S)
                    => Spliced(d, f) \subseteq S
<1> DEFINE present == Discovered(d) \union {f}
           closed(S) == f \in S /\ \A g \in S : d[g].inc \intersect present \subseteq S
<1>1. present = Discovered(d)
  BY DEF Discovered
<1>2. Spliced(d, f) = {g \in present : \A S \in SUBSET present : closed(S) => g \in S}
  BY DEF Spliced
<1>3. \A S \in SUBSET Discovered(d) : closed(S) => Spliced(d, f) \subseteq S
  BY <1>1, <1>2
<1>4. \A g \in Spliced(d, f) : d[g].inc \intersect Discovered(d) \subseteq Spliced(d, f)
  BY <1>1, <1>2
<1>5. Spliced(d, f) \subseteq Discovered(d) /\ f \in Spliced(d, f)
  BY <1>1, <1>2
<1> QED BY <1>1, <1>3, <1>4, <1>5

\* A file of the graph of a set of units.
LEMMA GraphIs ==
    ASSUME NEW d, NEW U \in SUBSET Sources, NEW enriched, NEW graph, graph = GraphOf(d, U, enriched)
    PROVE  /\ DOMAIN graph = HeldIn(d, U)
           /\ \A f \in HeldIn(d, U) : /\ graph[f] = RowOf(d, U, TextsOf(d, U), f, enriched)
                                      /\ graph[f].owner = FirstOf(d, U, f) /\ graph[f].text = d[f]
BY DEF GraphOf, RowOf

\* The files a unit spliced that are dirty, although the unit is not.
Missed(d, base, f) ==
    \E g \in DOMAIN base.unit[f].parts : base.unit[f].parts[g].inc \intersect Added(d, base) # {}

\* What splices a dirty file is dirty: the closure follows the stored includes.
LEMMA DirtyClosed ==
    ASSUME NEW d, NEW base, NEW f \in Files, f \notin Dirty(d, base)
    PROVE  \E S \in SUBSET Files :
              /\ f \notin S /\ Includers(base, S) \subseteq S
              /\ \A g \in Files : g \in Dirty(d, base) =>
                    g \in S \/ g \in Added(d, base) \/ g \in Includers(base, Added(d, base))
<1> DEFINE seeds == Changed(d, base) \union Removed(d, base)
           closed(S) == seeds \subseteq S /\ Includers(base, S) \subseteq S
<1>1. Dirty(d, base) = {g \in Files : \A S \in SUBSET Files : closed(S) => g \in S}
            \union Added(d, base) \union Includers(base, Added(d, base))
  BY DEF Dirty
<1>2. PICK S \in SUBSET Files : closed(S) /\ f \notin S
  BY <1>1
<1> HIDE DEF seeds
<1>3. ASSUME NEW g \in Files, g \in Dirty(d, base)
      PROVE  g \in S \/ g \in Added(d, base) \/ g \in Includers(base, Added(d, base))
  BY <1>1, <1>2, <1>3
<1> QED BY <1>2, <1>3

\* A clean unit whose headers include no added file is what parsing it again
\* would make of it, and nothing it splices is dirty.
LEMMA CleanIntact ==
    ASSUME NEW d \in Disks, NEW h \in Disks, NEW base, Mirrors(base, h),
           NEW f \in Clean(d, base), ~Missed(d, base, f)
    PROVE  /\ \A g \in Spliced(h, f) : g \notin Dirty(d, base) /\ d[g] = h[g] /\ d[g] # Absent
           /\ Spliced(d, f) = Spliced(h, f)
<1> DEFINE P == Spliced(h, f)
           U == DOMAIN base.unit
           added == Added(d, base)
<1>1. /\ f \in U /\ f \notin Dirty(d, base) /\ U = Working(h) \ base.failed
      /\ \A u \in U : base.unit[u].parts = IR(h, u).parts
      /\ base.graph = GraphOf(h, U, base.enrich)
      /\ \A g \in Sources : base.hash[g] = h[g]
  BY DEF Clean, Mirrors
<1>2. Working(h) \subseteq Discovered(h) /\ Discovered(h) \subseteq Sources /\ Sources \subseteq Files
  BY WorkingFacts, OrderFacts DEF Discovered
<1>3. f \in Sources /\ f \in Files /\ h[f] # Absent /\ d[f] = h[f] /\ U \subseteq Sources
  BY <1>1, <1>2, CleanSame DEF Discovered
<1>4. f \in P /\ P \subseteq Discovered(h)
  BY <1>2, <1>3, SplicedSources, SplicedLeast DEF Discovered
<1>5. /\ \A g \in P : g \in DOMAIN base.graph /\ base.graph[g].text = h[g]
      /\ \A g \in P : h[g].inc \intersect added = {}
  <2>1. P \subseteq HeldIn(h, U)
    BY <1>1 DEF HeldIn
  <2>2. \A g \in HeldIn(h, U) : g \in DOMAIN base.graph /\ base.graph[g].text = h[g]
    BY <1>1, <1>3, GraphIs
  <2>3. \A g \in P : g \in DOMAIN base.unit[f].parts /\ base.unit[f].parts[g] = h[g]
    BY <1>1, IRParts
  <2> QED BY <2>1, <2>2, <2>3 DEF Missed
<1>6. ASSUME NEW g \in P PROVE g \notin Dirty(d, base)
  <2>1. PICK S \in SUBSET Files :
              /\ f \notin S /\ Includers(base, S) \subseteq S
              /\ \A k \in Files : k \in Dirty(d, base) =>
                    k \in S \/ k \in added \/ k \in Includers(base, added)
    BY <1>1, <1>3, DirtyClosed
  <2>2. P \subseteq P \ S
    <3>1. CASE Lang[f] \in Preprocessed
      <4>1. \A k \in P : h[k].inc \intersect S # {} => k \in S
        BY <1>5, <2>1 DEF Includers
      <4>2. \A k \in P \ S : h[k].inc \intersect Discovered(h) \subseteq P \ S
        <5>1. \A k \in P : h[k].inc \intersect Discovered(h) \subseteq P
          BY <1>3, <3>1, SplicedLeast
        <5> QED BY <4>1, <5>1
      <4>3. P \ S \in SUBSET Discovered(h) /\ f \in P \ S
        BY <1>4, <2>1
      <4> QED BY <1>3, <3>1, <4>2, <4>3, SplicedLeast
    <3>2. CASE Lang[f] \notin Preprocessed
      BY <1>3, <2>1, <3>2, SplicedSources
    <3> QED BY <3>1, <3>2
  <2>3. g \notin added
    BY <1>1, <1>2, <1>4 DEF Added, Discovered
  <2>4. g \notin Includers(base, added)
    BY <1>5 DEF Includers
  <2>5. g \in Files
    BY <1>2, <1>4
  <2> QED BY <2>1, <2>2, <2>3, <2>4, <2>5
<1>7. \A g \in P : d[g] = h[g] /\ d[g] # Absent /\ g \in Discovered(d)
  <2> SUFFICES ASSUME NEW g \in P PROVE d[g] = h[g] /\ d[g] # Absent /\ g \in Discovered(d)
    OBVIOUS
  <2>1. g \in Sources /\ g \in Files /\ h[g] # Absent
    BY <1>2, <1>4 DEF Discovered
  <2> QED BY <1>1, <1>6, <2>1, CleanSame DEF Discovered
<1>8. Spliced(d, f) = P
  <2>1. CASE Lang[f] \notin Preprocessed
    BY <1>3, <2>1, SplicedSources
  <2>2. CASE Lang[f] \in Preprocessed
    <3> DEFINE Q == Spliced(d, f)
    <3>1. /\ f \in Q /\ Q \subseteq Discovered(d)
          /\ \A g \in Q : d[g].inc \intersect Discovered(d) \subseteq Q
          /\ \A S \in SUBSET Discovered(d) :
                f \in S /\ (\A g \in S : d[g].inc \intersect Discovered(d) \subseteq S) => Q \subseteq S
      BY <1>3, <2>2, SplicedLeast
    <3>2. /\ \A g \in P : h[g].inc \intersect Discovered(h) \subseteq P
          /\ \A S \in SUBSET Discovered(h) :
                f \in S /\ (\A g \in S : h[g].inc \intersect Discovered(h) \subseteq S) => P \subseteq S
      BY <1>3, <2>2, SplicedLeast
    <3> HIDE DEF P, Q
    <3>3. Q \subseteq P
      <4>1. ASSUME NEW g \in P, NEW k \in d[g].inc, k \in Discovered(d) PROVE k \in P
        <5>1. k \in h[g].inc /\ k \in Sources /\ k \in Files /\ d[k] # Absent /\ k \notin added
          BY <1>2, <1>5, <1>7, <4>1 DEF Discovered
        <5>2. h[k] # Absent
          BY <1>1, <5>1 DEF Added
        <5> QED BY <3>2, <5>1, <5>2 DEF Discovered
      <4>2. P \in SUBSET Discovered(d)
        BY <1>7
      <4> QED BY <1>4, <3>1, <4>1, <4>2
    <3>4. P \subseteq Q
      <4>1. ASSUME NEW g \in Q, NEW k \in h[g].inc, k \in Discovered(h) PROVE k \in Q
        <5>1. g \in P /\ k \in P
          BY <3>2, <3>3, <4>1
        <5>2. k \in d[g].inc /\ k \in Discovered(d)
          BY <1>7, <4>1, <5>1
        <5> QED BY <3>1, <4>1, <5>2
      <4>2. Q \in SUBSET Discovered(h)
        BY <1>4, <3>3
      <4> QED BY <3>1, <3>2, <4>1, <4>2
    <3> QED BY <3>3, <3>4 DEF Q
  <2> QED BY <2>1, <2>2
<1> QED BY <1>6, <1>7, <1>8

\* What an update that overlooks nothing may reuse is intact.
LEMMA ReuseIntact ==
    ASSUME NEW d \in Disks, NEW h \in Disks, NEW base, Stored(base), Mirrors(base, h),
           \A u \in Clean(d, base) : ~Missed(d, base, u)
    PROVE  Intact(Clean(d, base), d, base)
<1> SUFFICES ASSUME NEW u \in Clean(d, base)
             PROVE  /\ Made(base.unit[u], u, d[u])
                    /\ base.unit[u].parts = IR(d, u).parts
                    /\ Lang[u] \in Parsed
  BY DEF Intact
<1>1. /\ \A g \in Spliced(h, u) : g \notin Dirty(d, base) /\ d[g] = h[g]
      /\ Spliced(d, u) = Spliced(h, u)
  BY CleanIntact
<1>2. IR(d, u).parts = IR(h, u).parts
  BY <1>1 DEF IR
<1>3. u \in DOMAIN base.unit /\ u \in Working(h) /\ base.unit[u].parts = IR(h, u).parts
  BY DEF Clean, Mirrors
<1>4. Lang[u] \in Parsed /\ u \in Sources
  BY <1>3, WorkingFacts DEF Proper, Discovered
<1>5. base.hash[u] = d[u]
  BY <1>4, CleanSame, OrderFacts DEF Clean
<1> QED BY <1>2, <1>3, <1>4, <1>5 DEF Stored


(***************************************************************************)
(* The linker's input of a scoped link                                     *)
(***************************************************************************)
\* The elements of s at the places J, in that order.
Picks(p, s, J) ==
    /\ \A k \in DOMAIN p : \E i \in J : p[k] = s[i]
    /\ \A i \in J : \E k \in DOMAIN p : p[k] = s[i]
    /\ \A k, l \in DOMAIN p : k < l => \E i, j \in J : i < j /\ p[k] = s[i] /\ p[l] = s[j]

\* One more element, from a later place.
LEMMA PicksGrows ==
    ASSUME NEW S, NEW p \in Seq(S), NEW s, NEW J, Picks(p, s, J),
           NEW n \in Nat, \A i \in J : i \in Nat /\ i < n, s[n] \in S,
           NEW q, q = Append(p, s[n])
    PROVE  Picks(q, s, J \union {n})
<1> DEFINE L == Len(p)
           e == s[n]
<1>1. /\ L \in Nat /\ DOMAIN p = 1 .. L /\ DOMAIN q = 1 .. L + 1
      /\ \A k \in 1 .. L : q[k] = p[k]
      /\ q[L + 1] = e
  OBVIOUS
<1> HIDE DEF L
<1>2. /\ \A k \in DOMAIN p : \E i \in J : p[k] = s[i]
      /\ \A i \in J : \E k \in DOMAIN p : p[k] = s[i]
      /\ \A k, l \in DOMAIN p : k < l => \E i, j \in J : i < j /\ p[k] = s[i] /\ p[l] = s[j]
  BY DEF Picks
<1>3. \A k \in DOMAIN q : k \in DOMAIN p \/ k = L + 1
  BY <1>1
<1>4. DOMAIN p \subseteq DOMAIN q /\ L + 1 \in DOMAIN q
  BY <1>1
<1>5. \A k \in DOMAIN q : \E i \in J \union {n} : q[k] = s[i]
  BY <1>1, <1>2, <1>3
<1>6. \A i \in J \union {n} : \E k \in DOMAIN q : q[k] = s[i]
  BY <1>1, <1>2, <1>4
<1>7. ASSUME NEW k \in DOMAIN q, NEW l \in DOMAIN q, k < l
      PROVE  \E i, j \in J \union {n} : i < j /\ q[k] = s[i] /\ q[l] = s[j]
  <2>1. k \in DOMAIN p
    BY <1>1, <1>7
  <2>2. CASE l \in DOMAIN p
    <3>1. PICK i \in J, j \in J : i < j /\ p[k] = s[i] /\ p[l] = s[j]
      BY <1>2, <1>7, <2>1, <2>2
    <3> QED BY <1>1, <2>1, <2>2, <3>1
  <2>3. CASE l = L + 1
    <3>1. PICK i \in J : p[k] = s[i]
      BY <1>2, <2>1
    <3>2. i < n /\ q[k] = s[i] /\ q[l] = s[n]
      BY <1>1, <2>1, <2>3, <3>1
    <3> QED BY <3>2
  <2> QED BY <1>3, <2>2, <2>3
<1> QED BY <1>5, <1>6, <1>7 DEF Picks

\* Picking keeps the elements at the given places, and their order.
LEMMA PickedIs ==
    ASSUME NEW S, NEW s \in Seq(S), NEW I \in SUBSET (1 .. Len(s)), NEW p, p = Picked(s, I)
    PROVE  p \in Seq(S) /\ Picks(p, s, I)
<1> DEFINE N == Len(s)
           R == Seq(S)
           start == << >>
           To(r, n) == IF n \in I THEN Append(r, s[n]) ELSE r
           step == [q \in (1 .. N) \X R |-> To(q[2], q[1])]
           All(g) == [n \in 0 .. N |-> IF n = 0 THEN start ELSE To(g[n - 1], n)]
           after == CHOOSE h : h = All(h)
<1>1. N \in Nat /\ \A n \in 1 .. N : s[n] \in S
  OBVIOUS
<1>2. start \in R
  OBVIOUS
<1>3. \A n \in 1 .. N, r \in R : To(r, n) \in R
  BY <1>1
<1>4. p = after[N]
  BY DEF Picked
<1> HIDE DEF R, To, start, N
<1>5. \A n \in 1 .. N, r \in R : step[<<n, r>>] = To(r, n)
  OBVIOUS
<1>6. PICK g : g \in Recursive(N, R, start, step)
  <2>1. step \in [(1 .. N) \X R -> R]
    BY <1>3
  <2> HIDE DEF step
  <2> QED BY <1>1, <1>2, <2>1, Recursion
<1> HIDE DEF step
<1>7. /\ g \in [0 .. N -> R] /\ g[0] = start
      /\ \A k \in 1 .. N : g[k] = step[<<k, g[k - 1]>>]
  BY <1>6 DEF Recursive
<1>8. \A k \in 1 .. N : g[k] = To(g[k - 1], k)
  <2> SUFFICES ASSUME NEW k \in 1 .. N PROVE g[k] = To(g[k - 1], k)
    OBVIOUS
  <2>1. g[k - 1] \in R
    BY <1>1, <1>7
  <2> QED BY <1>5, <1>7, <2>1
<1>9. g = All(g)
  BY <1>1, <1>7, <1>8
<1>10. after = All(after)
  <2> HIDE DEF All
  <2> QED BY <1>9
<1>11. after[0] = start /\ \A n \in 1 .. N : after[n] = To(after[n - 1], n)
  <2> HIDE DEF after
  <2>1. DOMAIN after = 0 .. N /\ \A n \in 0 .. N : after[n] = IF n = 0 THEN start ELSE To(after[n - 1], n)
    BY <1>10
  <2> QED BY <1>1, <2>1
<1> HIDE DEF All, after
<1>11a. \A i \in I : i \in Nat /\ 0 < i /\ i <= N
  BY DEF N
<1> DEFINE K(n) == {i \in I : i <= n}
<1>11b. K(0) = {} /\ K(N) = I
  <2>1. \A i \in I : ~(i <= 0)
    BY <1>11a
  <2>2. K(0) = {}
    BY <2>1
  <2>3. K(N) = I
    BY <1>11a
  <2> QED BY <2>2, <2>3
<1>11c. ASSUME NEW n \in Nat
        PROVE  /\ n + 1 \in I => K(n + 1) = K(n) \union {n + 1}
               /\ n + 1 \notin I => K(n + 1) = K(n)
               /\ \A i \in K(n) : i \in Nat /\ i < n + 1
  <2>1. \A i \in I : i <= n + 1 <=> i <= n \/ i = n + 1
    BY <1>11a
  <2>2. \A i \in I : i <= n => i < n + 1
    BY <1>11a
  <2> QED BY <1>11a, <2>1, <2>2
<1> HIDE DEF K
<1> DEFINE T == {n \in Nat : n <= N => after[n] \in R /\ Picks(after[n], s, K(n))}
<1>12. 0 \in T
  <2>1. DOMAIN << >> = {}
    BY EmptyQueue
  <2> QED BY <1>2, <1>11, <1>11b, <2>1 DEF Picks, start
<1>13. \A n \in T : n + 1 \in T
  <2> SUFFICES ASSUME NEW n \in Nat, n + 1 <= N, after[n] \in R, Picks(after[n], s, K(n))
               PROVE  after[n + 1] \in R /\ Picks(after[n + 1], s, K(n + 1))
    BY <1>1
  <2>1. n + 1 \in 1 .. N /\ (n + 1) - 1 = n
    BY <1>1
  <2>2. after[n + 1] = To(after[n], n + 1) /\ after[n + 1] \in R
    BY <1>3, <1>11, <2>1
  <2>4. CASE n + 1 \in I
    <3>1. K(n + 1) = K(n) \union {n + 1}
      BY <1>11c, <2>4
    <3>2. after[n + 1] = Append(after[n], s[n + 1]) /\ s[n + 1] \in S
      BY <1>1, <2>1, <2>2, <2>4 DEF To
    <3>3. \A i \in K(n) : i \in Nat /\ i < n + 1
      BY <1>11c
    <3>4. after[n] \in Seq(S) /\ n + 1 \in Nat
      BY DEF R
    <3>5. Picks(after[n + 1], s, K(n) \union {n + 1})
      BY <3>2, <3>3, <3>4, PicksGrows
    <3> QED BY <2>2, <3>1, <3>5
  <2>5. CASE n + 1 \notin I
    <3>1. K(n + 1) = K(n)
      BY <1>11c, <2>5
    <3> QED BY <2>2, <2>5, <3>1 DEF To
  <2> QED BY <2>4, <2>5
<1>14. T \in SUBSET Nat
  OBVIOUS
<1> HIDE DEF T
<1>16. N \in T
  BY <1>1, <1>12, <1>13, <1>14, SetInduction
<1> QED BY <1>1, <1>4, <1>11b, <1>16 DEF T, R

\* The places of the IRs of the units in T.
PlacesOf(irs, T) == {i \in DOMAIN irs : irs[i].unit \in T}

\* Those of a listing list the units in T.
LEMMA ScopedListing ==
    ASSUME NEW irs, NEW U, NEW T, NEW d, Listing(irs, DOMAIN irs, U, d)
    PROVE  Listing(irs, PlacesOf(irs, T), U \intersect T, d)
<1>1. /\ \A i \in DOMAIN irs : irs[i].unit \in U /\ irs[i] = IR(d, irs[i].unit)
      /\ \A u \in U : \E i \in DOMAIN irs : irs[i].unit = u
      /\ \A i, j \in DOMAIN irs : i < j => Position(irs[i].unit) < Position(irs[j].unit)
  BY DEF Listing
<1>2. \A u \in U \intersect T : \E i \in PlacesOf(irs, T) : irs[i].unit = u
  BY <1>1 DEF PlacesOf
<1>3. \A i \in PlacesOf(irs, T) : i \in DOMAIN irs /\ irs[i].unit \in T
  BY DEF PlacesOf
<1> QED BY <1>1, <1>2, <1>3 DEF Listing

\* Two sequences joined.
Joins(c, a, b) ==
    /\ \A i \in DOMAIN a : i \in DOMAIN c /\ c[i] = a[i]
    /\ \A i \in DOMAIN c : i \notin DOMAIN a => \E j \in DOMAIN b : c[i] = b[j]

\* A concatenation has the elements of both sequences and no others.
LEMMA Joined ==
    ASSUME NEW S, NEW a \in Seq(S), NEW b \in Seq(S), NEW c, c = a \o b
    PROVE  c \in Seq(S) /\ Joins(c, a, b)
<1>1. /\ c \in Seq(S) /\ DOMAIN a = 1 .. Len(a) /\ Len(a) \in Nat /\ Len(b) \in Nat
      /\ DOMAIN c = 1 .. Len(a) + Len(b) /\ DOMAIN b = 1 .. Len(b)
      /\ \A i \in 1 .. Len(a) + Len(b) : c[i] = IF i <= Len(a) THEN a[i] ELSE b[i - Len(a)]
  OBVIOUS
<1> DEFINE m == Len(a)
           n == Len(b)
<1> HIDE DEF m, n
<1>2. /\ c \in Seq(S) /\ DOMAIN a = 1 .. m /\ m \in Nat /\ n \in Nat
      /\ DOMAIN c = 1 .. m + n /\ DOMAIN b = 1 .. n
      /\ \A i \in 1 .. m + n : c[i] = IF i <= m THEN a[i] ELSE b[i - m]
  BY <1>1 DEF m, n
<1>3. \A i \in DOMAIN a : i \in DOMAIN c /\ c[i] = a[i]
  BY <1>2
<1>4. ASSUME NEW i \in DOMAIN c, i \notin DOMAIN a PROVE \E j \in DOMAIN b : c[i] = b[j]
  <2>1. i - m \in DOMAIN b /\ ~(i <= m)
    BY <1>2, <1>4
  <2> QED BY <1>2, <2>1
<1> QED BY <1>2, <1>3, <1>4 DEF Joins

\* The selective link gets the IRs of the touched units among others, which
\* are those of no touched file.
LEMMA SelectiveIs ==
    ASSUME NEW r \in Runs, NEW d \in Disks, NEW base, Stored(base),
           Listing(r.irs, DOMAIN r.irs, r.units, d),
           NEW T, T = Touched(d, base), r.clean \intersect T = {}, r.clean \subseteq DOMAIN base.unit,
           \A u \in r.units : d[u] # Absent,
           NEW irs, irs = SelectiveIRs(r, d, base)
    PROVE  irs \in Seq(IRs) /\ Listing(irs, PlacesOf(irs, T), r.units \intersect T, d)
<1> DEFINE decoded == ToDecode(r, d, base)
           dirty == r.units \intersect T
           I == {i \in DOMAIN Order : Order[i] \in decoded \union dirty}
           inOrder == Picked(Order, I)
           J == {i \in DOMAIN r.irs : r.irs[i].unit \notin dirty}
           rest == Picked(r.irs, J)
           head == [i \in DOMAIN inOrder |-> IF inOrder[i] \in decoded THEN base.unit[inOrder[i]]
                                             ELSE UnitsOf(r)[inOrder[i]]]
<1>1. irs = IF decoded = {} THEN r.irs ELSE head \o rest
  BY DEF SelectiveIRs
<1>2. /\ decoded \subseteq r.clean /\ r.irs \in Seq(IRs) /\ r.units \subseteq Sources
      /\ decoded \intersect T = {}
  BY DEF ToDecode, Runs
<1>3. \A u \in decoded : base.unit[u] \in IRs /\ base.unit[u].unit = u
  BY <1>2 DEF Stored, Made
<1>4. \A u \in r.units : UnitsOf(r)[u] = IR(d, u) /\ IR(d, u) \in IRs /\ IR(d, u).unit = u
  <2>1. \A u \in r.units : UnitsOf(r)[u] = IR(d, u)
    BY UnitsOfIs
  <2>2. ASSUME NEW u \in r.units PROVE IR(d, u) \in IRs /\ IR(d, u).unit = u
    BY <1>2, IRType DEF Made
  <2> QED BY <2>1, <2>2
<1>5. CASE decoded = {}
  BY <1>1, <1>2, <1>5, ScopedListing
<1>6. CASE decoded # {}
  <2> HIDE DEF decoded
  <2>1. inOrder \in Seq(Sources) /\ Picks(inOrder, Order, I)
    <3>1. Order \in Seq(Sources) /\ I \in SUBSET (1 .. Len(Order))
      BY OrderFacts, OrderAssumption
    <3> HIDE DEF I
    <3> QED BY <3>1, PickedIs
  <2>2. rest \in Seq(IRs) /\ Picks(rest, r.irs, J)
    <3>1. J \in SUBSET (1 .. Len(r.irs))
      BY <1>2
    <3> HIDE DEF J
    <3> QED BY <1>2, <3>1, PickedIs
  <2> HIDE DEF inOrder, rest
  <2>3. \A k \in DOMAIN inOrder : inOrder[k] \in decoded \/ inOrder[k] \in dirty
    BY <2>1 DEF Picks
  <2>4. \A k \in DOMAIN inOrder :
            /\ head[k] \in IRs /\ head[k].unit = inOrder[k]
            /\ inOrder[k] \in dirty => head[k] = IR(d, inOrder[k])
    <3> SUFFICES ASSUME NEW k \in DOMAIN inOrder
                 PROVE  /\ head[k] \in IRs /\ head[k].unit = inOrder[k]
                        /\ inOrder[k] \in dirty => head[k] = IR(d, inOrder[k])
      OBVIOUS
    <3>1. CASE inOrder[k] \in decoded
      BY <1>2, <1>3, <3>1
    <3>2. CASE inOrder[k] \notin decoded
      BY <1>4, <2>3, <3>2
    <3> QED BY <3>1, <3>2
  <2>5. head \in Seq(IRs) /\ DOMAIN head = DOMAIN inOrder
    <3>1. DOMAIN inOrder = 1 .. Len(inOrder) /\ Len(inOrder) \in Nat
      BY <2>1
    <3>2. head \in [1 .. Len(inOrder) -> IRs]
      BY <2>4, <3>1
    <3> HIDE DEF head
    <3>3. head \in Seq(IRs)
      BY <3>1, <3>2
    <3> QED BY <3>1, <3>2, <3>3
  <2> HIDE DEF head
  <2>6. irs = head \o rest
    BY <1>1, <1>6
  <2>7. /\ irs \in Seq(IRs)
        /\ \A i \in DOMAIN head : i \in DOMAIN irs /\ irs[i] = head[i]
        /\ \A i \in DOMAIN irs : i \notin DOMAIN head => \E j \in DOMAIN rest : irs[i] = rest[j]
    <3>1. head \in Seq(IRs) /\ rest \in Seq(IRs)
      BY <2>2, <2>5
    <3>2. irs \in Seq(IRs) /\ Joins(irs, head, rest)
      BY <2>6, <3>1, Joined
    <3> QED BY <3>2 DEF Joins
  <2>8. \A j \in DOMAIN rest : rest[j].unit \notin T
    <3> SUFFICES ASSUME NEW j \in DOMAIN rest PROVE rest[j].unit \notin T
      OBVIOUS
    <3>1. PICK i \in J : rest[j] = r.irs[i]
      BY <2>2 DEF Picks
    <3>2. r.irs[i].unit \in r.units /\ r.irs[i].unit \notin dirty
      BY <3>1 DEF Listing
    <3> QED BY <3>1, <3>2
  <2>9. \A i \in PlacesOf(irs, T) :
           /\ i \in DOMAIN inOrder /\ irs[i] = head[i] /\ inOrder[i] \in dirty
           /\ irs[i].unit = inOrder[i] /\ irs[i] = IR(d, inOrder[i])
    <3> SUFFICES ASSUME NEW i \in DOMAIN irs, irs[i].unit \in T
                 PROVE  /\ i \in DOMAIN inOrder /\ irs[i] = head[i] /\ inOrder[i] \in dirty
                        /\ irs[i].unit = inOrder[i] /\ irs[i] = IR(d, inOrder[i])
      BY DEF PlacesOf
    <3>1. i \in DOMAIN head
      BY <2>7, <2>8
    <3>2. irs[i] = head[i] /\ head[i].unit = inOrder[i] /\ i \in DOMAIN inOrder
      BY <2>4, <2>5, <2>7, <3>1
    <3>3. inOrder[i] \in dirty
      BY <1>2, <2>3, <3>2
    <3> QED BY <2>4, <3>2, <3>3
  <2>10. ASSUME NEW u \in dirty PROVE \E i \in PlacesOf(irs, T) : irs[i].unit = u
    <3>1. u \in Sources /\ Position(u) \in DOMAIN Order /\ Order[Position(u)] = u
      BY <1>2, OrderFacts
    <3>2. Position(u) \in I
      BY <3>1
    <3>3. PICK k \in DOMAIN inOrder : inOrder[k] = u
      BY <2>1, <3>1, <3>2 DEF Picks
    <3>4. k \in DOMAIN irs /\ irs[k].unit = u
      BY <2>4, <2>5, <2>7, <3>3
    <3>5. k \in PlacesOf(irs, T)
      BY <3>4 DEF PlacesOf
    <3> QED BY <3>4, <3>5
  <2>11. ASSUME NEW i \in PlacesOf(irs, T), NEW j \in PlacesOf(irs, T), i < j
         PROVE  Position(irs[i].unit) < Position(irs[j].unit)
    <3>1. PICK k \in I, l \in I : k < l /\ inOrder[i] = Order[k] /\ inOrder[j] = Order[l]
      BY <2>1, <2>9, <2>11 DEF Picks
    <3> QED BY <2>9, <3>1, OrderFacts
  <2> HIDE DEF dirty
  <2>12. Listing(irs, PlacesOf(irs, T), dirty, d)
    BY <2>9, <2>10, <2>11 DEF Listing
  <2> QED BY <2>7, <2>12 DEF dirty
<1> QED BY <1>5, <1>6

(***************************************************************************)
(* A scoped link                                                           *)
(***************************************************************************)
\* What a scoped link relies on: what the stored units of the texts h hold of
\* a file that is not among the touched ones T is as in the units C and N now,
Unmoved(base, h, d, T, C, N) ==
    LET U == DOMAIN base.unit
    IN  /\ U \subseteq Sources /\ C \subseteq Sources /\ N \subseteq Sources
        /\ \A u \in U : base.unit[u].parts = IR(h, u).parts
        /\ \A f \in Sources \ T : h[f] = d[f]
        /\ \A u \in C : Spliced(d, u) \intersect T = {}
        /\ \A f \in HeldIn(h, U) : h[f].uses \subseteq Sources
        /\ \A f \in Sources \ T :
              /\ f \in HeldIn(h, U) <=> f \in HeldIn(d, C \union N)
              /\ f \in HeldIn(h, U) => FirstOf(d, C \union N, f) = FirstOf(h, U, f)

\* and the stored graph is that of its units, none of them design-wide.
Relinkable(base, h, d, T, C, N, e) ==
    /\ Unmoved(base, h, d, T, C, N)
    /\ base.graph = GraphOf(h, DOMAIN base.unit, e)
    /\ \A u \in DOMAIN base.unit \union C \union N : Lang[u] \notin Wide

\* The files of the new graph.
Regrouped(base, h, d, T, C, N, stays, comes) ==
    /\ stays \union comes = HeldIn(d, C \union N)
    /\ \A f \in stays : f \in HeldIn(h, DOMAIN base.unit) /\ h[f] = d[f] /\ f \in Sources
    /\ \A f \in comes : f \in HeldIn(d, N) /\ FirstOf(d, C \union N, f) = FirstOf(d, N, f)

\* Units splice source files.
LEMMA HeldSources ==
    ASSUME NEW d, NEW U \in SUBSET Sources
    PROVE  HeldIn(d, U) \subseteq Sources
BY SplicedSources DEF HeldIn

\* The files of the linked graph: those that stay and those that come.
LEMMA RelinkFiles ==
    ASSUME NEW base, NEW h, NEW d, NEW T, NEW C, NEW N, Unmoved(base, h, d, T, C, N),
           DOMAIN base.graph = HeldIn(h, DOMAIN base.unit),
           NEW irs \in Seq(IRs), Listing(irs, PlacesOf(irs, T), N, d),
           NEW stays, stays = DOMAIN base.graph \ T,
           NEW comes, comes = T \intersect Owned(irs, PlacesOf(irs, T))
    PROVE  Regrouped(base, h, d, T, C, N, stays, comes)
<1> DEFINE U == DOMAIN base.unit
<1>1. /\ U \subseteq Sources /\ C \subseteq Sources /\ N \subseteq Sources
      /\ \A f \in Sources \ T : h[f] = d[f]
      /\ \A u \in C : Spliced(d, u) \intersect T = {}
      /\ \A f \in Sources \ T : f \in HeldIn(h, U) <=> f \in HeldIn(d, C \union N)
  BY DEF Unmoved
<1>2. DOMAIN base.graph = HeldIn(h, U)
  OBVIOUS
<1> HIDE DEF U
<1>3. Owned(irs, PlacesOf(irs, T)) = HeldIn(d, N)
  BY OwnedIs
<1>4. /\ HeldIn(h, U) \subseteq Sources /\ HeldIn(d, N) \subseteq Sources
      /\ HeldIn(d, C \union N) \subseteq Sources
  BY <1>1, HeldSources
<1>5. \A f \in T : HeldBy(d, C \union N, f) = HeldBy(d, N, f)
  BY <1>1 DEF HeldBy
<1>6. \A f \in T : f \in HeldIn(d, C \union N) <=> f \in HeldIn(d, N)
  BY <1>1 DEF HeldIn
<1>7. \A f \in T : FirstOf(d, C \union N, f) = FirstOf(d, N, f)
  BY <1>5 DEF FirstOf, Leads
<1>8. stays \union comes = HeldIn(d, C \union N)
  BY <1>1, <1>2, <1>3, <1>4, <1>6
<1>9. \A f \in stays : f \in HeldIn(h, U) /\ h[f] = d[f] /\ f \in Sources
  BY <1>1, <1>2, <1>4
<1> QED BY <1>3, <1>7, <1>8, <1>9 DEF U, Regrouped

\* A row that stays and refers to no touched file resolves as before.
LEMMA ResolvedStays ==
    ASSUME NEW base, NEW h, NEW d, NEW T, NEW C, NEW N, Unmoved(base, h, d, T, C, N),
           NEW f \in HeldIn(h, DOMAIN base.unit), f \notin {r[2] : r \in AffectedRefs(base, T)}
    PROVE  Resolved(TextsOf(h, DOMAIN base.unit), h[f]) = Resolved(TextsOf(d, C \union N), h[f])
<1> DEFINE U == DOMAIN base.unit
<1>1. /\ \A u \in U : base.unit[u].parts = IR(h, u).parts
      /\ \A g \in Sources \ T : h[g] = d[g]
      /\ h[f].uses \subseteq Sources
      /\ \A g \in Sources \ T : g \in HeldIn(h, U) <=> g \in HeldIn(d, C \union N)
  BY DEF Unmoved
<1>2. PICK u \in U : f \in Spliced(h, u)
  BY DEF HeldIn
<1>3. f \in DOMAIN base.unit[u].parts /\ base.unit[u].parts[f] = h[f]
  BY <1>1, <1>2, IRParts
<1>4. \A g \in h[f].uses : g \notin T
  <2> SUFFICES ASSUME NEW g \in h[f].uses, g \in T PROVE FALSE
    OBVIOUS
  <2>1. <<u, f, g>> \in RefIndex(base.unit)
    BY <1>2, <1>3 DEF RefIndex
  <2>2. <<u, f, g>> \in AffectedRefs(base, T)
    BY <2>1 DEF AffectedRefs
  <2> QED BY <2>2
<1> DEFINE before == TextsOf(h, U)
           now    == TextsOf(d, C \union N)
<1>5. \A g \in h[f].uses : /\ g \in DOMAIN before <=> g \in DOMAIN now
                           /\ g \in DOMAIN before => before[g] = now[g]
  BY <1>1, <1>4 DEF TextsOf
<1> HIDE DEF before, now
<1>6. Resolved(before, h[f]) = Resolved(now, h[f])
  BY <1>5 DEF Resolved
<1> QED BY <1>6 DEF before, now, U

\* A scoped link makes the graph of the units there are now.
Off(e) == e = FALSE
Relinked(irs, base, d, T, C, N, e) == LinkIncremental(irs, base, T) = GraphOf(d, C \union N, e)

\* A scoped link over a base that mirrors an older tree gives the graph of the
\* new one.
LEMMA RelinkIs ==
    ASSUME NEW base, NEW h, NEW d, NEW T, NEW C, NEW N, NEW e, Relinkable(base, h, d, T, C, N, e),
           Off(e), NEW irs \in Seq(IRs), Listing(irs, PlacesOf(irs, T), N, d)
    PROVE  Relinked(irs, base, d, T, C, N, e)
<1> DEFINE U == DOMAIN base.unit
           V == C \union N
           graph == base.graph
           stays == DOMAIN graph \ T
           fresh == {i \in DOMAIN irs : irs[i].unit \in T}
           comes == T \intersect Owned(irs, fresh)
           again == stays \intersect {r[2] : r \in AffectedRefs(base, T)}
           texts == [f \in stays \union comes |->
                       IF f \in stays THEN graph[f].text ELSE OwnerOf(irs, fresh, f).parts[f]]
           row(f) == IF f \in comes THEN Entry(irs, fresh, texts, f, e)
                     ELSE IF f \in again
                     THEN [graph[f] EXCEPT !.res = Resolved(texts, graph[f].text)]
                     ELSE graph[f]
<1>1. LinkIncremental(irs, base, T) = [f \in stays \union comes |-> row(f)]
  BY DEF LinkIncremental, Off
<1>2. fresh = PlacesOf(irs, T) /\ fresh \in SUBSET Nat
  <2>1. DOMAIN irs \subseteq Nat
    OBVIOUS
  <2> QED BY <2>1 DEF PlacesOf
<1>3. /\ U \subseteq Sources /\ C \subseteq Sources /\ N \subseteq Sources
      /\ graph = GraphOf(h, U, e)
      /\ \A u \in U \union C \union N : Lang[u] \notin Wide
      /\ \A f \in Sources \ T : f \in HeldIn(h, U) => FirstOf(d, V, f) = FirstOf(h, U, f)
      /\ Unmoved(base, h, d, T, C, N)
  BY DEF Relinkable, Unmoved
<1>4. /\ stays \union comes = HeldIn(d, V)
      /\ \A f \in stays : f \in HeldIn(h, U) /\ h[f] = d[f] /\ f \in Sources
      /\ \A f \in comes : f \in HeldIn(d, N) /\ FirstOf(d, V, f) = FirstOf(d, N, f)
  <2>1. comes = T \intersect Owned(irs, PlacesOf(irs, T)) /\ stays = DOMAIN base.graph \ T
    BY <1>2
  <2>2. DOMAIN base.graph = HeldIn(h, DOMAIN base.unit)
    BY <1>3, GraphIs
  <2> HIDE DEF comes, stays
  <2>3. Regrouped(base, h, d, T, C, N, stays, comes)
    BY <1>3, <2>1, <2>2, RelinkFiles
  <2> QED BY <2>3 DEF Regrouped
<1> HIDE DEF fresh
<1>5. Listing(irs, fresh, N, d)
  BY <1>2
<1>6. \A f \in stays : graph[f] = RowOf(h, U, TextsOf(h, U), f, e) /\ graph[f].text = d[f]
  <2>1. \A f \in HeldIn(h, U) : /\ graph[f] = RowOf(h, U, TextsOf(h, U), f, e)
                                /\ graph[f].text = h[f]
    <3> HIDE DEF U, graph
    <3> QED BY <1>3, GraphIs
  <2> QED BY <1>4, <2>1
<1>7. \A f \in comes : OwnerOf(irs, fresh, f).parts[f] = d[f]
  BY <1>2, <1>3, <1>4, <1>5, OwnerText
<1> HIDE DEF comes, stays, U, V, graph
<1>8. texts = TextsOf(d, V)
  BY <1>4, <1>6, <1>7 DEF TextsOf
<1>9. ASSUME NEW f \in comes PROVE row(f) = RowOf(d, V, TextsOf(d, V), f, e)
  <2>1. f \in HeldIn(d, N) /\ FirstOf(d, V, f) = FirstOf(d, N, f)
    BY <1>4
  <2> HIDE DEF texts
  <2>2. Entry(irs, fresh, texts, f, e) = RowOf(d, N, texts, f, e)
    BY <1>2, <1>3, <1>5, <2>1, EntryIs
  <2>3. {u \in N : Lang[u] \in Wide /\ f \in d[u].uses} = {u \in V : Lang[u] \in Wide /\ f \in d[u].uses}
    BY <1>3 DEF V
  <2>4. RowOf(d, N, texts, f, e) = RowOf(d, V, texts, f, e)
    BY <2>1, <2>3 DEF RowOf
  <2> QED BY <1>8, <1>9, <2>2, <2>4
<1>10. ASSUME NEW f \in stays, f \notin comes PROVE row(f) = RowOf(d, V, TextsOf(d, V), f, e)
  <2>1. /\ f \in HeldIn(h, U) /\ h[f] = d[f] /\ f \in Sources /\ f \notin T
        /\ FirstOf(d, V, f) = FirstOf(h, U, f)
    BY <1>3, <1>4 DEF stays
  <2>2. /\ {u \in U : Lang[u] \in Wide /\ f \in h[u].uses} = {}
        /\ {u \in V : Lang[u] \in Wide /\ f \in d[u].uses} = {}
    BY <1>3 DEF V
  <2>3. graph[f] = [owner |-> FirstOf(h, U, f), text |-> h[f],
                    res   |-> Resolved(TextsOf(h, U), h[f]),
                    wide  |-> {}, enriched |-> e]
    BY <1>6, <2>2 DEF RowOf
  <2>4. RowOf(d, V, TextsOf(d, V), f, e)
          = [owner |-> FirstOf(d, V, f), text |-> d[f],
             res   |-> Resolved(TextsOf(d, V), d[f]),
             wide  |-> {}, enriched |-> e]
    BY <2>2 DEF RowOf
  <2> HIDE DEF texts
  <2>5. CASE f \in again
    <3>1. row(f) = [graph[f] EXCEPT !.res = Resolved(texts, graph[f].text)]
      BY <1>10, <2>5
    <3>2. graph[f].text = d[f]
      BY <1>6
    <3>3. row(f) = [owner |-> FirstOf(h, U, f), text |-> h[f], res |-> Resolved(texts, d[f]),
                    wide  |-> {}, enriched |-> e]
      <4> DEFINE old == [owner |-> FirstOf(h, U, f), text |-> h[f],
                         res   |-> Resolved(TextsOf(h, U), h[f]),
                         wide  |-> {}, enriched |-> e]
      <4>1. row(f) = [old EXCEPT !.res = Resolved(texts, d[f])]
        <5> HIDE DEF row
        <5> QED BY <2>3, <3>1, <3>2
      <4> HIDE DEF row
      <4> QED BY <4>1
    <3> HIDE DEF row
    <3> QED BY <1>8, <2>1, <2>4, <3>3
  <2>6. CASE f \notin again
    <3>1. f \notin {r[2] : r \in AffectedRefs(base, T)}
      BY <2>6
    <3>2. Resolved(TextsOf(h, U), h[f]) = Resolved(TextsOf(d, V), h[f])
      BY <1>3, <2>1, <3>1, ResolvedStays DEF U, V
    <3>3. row(f) = graph[f]
      BY <1>10, <2>6
    <3> QED BY <2>1, <2>3, <2>4, <3>2, <3>3
  <2> QED BY <2>5, <2>6
<1> HIDE DEF row
<1>11. \A f \in HeldIn(d, V) : row(f) = RowOf(d, V, TextsOf(d, V), f, e)
  BY <1>4, <1>9, <1>10
<1>12. GraphOf(d, V, e) = [f \in HeldIn(d, V) |-> RowOf(d, V, TextsOf(d, V), f, e)]
  BY DEF GraphOf
<1> QED BY <1>1, <1>4, <1>11, <1>12 DEF V, Relinked

(***************************************************************************)
(* A write that keeps to its scope                                         *)
(***************************************************************************)
\* What is not touched is as it was hashed.
LEMMA UntouchedSame ==
    ASSUME NEW d, NEW base, NEW f \in Sources, f \notin Touched(d, base)
    PROVE  base.hash[f] = d[f]
<1>1. f \in Files
  BY OrderFacts
<1>2. CASE d[f] = Absent
  BY <1>1, <1>2 DEF Touched, Removed
<1>3. CASE d[f] # Absent
  BY <1>1, <1>3, TouchedDirty, CleanSame
<1> QED BY <1>2, <1>3

\* A run that is about to write within its scope, over a database that mirrors
\* the texts h.
Covered(h) ==
    /\ h \in Disks /\ disk \in Disks /\ Stored(db) /\ Mirrors(db, h)
    /\ run \in Runs /\ run.clean = Clean(disk, db) /\ Intact(run.clean, disk, db)
    /\ \A u \in run.clean : ~Missed(disk, db, u)
    /\ Booked(run, run.mode, run.clean, disk, run.failed)
    /\ ~Beyond

\* What it accounts for.
Scope == Touched(disk, db)
Accounted(h) ==
    /\ DOMAIN db.unit \ Scope = run.clean /\ run.clean \intersect Scope = {}
    /\ run.clean \subseteq Working(disk) /\ db.failed \subseteq Scope
    /\ \A f \in Sources \ Scope : h[f] = disk[f] /\ db.hash[f] = disk[f]
    /\ run.failed \subseteq Working(disk) /\ run.skipped = SkippedOf(disk)
    /\ run.units \subseteq Working(disk) /\ run.units \subseteq Scope \union run.clean
    /\ run.clean \union (run.units \intersect Scope) = Working(disk) \ (run.failed \intersect Scope)
    /\ Listing(run.irs, DOMAIN run.irs, run.units, disk)

\* A stored unit of its own is the first that splices its file.
LEMMA UnitLeads ==
    ASSUME NEW d, NEW U \in SUBSET Sources, Proper(U, d), NEW f \in U
    PROVE  FirstOf(d, U, f) = f /\ f \in HeldIn(d, U)
<1>1. f \in Spliced(d, f)
  BY SplicedSources
<1>2. ASSUME NEW v \in U, f \in Spliced(d, v) PROVE Position(f) <= Position(v)
  <2>1. v \in Sources /\ Position(v) \in Nat /\ Position(f) \in Nat
    BY OrderFacts
  <2>2. CASE Lang[v] \in Preprocessed
    <3>1. ~(Position(v) < Position(f))
      BY <1>2, <2>2 DEF Proper
    <3> QED BY <2>1, <3>1
  <2>3. CASE Lang[v] \notin Preprocessed
    <3>1. f = v
      BY <1>2, <2>1, <2>3, SplicedSources
    <3> QED BY <2>1, <3>1
  <2> QED BY <2>2, <2>3
<1>3. Leads(d, U, f, f)
  BY <1>1, <1>2 DEF Leads, HeldBy
<1> QED BY <1>3, FirstIs

\* Every unit is accounted for, none of the clean ones is a header now.
LEMMA CoveredUnits ==
    ASSUME NEW h, Covered(h) PROVE Accounted(h)
<1> DEFINE T == Scope
           C == run.clean
           U == DOMAIN db.unit
           R == Replayed(run.mode, run.clean)
<1>1. /\ h \in Disks /\ disk \in Disks /\ Stored(db)
      /\ U = Working(h) \ db.failed /\ db.failed \subseteq Working(h)
      /\ db.graph = GraphOf(h, U, db.enrich)
      /\ \A f \in Sources : db.hash[f] = h[f]
      /\ C = U \ Dirty(disk, db)
  BY DEF Covered, Mirrors, Clean
<1>2. /\ run.skipped = SkippedOf(disk) /\ Live(run, disk, Len(Order)) = Working(disk)
      /\ Tallied(run, disk, run.failed, Len(Order))
  BY DEF Covered, Booked
<1>3. /\ run.units = Working(disk) \ (R \union run.failed)
      /\ run.failed = (Working(disk) \intersect run.failed) \ R
      /\ Listing(run.irs, DOMAIN run.irs, run.units, disk)
  BY <1>2 DEF Tallied
<1>4. R \subseteq C
  BY DEF Replayed
<1>5. /\ (run.units \union run.failed) \subseteq T \union C /\ db.failed \subseteq T
      /\ \A f \in Sources \ T : OwnersNow(f) = OwnersThen(f)
  BY DEF Covered, Beyond, Scope
<1>6. T \subseteq Dirty(disk, db) /\ \A f \in Sources : disk[f] # Absent /\ f \notin T => f \notin Dirty(disk, db)
  BY TouchedDirty, OrderFacts DEF Scope
<1>7. /\ Working(h) \subseteq Discovered(h) /\ Working(disk) \subseteq Discovered(disk)
      /\ Proper(Working(h), h) /\ U \subseteq Sources
  BY <1>1, WorkingFacts DEF Discovered
<1>8. \A f \in Sources \ T : h[f] = disk[f] /\ db.hash[f] = disk[f]
  BY <1>1, UntouchedSame DEF Scope
<1>9. U \ T = C /\ C \intersect T = {}
  <2>1. \A u \in U : u \in Sources /\ h[u] # Absent
    BY <1>1, <1>7 DEF Discovered
  <2> QED BY <1>1, <1>6, <1>8, <2>1
<1>10. ASSUME NEW c \in C PROVE c \in Working(disk)
  <2>1. c \in U /\ c \in Sources /\ c \notin T /\ h[c] = disk[c] /\ h[c] # Absent
    BY <1>1, <1>7, <1>8, <1>9 DEF Discovered
  <2>2. c \in Discovered(disk)
    BY <2>1 DEF Discovered
  <2>3. FirstOf(h, U, c) = c /\ c \in HeldIn(h, U)
    <3>1. Proper(U, h)
      BY <1>1, <1>7 DEF Proper
    <3> HIDE DEF U
    <3> QED BY <1>7, <2>1, <3>1, UnitLeads
  <2>4. c \in DOMAIN db.graph /\ db.graph[c].owner = c
    <3> HIDE DEF U
    <3> QED BY <1>1, <1>7, <2>3, GraphIs
  <2>5. c \in OwnersThen(c)
    BY <2>4 DEF OwnersThen
  <2>6. c \in Holding(c)
    BY <1>5, <2>1, <2>5 DEF OwnersNow
  <2>7. c \in run.units \/ c \notin run.skipped
    BY <2>6 DEF Holding
  <2> QED BY <1>2, <1>3, <2>2, <2>7 DEF Working
<1> HIDE DEF T, R
<1>11. C \union (run.units \intersect T) = Working(disk) \ (run.failed \intersect T)
  <2>1. \A w \in Working(disk) : w \in R \/ w \in run.failed \/ w \in run.units
    BY <1>3
  <2>2. \A w \in run.units : w \in Working(disk) /\ w \notin run.failed
    BY <1>3
  <2> QED BY <1>4, <1>5, <1>9, <1>10, <2>1, <2>2
<1> QED BY <1>2, <1>3, <1>5, <1>8, <1>9, <1>10, <1>11 DEF Accounted, T

\* An untouched file comes from the unit it came from before, or still from none.
LEMMA CoveredOwners ==
    ASSUME NEW h, Covered(h), NEW f \in Sources \ Scope,
           NEW V, V = run.clean \union (run.units \intersect Scope)
    PROVE  /\ f \in HeldIn(h, DOMAIN db.unit) <=> f \in HeldIn(disk, V)
           /\ f \in HeldIn(h, DOMAIN db.unit) => FirstOf(disk, V, f) = FirstOf(h, DOMAIN db.unit, f)
<1> DEFINE U == DOMAIN db.unit
<1>1. Accounted(h)
  BY CoveredUnits
<1>2. /\ V \subseteq Sources /\ U \subseteq Sources
      /\ run.clean \subseteq Working(disk) /\ run.skipped = SkippedOf(disk)
      /\ V = run.clean \union run.units /\ run.clean \subseteq U
      /\ Listing(run.irs, DOMAIN run.irs, run.units, disk)
  BY <1>1 DEF Accounted, Covered, Runs, Stored
<1>3. /\ db.graph = GraphOf(h, U, db.enrich) /\ run \in Runs
      /\ \A u \in run.clean : db.unit[u].parts = IR(disk, u).parts
      /\ OwnersNow(f) = OwnersThen(f)
  BY DEF Covered, Mirrors, Intact, Beyond, Scope
<1>4. Holding(f) = HeldBy(disk, V, f)
  <2>1. \A u \in run.units : UnitsOf(run)[u] = IR(disk, u)
    BY <1>2, <1>3, UnitsOfIs
  <2>2. \A u \in run.units : DOMAIN UnitsOf(run)[u].parts = Spliced(disk, u)
    BY <2>1, IRParts
  <2>3. \A u \in run.clean : DOMAIN db.unit[u].parts = Spliced(disk, u)
    BY <1>3, IRParts
  <2>4. run.clean \ run.skipped = run.clean
    BY <1>2 DEF Working
  <2> QED BY <1>2, <2>2, <2>3, <2>4 DEF Holding, HeldBy
<1>5. \A u : u \in OwnersNow(f) <=> Leads(disk, V, f, u)
  BY <1>4 DEF OwnersNow, Leads
<1> HIDE DEF U
<1>6. /\ f \in HeldIn(h, U) => OwnersThen(f) = {FirstOf(h, U, f)}
      /\ f \notin HeldIn(h, U) => OwnersThen(f) = {}
  <2>1. DOMAIN db.graph = HeldIn(h, U) /\ (f \in HeldIn(h, U) => db.graph[f].owner = FirstOf(h, U, f))
    BY <1>2, <1>3, GraphIs
  <2> QED BY <2>1 DEF OwnersThen
<1>7. /\ f \in HeldIn(disk, V) => Leads(disk, V, f, FirstOf(disk, V, f))
      /\ \A u : Leads(disk, V, f, u) => u = FirstOf(disk, V, f) /\ f \in HeldIn(disk, V)
  BY <1>2, FirstIs
<1> QED BY <1>3, <1>5, <1>6, <1>7 DEF U

\* A scoped link within its scope makes the graph of the units there are now.
LEMMA CoveredGraph ==
    ASSUME NEW h, Covered(h), NEW e, Off(e), db.enrich = e, ~HasWide(disk),
           NEW irs \in Seq(IRs), Listing(irs, PlacesOf(irs, Scope), run.units \intersect Scope, disk),
           NEW V, V = run.clean \union (run.units \intersect Scope)
    PROVE  LinkIncremental(irs, db, Scope) = GraphOf(disk, V, e)
<1> DEFINE C == run.clean
           N == run.units \intersect Scope
           U == DOMAIN db.unit
<1>1. Accounted(h)
  BY CoveredUnits
<1>2. /\ U \subseteq Sources /\ C \subseteq Sources /\ N \subseteq Sources /\ C \subseteq U
      /\ C \subseteq Working(disk) /\ N \subseteq Working(disk)
      /\ \A f \in Sources \ Scope : h[f] = disk[f]
      /\ C \intersect Scope = {}
  BY <1>1 DEF Accounted, Covered, Stored, Runs
<1>3. /\ h \in Disks /\ disk \in Disks /\ U \subseteq Working(h)
      /\ \A u \in U : db.unit[u].parts = IR(h, u).parts
      /\ db.graph = GraphOf(h, U, e)
      /\ C = Clean(disk, db) /\ Mirrors(db, h) /\ \A u \in C : ~Missed(disk, db, u)
      /\ \A u \in U : Lang[u] \notin Wide
  BY DEF Covered, Mirrors, Beyond
<1>4. \A u \in C : Spliced(disk, u) \intersect Scope = {}
  <2> SUFFICES ASSUME NEW u \in C PROVE Spliced(disk, u) \intersect Scope = {}
    OBVIOUS
  <2>1. /\ \A g \in Spliced(h, u) : g \notin Dirty(disk, db)
        /\ Spliced(disk, u) = Spliced(h, u)
    BY <1>3, CleanIntact
  <2> QED BY <2>1, TouchedDirty DEF Scope
<1>5. \A f \in HeldIn(h, U) : h[f].uses \subseteq Sources
  <2> SUFFICES ASSUME NEW u \in U, NEW f \in Spliced(h, u) PROVE h[f].uses \subseteq Sources
    BY DEF HeldIn
  <2>1. u \in Discovered(h) /\ u \in Sources
    BY <1>2, <1>3, WorkingFacts
  <2>2. f \in Sources /\ h[f] # Absent
    <3>1. CASE Lang[u] \in Preprocessed
      BY <2>1, <3>1, SplicedLeast DEF Discovered
    <3>2. CASE Lang[u] \notin Preprocessed
      BY <2>1, <3>2, SplicedSources DEF Discovered
    <3> QED BY <3>1, <3>2
  <2>3. h[f] \in Text
    BY <1>3, <2>2, OrderFacts DEF Disks
  <2> QED BY <2>3 DEF Text
<1>6. \A u \in U \union C \union N : Lang[u] \notin Wide
  <2> SUFFICES ASSUME NEW u \in N, Lang[u] \in Wide PROVE FALSE
    BY <1>2, <1>3
  <2>1. u \in Discovered(disk) /\ ~disk[u].skip
    BY <1>2, <1>3, WorkingFacts DEF Proper
  <2> QED BY <2>1 DEF HasWide
<1>7. \A f \in Sources \ Scope :
          /\ f \in HeldIn(h, U) <=> f \in HeldIn(disk, V)
          /\ f \in HeldIn(h, U) => FirstOf(disk, V, f) = FirstOf(h, U, f)
  BY CoveredOwners
<1> HIDE DEF C, N, U
<1>8. V = C \union N
  BY DEF C, N
<1>9. Relinkable(db, h, disk, Scope, C, N, e)
  BY <1>2, <1>3, <1>4, <1>5, <1>6, <1>7, <1>8 DEF Relinkable, Unmoved, U
<1>10. Listing(irs, PlacesOf(irs, Scope), N, disk)
  BY DEF N
<1>11. LinkIncremental(irs, db, Scope) = GraphOf(disk, C \union N, e)
  BY <1>9, <1>10, RelinkIs DEF Relinked
<1> QED BY <1>8, <1>11

\* What a run within its scope writes is what a full build writes.
LEMMA PatchedMirrors ==
    ASSUME NEW h, Covered(h), NEW e, Off(e), db.enrich = e, ~HasWide(disk),
           NEW irs \in Seq(IRs), Listing(irs, PlacesOf(irs, Scope), run.units \intersect Scope, disk),
           NEW new, new = Patched(run, disk, db, Scope, irs)
    PROVE  /\ Mirrors(new, disk)
           /\ new.root = db.root /\ new.inputs = db.inputs /\ new.enrich = db.enrich
<1> DEFINE T == Scope
           V == run.clean \union (run.units \intersect T)
           hash == [f \in Files |-> IF f \in T THEN disk[f] ELSE db.hash[f]]
           units == [u \in ((DOMAIN db.unit) \ T) \union (run.units \intersect T) |->
                        IF u \in T THEN UnitsOf(run)[u] ELSE db.unit[u]]
           skipped == (db.skipped \ T) \union (run.skipped \intersect T)
           failed  == (db.failed \ T) \union (run.failed \intersect T)
           graph == LinkIncremental(irs, db, T)
<1>1. new = [db EXCEPT !.hash = hash, !.skipped = skipped, !.failed = failed,
                       !.unit = units, !.graph = graph]
  BY DEF Patched
<1>2. Stored(db) /\ Mirrors(db, h) /\ h \in Disks /\ disk \in Disks /\ run \in Runs
  BY DEF Covered
<1>3. Accounted(h)
  BY CoveredUnits
<1>4. /\ DOMAIN db.unit \ T = run.clean /\ run.clean \intersect T = {}
      /\ run.clean \subseteq Working(disk) /\ db.failed \subseteq T
      /\ \A f \in Sources \ T : h[f] = disk[f] /\ db.hash[f] = disk[f]
      /\ run.failed \subseteq Working(disk) /\ run.skipped = SkippedOf(disk)
      /\ run.units \subseteq Working(disk)
      /\ V = Working(disk) \ (run.failed \intersect T)
      /\ Listing(run.irs, DOMAIN run.irs, run.units, disk)
  BY <1>3 DEF Accounted
<1>5. graph = GraphOf(disk, V, e)
  BY CoveredGraph
<1>6. \A u \in run.units : UnitsOf(run)[u] = IR(disk, u)
  BY <1>2, <1>4, UnitsOfIs
<1>7. \A u \in run.clean : db.unit[u].parts = IR(disk, u).parts
  BY DEF Covered, Intact
<1>8. failed = run.failed \intersect T
  BY <1>4
<1>9. skipped = SkippedOf(disk)
  <2>1. /\ DOMAIN db.unit = Working(h) \ db.failed /\ db.failed \subseteq Working(h)
        /\ db.skipped = SkippedOf(h)
    BY <1>2 DEF Mirrors
  <2>2. /\ SkippedOf(h) \subseteq Discovered(h) /\ SkippedOf(disk) \subseteq Discovered(disk)
    BY <1>2, WorkingFacts
  <2>3. ASSUME NEW f \in Sources \ T PROVE f \in SkippedOf(h) <=> f \in SkippedOf(disk)
    <3>1. f \in Discovered(h) <=> f \in Discovered(disk)
      BY <1>4 DEF Discovered
    <3>2. f \in Working(h) <=> f \in run.clean
      BY <1>4, <2>1
    <3>3. f \in Working(disk) <=> f \in run.clean
      BY <1>4
    <3> QED BY <2>2, <3>1, <3>2, <3>3 DEF Working
  <2>4. Discovered(h) \subseteq Sources /\ Discovered(disk) \subseteq Sources
    BY DEF Discovered
  <2> QED BY <1>4, <2>1, <2>2, <2>3, <2>4
<1>10. DOMAIN units = V /\ \A u \in V : units[u].parts = IR(disk, u).parts
  <2>1. DOMAIN units = V
    BY <1>4
  <2>2. \A u \in V : units[u] = IF u \in T THEN UnitsOf(run)[u] ELSE db.unit[u]
    BY <1>4
  <2> QED BY <1>4, <1>6, <1>7, <2>1, <2>2
<1>11. \A f \in Sources : hash[f] = disk[f]
  BY <1>4, OrderFacts
<1> HIDE DEF hash, units, skipped, failed, graph, V
<1>12. new = [root |-> db.root, inputs |-> db.inputs, enrich |-> db.enrich,
              hash |-> hash, skipped |-> skipped, failed |-> failed,
              unit |-> units, graph |-> graph]
  BY <1>1, <1>2 DEF Stored
<1>13. /\ new.hash = hash /\ new.skipped = skipped /\ new.failed = failed /\ new.unit = units
       /\ new.graph = graph
       /\ new.root = db.root /\ new.inputs = db.inputs /\ new.enrich = db.enrich
  BY <1>12
<1>14. Mirrors(new, disk)
  BY <1>4, <1>5, <1>8, <1>9, <1>10, <1>11, <1>13 DEF Mirrors
<1> QED BY <1>13, <1>14

\* What a full save writes mirrors the tree.
LEMMA SavedMirrors ==
    ASSUME NEW mode \in {"full", "legacy"}, NEW clean, NEW d \in Disks, NEW F, NEW r,
           Booked(r, mode, clean, d, F), NEW o, NEW new, new = Saved(r, d, o)
    PROVE  Mirrors(new, d) /\ new.root = o.root /\ new.inputs = o.inputs /\ new.enrich = o.enrich
<1>1. /\ r \in Runs /\ r.mode = mode /\ r.skipped = SkippedOf(d)
      /\ Live(r, d, Len(Order)) = Working(d) /\ Tallied(r, d, F, Len(Order))
  BY DEF Booked, RunsOf
<1>2. Replayed(r.mode, r.clean) = {}
  BY <1>1 DEF Replayed
<1>3. /\ r.units = Working(d) \ F /\ r.failed = Working(d) \intersect F
      /\ Listing(r.irs, DOMAIN r.irs, r.units, d)
  BY <1>1, <1>2 DEF Tallied
<1>4. r.units \subseteq Sources /\ r.irs \in Seq(IRs)
  BY <1>1 DEF Runs
<1>5. UnitsOf(r) = [u \in r.units |-> IR(d, u)]
  BY <1>1, <1>3, UnitsOfIs
<1>6. LinkGraph(r.irs, o.enrich) = GraphOf(d, r.units, o.enrich)
  BY <1>3, <1>4, LinkGraphIs
<1>7. /\ new.hash = [f \in Files |-> d[f]] /\ new.skipped = r.skipped /\ new.failed = r.failed
      /\ new.unit = UnitsOf(r) /\ new.graph = LinkGraph(r.irs, o.enrich)
      /\ new.root = o.root /\ new.inputs = o.inputs /\ new.enrich = o.enrich
  BY DEF Saved
<1>8. \A f \in Sources : new.hash[f] = d[f]
  BY <1>7, OrderFacts
<1>9. DOMAIN new.unit = r.units /\ \A u \in r.units : new.unit[u].parts = IR(d, u).parts
  BY <1>5, <1>7
<1>10. Mirrors(new, d)
  BY <1>1, <1>3, <1>6, <1>7, <1>8, <1>9 DEF Mirrors
<1> QED BY <1>7, <1>10

(***************************************************************************)
(* Every write                                                             *)
(***************************************************************************)
\* An update reuses a database that was built with its options.
LEMMA UpdateOptions ==
    ASSUME NEW d, NEW base, NEW o, NEW mode \in Ways(d, base, o), mode # "full"
    PROVE  /\ base # NoDatabase /\ base.inputs # "merged"
           /\ base.root = o.root /\ base.inputs = o.inputs /\ base.enrich = o.enrich
           /\ mode = "selective" => ~o.enrich /\ ~HasWide(d)
<1>1. \/ mode = Plan(d, base, o)
      \/ mode = "legacy" /\ Plan(d, base, o) = "selective"
  BY DEF Ways, Serial!Modes
<1>2. mode # "up to date"
  BY DEF Ways, Serial!Modes
<1>3. Plan(d, base, o) # "full" /\ Plan(d, base, o) # "up to date"
  BY <1>1, <1>2
<1>4. /\ base # NoDatabase /\ base.inputs # "merged" /\ base.root = o.root
      /\ <<base.inputs, base.enrich>> = <<o.inputs, o.enrich>>
  BY <1>3 DEF Plan
<1>5. Plan(d, base, o) = "selective" => ~o.enrich /\ ~HasWide(d)
  BY <1>4 DEF Plan
<1> QED BY <1>1, <1>4, <1>5

\* The database is what a full build writes, of some texts and, after a write,
\* of those on disk.
WrittenSound ==
    outcome = "wrote" /\ ~drifted =>
        /\ Stored(db) /\ Mirrors(db, disk)
        /\ db.root = opts.root /\ db.inputs = opts.inputs /\ db.enrich = opts.enrich

StoredSound ==
    db # NoDatabase /\ db.inputs # "merged" /\ ~drifted => \E h \in Disks : Mirrors(db, h)

Sound == WrittenSound /\ StoredSound

\* A mark changes nothing of it.
LEMMA MarkedMirrors ==
    ASSUME NEW base, NEW new, Marked(new, base), NEW d, Mirrors(base, d)
    PROVE  Mirrors(new, d)
BY DEF Marked, Mirrors

\* A full build, or a link of everything that an update decoded.
LEMMA FullWrite ==
    ASSUME CInv, Follows, Write, run.mode # "selective", ~LinkSafe(run, disk, db, opts),
           Intact(run.clean, disk, db)
    PROVE  /\ Mirrors(db', disk)
           /\ db'.root = opts.root /\ db'.inputs = opts.inputs /\ db'.enrich = opts.enrich
<1>1. db' = Saved(run, disk, opts)
  BY WriteKeeps DEF CInv, Outcome
<1>2. /\ run = SerialResult(run.mode, run.clean, disk, db, run.failed)
      /\ run.mode \in Ways(disk, db, opts)
  BY WriteIsSerial
<1>3. run.mode \in {"full", "legacy", "selective"} /\ run.clean \in SUBSET Sources /\ disk \in Disks
  BY DEF CInv, PInv, TInv, Runs
<1>4. Booked(run, run.mode, run.clean, disk, run.failed)
  BY <1>2, <1>3, SerialTally
<1>5. run.mode \in {"full", "legacy"}
  BY <1>3
<1> QED BY <1>1, <1>3, <1>4, <1>5, SavedMirrors

\* A scoped write.
LEMMA ScopedWrite ==
    ASSUME CInv, Follows, Write, Scoped, NEW h, Covered(h)
    PROVE  /\ Mirrors(db', disk)
           /\ db'.root = opts.root /\ db'.inputs = opts.inputs /\ db'.enrich = opts.enrich
<1>1. run.mode \in Ways(disk, db, opts) /\ run \in Runs /\ opts \in Options
  BY WriteIsSerial DEF CInv, PInv, TInv
<1>2. run.mode # "full"
  BY DEF Scoped, LinkSafe
<1>3. /\ db.root = opts.root /\ db.inputs = opts.inputs /\ db.enrich = opts.enrich
      /\ ~opts.enrich /\ ~HasWide(disk)
  BY <1>1, <1>2, UpdateOptions DEF Scoped, LinkSafe
<1>4. Off(db.enrich)
  <2>1. opts.enrich \in BOOLEAN /\ ~opts.enrich
    BY <1>1, <1>3, OptionsAssumption
  <2>2. opts.enrich = FALSE
    BY <2>1
  <2> QED BY <1>3, <2>2 DEF Off
<1>5. Accounted(h) /\ Stored(db) /\ disk \in Disks /\ run.clean = Clean(disk, db)
  BY CoveredUnits DEF Covered
<1>6. /\ Listing(run.irs, DOMAIN run.irs, run.units, disk) /\ run.clean \intersect Scope = {}
      /\ run.units \subseteq Working(disk) /\ run.irs \in Seq(IRs)
  BY <1>1, <1>5 DEF Accounted, Runs
<1>7. PICK irs : /\ db' = Patched(run, disk, db, Scope, irs)
                 /\ \/ irs = SelectiveIRs(run, disk, db)
                    \/ irs = run.irs
  BY WriteKeeps DEF CInv, Scoped, Outcome, Scope
<1>8. irs \in Seq(IRs) /\ Listing(irs, PlacesOf(irs, Scope), run.units \intersect Scope, disk)
  <2>1. CASE irs = SelectiveIRs(run, disk, db)
    <3>1. run.clean \subseteq DOMAIN db.unit /\ \A u \in run.units : disk[u] # Absent
      BY <1>5, <1>6, WorkingFacts DEF Clean, Discovered
    <3>2. PICK T : T = Scope
      OBVIOUS
    <3>3. T = Touched(disk, db) /\ run.clean \intersect T = {}
      BY <1>6, <3>2 DEF Scope
    <3>4. irs \in Seq(IRs) /\ Listing(irs, PlacesOf(irs, T), run.units \intersect T, disk)
      BY <1>1, <1>5, <1>6, <2>1, <3>1, <3>3, SelectiveIs
    <3> QED BY <3>2, <3>4
  <2>2. CASE irs = run.irs
    BY <1>6, <2>2, ScopedListing
  <2> QED BY <1>7, <2>1, <2>2
<1>9. PICK e : e = db.enrich
  OBVIOUS
<1>10. PICK new : new = Patched(run, disk, db, Scope, irs)
  OBVIOUS
<1>11. /\ Mirrors(new, disk)
       /\ new.root = db.root /\ new.inputs = db.inputs /\ new.enrich = db.enrich
  BY <1>3, <1>4, <1>8, <1>9, <1>10, PatchedMirrors
<1> QED BY <1>3, <1>7, <1>10, <1>11

\* Whatever a run writes, it is sound or noted as drifted.
LEMMA WriteSound ==
    ASSUME CInv, Follows, Sound, Write PROVE Sound'
<1>1. /\ Stored(db') /\ UNCHANGED <<disk, opts>> /\ disk' \in Disks
      /\ drifted' = (run.mode # "full" /\ (drifted \/ Overlooked \/ (Scoped /\ Beyond)))
  BY WriteKeeps DEF CInv, PInv, TInv, Write
<1>2. /\ run.mode \in Ways(disk, db, opts) /\ run.clean = CleanOf(run.mode, disk, db)
      /\ run = SerialResult(run.mode, run.clean, disk, db, run.failed)
  BY WriteIsSerial
<1>3. /\ run \in Runs /\ disk \in Disks /\ (db # NoDatabase => Stored(db))
      /\ run.mode \in {"full", "legacy", "selective"}
  BY DEF CInv, PInv, TInv, Runs
<1> DEFINE Good == /\ Mirrors(db', disk)
                   /\ db'.root = opts.root /\ db'.inputs = opts.inputs /\ db'.enrich = opts.enrich
<1>4. ASSUME run.mode = "full" PROVE Good
  <2>1. Intact(run.clean, disk, db) /\ ~LinkSafe(run, disk, db, opts)
    BY <1>2, <1>4 DEF CleanOf, Intact, LinkSafe
  <2>2. Good
    BY <1>4, <2>1, FullWrite
  <2> QED BY <2>2
<1>5. ASSUME run.mode # "full", ~drifted' PROVE Good
  <2>1. ~drifted /\ ~Overlooked /\ ~(Scoped /\ Beyond)
    BY <1>1, <1>5
  <2>2. db # NoDatabase /\ db.inputs # "merged"
    BY <1>2, <1>5, UpdateOptions
  <2>3. PICK h \in Disks : Mirrors(db, h)
    BY <2>1, <2>2 DEF Sound, StoredSound
  <2>4. run.clean = Clean(disk, db)
    BY <1>2, <1>3, <1>5 DEF CleanOf
  <2>5. \A u \in run.clean : ~Missed(disk, db, u)
    BY <2>1 DEF Overlooked, Missed
  <2>6. Intact(run.clean, disk, db)
    BY <1>3, <2>2, <2>3, <2>4, <2>5, ReuseIntact
  <2>7. CASE ~Scoped
    BY <2>6, <2>7, FullWrite DEF Scoped
  <2>8. CASE Scoped
    <3>1. run.clean \in SUBSET Sources
      BY <1>3 DEF Runs
    <3>2. Booked(run, run.mode, run.clean, disk, run.failed)
      BY <1>2, <1>3, <2>6, <3>1, SerialTally
    <3>3. Covered(h)
      BY <1>3, <2>1, <2>2, <2>3, <2>4, <2>5, <2>6, <2>8, <3>2 DEF Covered
    <3> QED BY <2>8, <3>3, ScopedWrite
  <2> QED BY <2>7, <2>8
<1>6. ~drifted' => Good
  BY <1>4, <1>5
<1>7. WrittenSound'
  BY <1>1, <1>6 DEF WrittenSound
<1>8. StoredSound'
  BY <1>1, <1>6 DEF StoredSound
<1> QED BY <1>7, <1>8 DEF Sound

\* Every step keeps it so.
LEMMA SoundKept ==
    ASSUME CInv, Follows, Sound, [Next]_vars PROVE Sound'
<1>1. CASE Write
  BY <1>1, WriteSound
<1>2. ASSUME NEW u \in Sources, Corrupt(u) PROVE Sound'
  <2>1. Stored(db) /\ db # NoDatabase /\ UNCHANGED <<disk, opts, outcome, drifted>>
    BY <1>2 DEF Corrupt, CInv, PInv, TInv
  <2>2. Stored(db') /\ Marked(db', db)
    BY <1>2, <2>1, CorruptMarks
  <2>3. \A h : Mirrors(db, h) => Mirrors(db', h)
    BY <2>2, MarkedMirrors
  <2>4. db'.root = db.root /\ db'.inputs = db.inputs /\ db'.enrich = db.enrich
    BY <2>2 DEF Marked
  <2>5. WrittenSound'
    BY <2>1, <2>2, <2>3, <2>4 DEF Sound, WrittenSound
  <2>6. StoredSound'
    BY <2>1, <2>3, <2>4 DEF Sound, StoredSound
  <2> QED BY <2>5, <2>6 DEF Sound
<1>3. CASE /\ UNCHANGED <<db, drifted>>
           /\ \/ UNCHANGED <<disk, opts, outcome>>
              \/ outcome' # "wrote"
  BY <1>3 DEF Sound, WrittenSound, StoredSound, Stored, Mirrors
<1>4. \/ Write
      \/ \E u \in Sources : Corrupt(u)
      \/ /\ UNCHANGED <<db, drifted>>
         /\ \/ UNCHANGED <<disk, opts, outcome>>
            \/ outcome' # "wrote"
  BY DEF Next, vars, tree, bookkeeping, Edit, Configure, Build, Update, Start, End, PassOver, Pass,
         Enqueue, SubmitFails, Work, WorkerDies, Finalize, Continue, AllDispatched, AllFinalized,
         Retry
<1> QED BY <1>1, <1>2, <1>3, <1>4

\* A sound database is the one a full build writes.
LEMMA SoundIsFull ==
    ASSUME CInv, Sound PROVE MatchesFullBuild
<1> DEFINE full == SerialResult("full", {}, disk, db, db.failed)
           new  == Saved(full, disk, opts)
           hash == [f \in Files |-> IF f \in Sources THEN db.hash[f] ELSE disk[f]]
           unit == [u \in DOMAIN db.unit |-> [db.unit[u] EXCEPT !.bad = "none"]]
<1> SUFFICES ASSUME outcome = "wrote", ~drifted
             PROVE  [Healed(db) EXCEPT !.hash = [f \in Files |-> IF f \in Sources THEN @[f] ELSE disk[f]]]
                      = new
  BY DEF MatchesFullBuild, SerialResult
<1>1. /\ Stored(db) /\ Mirrors(db, disk) /\ disk \in Disks
      /\ db.root = opts.root /\ db.inputs = opts.inputs /\ db.enrich = opts.enrich
  BY DEF Sound, WrittenSound, CInv, PInv, TInv
<1>1a. db = [root |-> db.root, inputs |-> db.inputs, enrich |-> db.enrich,
             hash |-> db.hash, skipped |-> db.skipped, failed |-> db.failed,
             unit |-> db.unit, graph |-> db.graph]
  BY <1>1 DEF Stored
<1>1b. Healed(db) = [root |-> db.root, inputs |-> db.inputs, enrich |-> db.enrich,
                     hash |-> db.hash, skipped |-> db.skipped, failed |-> db.failed,
                     unit |-> unit, graph |-> db.graph]
  <2>1. Healed(db) = [db EXCEPT !.unit = unit]
    BY <1>1a DEF Healed
  <2> HIDE DEF unit
  <2> QED BY <1>1a, <2>1
<1>2. [Healed(db) EXCEPT !.hash = [f \in Files |-> IF f \in Sources THEN @[f] ELSE disk[f]]]
        = [root |-> db.root, inputs |-> db.inputs, enrich |-> db.enrich,
           hash |-> hash, skipped |-> db.skipped, failed |-> db.failed,
           unit |-> unit, graph |-> db.graph]
  <2> HIDE DEF unit
  <2> QED BY <1>1b
<1>3. new = [root |-> opts.root, inputs |-> opts.inputs, enrich |-> opts.enrich,
             hash |-> [f \in Files |-> disk[f]], skipped |-> full.skipped, failed |-> full.failed,
             unit |-> UnitsOf(full), graph |-> LinkGraph(full.irs, opts.enrich)]
  BY DEF Saved
<1>4. Booked(full, "full", {}, disk, db.failed)
  <2>1. Intact({}, disk, db) /\ {} \in SUBSET Sources
    BY DEF Intact
  <2> QED BY <1>1, <2>1, SerialTally
<1> HIDE DEF full
<1>5. /\ full \in Runs /\ full.skipped = SkippedOf(disk)
      /\ full.units = Working(disk) \ db.failed /\ full.failed = Working(disk) \intersect db.failed
      /\ Listing(full.irs, DOMAIN full.irs, full.units, disk)
  <2>1. /\ full \in Runs /\ full.mode = "full" /\ full.skipped = SkippedOf(disk)
        /\ Live(full, disk, Len(Order)) = Working(disk)
        /\ Tallied(full, disk, db.failed, Len(Order))
    BY <1>4 DEF Booked, RunsOf
  <2>2. Replayed(full.mode, full.clean) = {}
    BY <2>1 DEF Replayed
  <2> QED BY <2>1, <2>2 DEF Tallied
<1>6. /\ db.skipped = SkippedOf(disk) /\ db.failed \subseteq Working(disk)
      /\ DOMAIN db.unit = Working(disk) \ db.failed
      /\ \A u \in DOMAIN db.unit : db.unit[u].parts = IR(disk, u).parts
      /\ db.graph = GraphOf(disk, DOMAIN db.unit, db.enrich)
      /\ \A f \in Sources : db.hash[f] = disk[f]
  BY <1>1 DEF Mirrors
<1>7. full.units = DOMAIN db.unit /\ full.failed = db.failed
  BY <1>5, <1>6
<1>8. UnitsOf(full) = [u \in DOMAIN db.unit |-> IR(disk, u)]
  BY <1>5, <1>7, UnitsOfIs
<1>9. LinkGraph(full.irs, opts.enrich) = db.graph
  <2>1. full.units \subseteq Sources /\ full.irs \in Seq(IRs)
    BY <1>5 DEF Runs
  <2>2. LinkGraph(full.irs, opts.enrich) = GraphOf(disk, full.units, opts.enrich)
    BY <1>5, <2>1, LinkGraphIs
  <2> QED BY <1>1, <1>6, <1>7, <2>2
<1>10. unit = UnitsOf(full)
  <2>1. ASSUME NEW u \in DOMAIN db.unit PROVE [db.unit[u] EXCEPT !.bad = "none"] = IR(disk, u)
    <3>1. db.unit[u] \in IRs /\ db.unit[u].unit = u /\ db.unit[u].parts = IR(disk, u).parts
      BY <1>1, <1>6, <2>1 DEF Stored, Made
    <3> DEFINE parts == IR(disk, u).parts
    <3>2. IR(disk, u) = [unit |-> u, parts |-> parts, bad |-> "none"]
      BY DEF IR
    <3> HIDE DEF parts
    <3> QED BY <3>1, <3>2 DEF IRs, parts
  <2> QED BY <1>8, <2>1
<1>11. hash = [f \in Files |-> disk[f]]
  BY <1>6
<1> HIDE DEF hash, unit, new
<1> QED BY <1>1, <1>2, <1>3, <1>5, <1>6, <1>7, <1>9, <1>10, <1>11

(* Unless an update met what its scope or its dirty closure does not       *)
(* cover, the database it writes is the one a full build of the same tree  *)
(* writes, with the same parses failing: for every tree, every history of  *)
(* edits and options, every way an update takes or retries, and every      *)
(* order in which its workers answer or fail.                              *)
THEOREM UpdatesAsFullBuild == Spec => []MatchesFullBuild
<1>1. Init => Follows /\ Sound
  <2>1. Init => Follows
    BY DEF Init, Follows
  <2>2. Init => Sound
    BY DEF Init, Sound, WrittenSound, StoredSound
  <2> QED BY <2>1, <2>2
<1>2. CInv /\ Follows /\ [Next]_vars => Follows'
  BY FollowsKept
<1>3. CInv /\ Follows /\ Sound /\ [Next]_vars => Sound'
  BY SoundKept
<1>4. CInv /\ Sound => MatchesFullBuild
  BY SoundIsFull
<1> QED BY <1>1, <1>2, <1>3, <1>4, CInvariant, PTL DEF Spec
=============================================================================
