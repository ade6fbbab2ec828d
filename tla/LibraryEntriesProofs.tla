------------------------ MODULE LibraryEntriesProofs ------------------------
(***************************************************************************)
(* What the library's predicates, workspace queries, entries and tactic    *)
(* cache promise one another holds for any number of rows, any spread over *)
(* the experts and any problem: not only for the shapes a caller of        *)
(* LibraryEntries starts from.                                             *)
(***************************************************************************)
EXTENDS TacticCache, ProofArithmetic

(* Any problem a caller could describe.                                    *)
Shapes ==
  [packed : Int, family : Families, qtype : Int, n : Int, k : Int, group : Int,
   experts : Int, high : BOOLEAN]
-----------------------------------------------------------------------------
(* Least and greatest numbers.                                             *)

(* A set of natural numbers has its minimum.                               *)
LEMMA MinIsLeast ==
  ASSUME NEW T, T \subseteq Nat, T # {}
  PROVE  Min(T) \in T /\ \A y \in T : Min(T) <= y
<1> DEFINE P(x) == \A y \in T : x <= y
<1>1. \E x \in T : P(x)
  BY LeastNumber
<1> HIDE DEF P
<1>2. (CHOOSE x \in T : P(x)) \in T /\ P(CHOOSE x \in T : P(x))
  BY <1>1
<1>3. Min(T) = CHOOSE x \in T : P(x)
  BY DEF Min, P
<1>4. Min(T) \in T
  BY <1>2, <1>3
<1>5. P(Min(T))
  BY <1>2, <1>3
<1> QED BY <1>4, <1>5 DEF P

(* A bounded one has its maximum.                                          *)
LEMMA MaxIsGreatest ==
  ASSUME NEW T, T \subseteq Nat, T # {}, NEW n \in Nat, \A y \in T : y <= n
  PROVE  Max(T) \in T /\ \A y \in T : y <= Max(T)
<1> DEFINE U == {n - y : y \in T}
           P(x) == \A y \in T : x >= y
<1>1. PICK d \in U : \A e \in U : d <= e
  <2>1. \A y \in T : n - y \in Nat
    OBVIOUS
  <2>2. U \subseteq Nat /\ U # {}
    BY <2>1
  <2> HIDE DEF U
  <2> QED BY <2>2, LeastNumber
<1>2. PICK x \in T : d = n - x
  OBVIOUS
<1>3. ASSUME NEW y \in T PROVE x >= y
  <2>1. n - x <= n - y
    BY <1>1, <1>2
  <2>2. x \in Nat /\ y \in Nat
    OBVIOUS
  <2> QED BY <2>1, <2>2
<1>4. \E z \in T : P(z)
  BY <1>3
<1> HIDE DEF P, U
<1>5. (CHOOSE z \in T : P(z)) \in T /\ P(CHOOSE z \in T : P(z))
  BY <1>4
<1>6. Max(T) = CHOOSE z \in T : P(z)
  BY DEF Max, P
<1>7. Max(T) \in T /\ P(Max(T))
  BY <1>5, <1>6
<1>8. \A y \in T : y \in Nat /\ Max(T) \in Nat
  BY <1>7
<1> QED BY <1>7, <1>8 DEF P

(* Rounding up gives a natural number, positive for a positive one.        *)
LEMMA CeilDivType ==
  ASSUME NEW a \in Nat, NEW S \in Nat \ {0}
  PROVE  CeilDiv(a, S) \in Nat /\ (a > 0 => CeilDiv(a, S) >= 1)
BY RoundUpType DEF RoundUp, CeilDiv

(* Coarser tiles are no more.                                              *)
LEMMA CeilDivCoarser ==
  ASSUME NEW a \in Nat, NEW S \in Nat \ {0}, NEW T \in Nat \ {0}, S <= T
  PROVE  CeilDiv(a, T) <= CeilDiv(a, S)
<1>1. RoundUp(a, S) \in Nat /\ RoundUp(a, T) \in Nat
  BY RoundUpType
<1>2. SUFFICES ASSUME RoundUp(a, T) # 0 PROVE RoundUp(a, T) <= RoundUp(a, S)
  BY <1>1 DEF CeilDiv, RoundUp
<1> DEFINE x == RoundUp(a, T) - 1
<1>3. x \in Nat /\ x < RoundUp(a, T)
  BY <1>1, <1>2
<1> HIDE DEF x
<1>4. x * T < a
  BY <1>3, RoundUpCovers
<1>5. PICK d \in Nat : T = S + d
  BY T - S \in Nat /\ T = S + (T - S)
<1>6. x * T = x * S + x * d /\ x * S \in Nat /\ x * d \in Nat
  BY <1>3, <1>5
<1>7. x * S < a
  BY <1>3, <1>4, <1>6
<1>8. x < RoundUp(a, S)
  BY <1>3, <1>7, RoundUpCovers
<1> QED BY <1>1, <1>8 DEF x

(* A product of larger factors is larger.                                  *)
LEMMA ProductMono ==
  ASSUME NEW a \in Nat, NEW b \in Nat, NEW c \in Nat, NEW d \in Nat, a <= c, b <= d
  PROVE  a * b <= c * d
<1>1. PICK x \in Nat : c = a + x
  BY c - a \in Nat /\ c = a + (c - a)
<1>2. PICK y \in Nat : d = b + y
  BY d - b \in Nat /\ d = b + (d - b)
<1>3. c * d = a * b + a * y + x * b + x * y
  BY <1>1, <1>2
<1>4. a * y \in Nat /\ x * b \in Nat /\ x * y \in Nat /\ a * b \in Nat
  OBVIOUS
<1> QED BY <1>3, <1>4
-----------------------------------------------------------------------------
(* The compiled configs.                                                   *)

(* What the inventory's five dense and five grouped rows have in common.   *)
LEMMA ConfigFacts ==
  ASSUME NEW s
  PROVE  /\ DOMAIN Configs(s) = 1 .. 5
         /\ \A i \in 1 .. 5 : /\ Configs(s)[i].tm \in Nat \ {0} /\ Configs(s)[i].tn \in Nat \ {0}
                              /\ Configs(s)[i].name \notin {"", "other", DenseCuda, GroupedCuda}
<1>1. DOMAIN DenseConfigs = 1 .. 5 /\ DOMAIN GroupedConfigs = 1 .. 5
  BY DEF DenseConfigs, GroupedConfigs, SharedConfigs
<1>2. /\ DenseConfigs[1] = Config("64x64:32x32:s3", 64, 64, 32, 32, 3)
      /\ GroupedConfigs[1] = Config("16x128:16x16:s2", 16, 128, 16, 16, 2)
      /\ \A i \in 2 .. 5 : DenseConfigs[i] = SharedConfigs[i - 1]
                           /\ GroupedConfigs[i] = SharedConfigs[i - 1]
  BY DEF DenseConfigs, GroupedConfigs, SharedConfigs
<1> DEFINE Fine(c) == /\ c.tm \in Nat \ {0} /\ c.tn \in Nat \ {0}
                      /\ c.name \notin {"", "other", DenseCuda, GroupedCuda}
<1>3. \A i \in 1 .. 4 : Fine(SharedConfigs[i])
  <2>1. /\ SharedConfigs[1] = Config("32x32:16x16:s3", 32, 32, 16, 16, 3)
        /\ SharedConfigs[2] = Config("16x128:16x32:s3", 16, 128, 16, 32, 3)
        /\ SharedConfigs[3] = Config("32x128:32x32:s3", 32, 128, 32, 32, 3)
        /\ SharedConfigs[4] = Config("128x64:64x32:s2", 128, 64, 64, 32, 2)
    BY DEF SharedConfigs
  <2>2. Fine(SharedConfigs[1])
    BY <2>1 DEF Config, DenseCuda, GroupedCuda
  <2>3. Fine(SharedConfigs[2])
    BY <2>1 DEF Config, DenseCuda, GroupedCuda
  <2>4. Fine(SharedConfigs[3])
    BY <2>1 DEF Config, DenseCuda, GroupedCuda
  <2>5. Fine(SharedConfigs[4])
    BY <2>1 DEF Config, DenseCuda, GroupedCuda
  <2> HIDE DEF Fine
  <2> QED BY <2>2, <2>3, <2>4, <2>5
<1>4. Fine(DenseConfigs[1]) /\ Fine(GroupedConfigs[1])
  BY <1>2 DEF Config, DenseCuda, GroupedCuda
<1> HIDE DEF Fine
<1>5. ASSUME NEW i \in 1 .. 5 PROVE Fine(DenseConfigs[i]) /\ Fine(GroupedConfigs[i])
  <2>1. CASE i = 1
    BY <1>4, <2>1
  <2>2. CASE i # 1
    <3>1. i \in 2 .. 5 /\ i - 1 \in 1 .. 4
      BY <2>2
    <3> QED BY <1>2, <1>3, <3>1
  <2> QED BY <2>1, <2>2
<1> QED BY <1>1, <1>5 DEF Configs, Fine

(* A name resolves to a compiled row, the default for the others.          *)
LEMMA ResolveType ==
  ASSUME NEW s, NEW name
  PROVE  /\ \E i \in 1 .. 5 : Resolve(s, name) = Configs(s)[i]
         /\ name \in {"", "other"} => Resolve(s, name) = Configs(s)[1]
<1> DEFINE C == Configs(s)
           at == {i \in DOMAIN C : C[i].name = name}
<1>1. DOMAIN C = 1 .. 5 /\ \A i \in 1 .. 5 : C[i].name \notin {"", "other"}
  BY ConfigFacts
<1>2. Resolve(s, name) = C[IF at = {} THEN 1 ELSE Min(at)]
  BY DEF Resolve
<1> HIDE DEF C
<1>3. at \subseteq 1 .. 5
  BY <1>1
<1>4. name \in {"", "other"} => at = {}
  BY <1>1
<1> HIDE DEF at
<1>5. at # {} => Min(at) \in 1 .. 5
  <2>1. at \subseteq Nat
    BY <1>3
  <2> QED BY <1>3, <2>1, MinIsLeast
<1>6. \E i \in 1 .. 5 : Resolve(s, name) = C[i]
  BY <1>2, <1>5
<1>7. name \in {"", "other"} => Resolve(s, name) = C[1]
  BY <1>2, <1>4
<1> QED BY <1>6, <1>7 DEF C

(* The workspace of the finest dense tactic is a number of bytes.          *)
LEMMA DenseWorkspaceType ==
  ASSUME NEW m \in Nat, NEW n \in Nat
  PROVE  DenseWorkspace(m, n) \in Nat
<1> DEFINE TM == {DenseConfigs[i].tm : i \in DOMAIN DenseConfigs}
           TN == {DenseConfigs[i].tn : i \in DOMAIN DenseConfigs}
<1>1. TM \subseteq Nat \ {0} /\ TM # {} /\ TN \subseteq Nat \ {0} /\ TN # {}
  <2> DEFINE s == [family |-> "dense_lowbit"]
  <2>1. Configs(s) = DenseConfigs
    BY DEF Configs, Grouped
  <2> HIDE DEF s
  <2>2. /\ DOMAIN DenseConfigs = 1 .. 5
        /\ \A i \in 1 .. 5 : DenseConfigs[i].tm \in Nat \ {0} /\ DenseConfigs[i].tn \in Nat \ {0}
    BY <2>1, ConfigFacts
  <2> QED BY <2>2
<1>2. DenseWorkspace(m, n) = CeilDiv(m, Min(TM)) * CeilDiv(n, Min(TN)) * 4
  BY DEF DenseWorkspace
<1> HIDE DEF TM, TN
<1>3. Min(TM) \in Nat \ {0} /\ Min(TN) \in Nat \ {0}
  BY <1>1, MinIsLeast
<1>4. CeilDiv(m, Min(TM)) \in Nat /\ CeilDiv(n, Min(TN)) \in Nat
  BY <1>3, CeilDivType
<1> QED BY <1>2, <1>4

(* The semaphores of any dense tactic fit the workspace of the finest one. *)
LEMMA SemaphoresFit ==
  ASSUME NEW s \in Shapes, ~Grouped(s), NEW m \in Int, NEW name, m > 0, s.n > 0
  PROVE  /\ DenseWorkspace(m, s.n) \in Nat
         /\ KernelNeeds(s, Resolve(s, name), m) \in Nat
         /\ KernelNeeds(s, Resolve(s, name), m) <= DenseWorkspace(m, s.n)
<1> DEFINE row == Resolve(s, name)
           TM == {DenseConfigs[i].tm : i \in DOMAIN DenseConfigs}
           TN == {DenseConfigs[i].tn : i \in DOMAIN DenseConfigs}
<1>1. Configs(s) = DenseConfigs
  BY DEF Configs
<1>2. PICK i \in 1 .. 5 : row = DenseConfigs[i]
  BY <1>1, ResolveType
<1>3. row.tm \in TM /\ row.tn \in TN /\ TM \subseteq Nat \ {0} /\ TN \subseteq Nat \ {0}
  BY <1>1, <1>2, ConfigFacts
<1>4. DenseWorkspace(m, s.n) = CeilDiv(m, Min(TM)) * CeilDiv(s.n, Min(TN)) * 4
  BY DEF DenseWorkspace
<1>5. KernelNeeds(s, row, m) = CeilDiv(m, row.tm) * CeilDiv(s.n, row.tn) * 4
  BY DEF KernelNeeds
<1> HIDE DEF row, TM, TN
<1>6. TM \subseteq Nat /\ TM # {} /\ TN \subseteq Nat /\ TN # {}
  BY <1>3
<1>7. /\ Min(TM) \in Nat \ {0} /\ row.tm \in Nat \ {0} /\ Min(TM) <= row.tm
      /\ Min(TN) \in Nat \ {0} /\ row.tn \in Nat \ {0} /\ Min(TN) <= row.tn
  BY <1>3, <1>6, MinIsLeast
<1>8. m \in Nat /\ s.n \in Nat
  BY DEF Shapes
<1> DEFINE a == CeilDiv(m, row.tm)
           b == CeilDiv(s.n, row.tn)
           c == CeilDiv(m, Min(TM))
           d == CeilDiv(s.n, Min(TN))
<1>9. a \in Nat /\ b \in Nat /\ c \in Nat /\ d \in Nat /\ a <= c /\ b <= d
  BY <1>7, <1>8, CeilDivType, CeilDivCoarser
<1>10. KernelNeeds(s, row, m) = a * b * 4 /\ DenseWorkspace(m, s.n) = c * d * 4
  BY <1>4, <1>5
<1> HIDE DEF a, b, c, d
<1>11. a * b <= c * d /\ a * b \in Nat /\ c * d \in Nat
  BY <1>9, ProductMono
<1>12. a * b * 4 <= c * d * 4 /\ c * d * 4 \in Nat /\ a * b * 4 \in Nat
  BY <1>11
<1> QED BY <1>10, <1>12 DEF row
-----------------------------------------------------------------------------
(* The guards of the entries.                                              *)

(* The code of a chain of guards is 0 when none holds and its end is 0.    *)
LEMMA FirstOfZero ==
  ASSUME NEW g, DOMAIN g \subseteq Nat, NEW o, \A i \in DOMAIN g : g[i].rc # 0
  PROVE  FirstOf(g, o) = 0 <=> o = 0 /\ \A i \in DOMAIN g : ~g[i].holds
<1> DEFINE hit == {i \in DOMAIN g : g[i].holds}
<1>1. FirstOf(g, o) = IF hit = {} THEN o ELSE g[Min(hit)].rc
  BY DEF FirstOf
<1>2. hit # {} => Min(hit) \in hit
  <2>1. hit \subseteq Nat
    OBVIOUS
  <2> HIDE DEF hit
  <2> QED BY <2>1, MinIsLeast
<1>3. hit # {} => g[Min(hit)].rc # 0
  BY <1>2
<1>4. hit = {} <=> \A i \in DOMAIN g : ~g[i].holds
  OBVIOUS
<1> HIDE DEF hit
<1> QED BY <1>1, <1>3, <1>4

(* Each entry returns 0 exactly when none of its guards holds and, for a   *)
(* tensor route, the launch it ends in is accepted.                        *)
LEMMA DenseLowbitRuns ==
  ASSUME NEW s, NEW m, NEW name
  PROVE  DenseLowbit(s, m, name) = 0 <=>
           /\ ~(BadProblem(s, m))
           /\ ~(~Known(s.qtype))
           /\ ~(ScaleFirstOut(s))
           /\ ~(s.group # ForQtype(s.qtype).group)
           /\ ~(NoHigh(s))
           /\ Launched(s, m, name, DenseWorkspace(m, s.n)) = 0
<1> DEFINE g == <<Guard(BadProblem(s, m), 30),
                  Guard(~Known(s.qtype), 33),
                  Guard(ScaleFirstOut(s), 36),
                  Guard(s.group # ForQtype(s.qtype).group, 32),
                  Guard(NoHigh(s), 41)>>
<1>1. DOMAIN g = {1, 2, 3, 4, 5} /\ \A i \in DOMAIN g : g[i].rc # 0
  BY DEF Guard
<1>2. /\ g[1].holds = (BadProblem(s, m))
      /\ g[2].holds = (~Known(s.qtype))
      /\ g[3].holds = (ScaleFirstOut(s))
      /\ g[4].holds = (s.group # ForQtype(s.qtype).group)
      /\ g[5].holds = (NoHigh(s))
  BY DEF Guard
<1>3. DenseLowbit(s, m, name) = FirstOf(g, Launched(s, m, name, DenseWorkspace(m, s.n)))
  BY DEF DenseLowbit
<1> HIDE DEF g
<1>4. FirstOf(g, Launched(s, m, name, DenseWorkspace(m, s.n))) = 0 <=>
        Launched(s, m, name, DenseWorkspace(m, s.n)) = 0
        /\ ~g[1].holds /\ ~g[2].holds /\ ~g[3].holds /\ ~g[4].holds /\ ~g[5].holds
  BY <1>1, FirstOfZero
<1> QED BY <1>2, <1>3, <1>4

(* ... ppu_dense_fully_quantized's guards ...                              *)
LEMMA DenseFullyQuantizedRuns ==
  ASSUME NEW s, NEW m, NEW name
  PROVE  DenseFullyQuantized(s, m, name) = 0 <=>
           /\ ~(BadProblem(s, m))
           /\ ~(s.packed < 0)
           /\ ~(~SelectedFullyQuantized(s) \/ NoHigh(s))
           /\ Launched(s, m, name, DenseWorkspace(m, s.n)) = 0
<1> DEFINE g == <<Guard(BadProblem(s, m), 30),
                  Guard(s.packed < 0, 34),
                  Guard(~SelectedFullyQuantized(s) \/ NoHigh(s), 33)>>
<1>1. DOMAIN g = {1, 2, 3} /\ \A i \in DOMAIN g : g[i].rc # 0
  BY DEF Guard
<1>2. /\ g[1].holds = (BadProblem(s, m))
      /\ g[2].holds = (s.packed < 0)
      /\ g[3].holds = (~SelectedFullyQuantized(s) \/ NoHigh(s))
  BY DEF Guard
<1>3. DenseFullyQuantized(s, m, name) = FirstOf(g, Launched(s, m, name, DenseWorkspace(m, s.n)))
  BY DEF DenseFullyQuantized
<1> HIDE DEF g
<1>4. FirstOf(g, Launched(s, m, name, DenseWorkspace(m, s.n))) = 0 <=>
        Launched(s, m, name, DenseWorkspace(m, s.n)) = 0
        /\ ~g[1].holds /\ ~g[2].holds /\ ~g[3].holds
  BY <1>1, FirstOfZero
<1> QED BY <1>2, <1>3, <1>4

(* ... ppu_grouped_lowbit's ...                                            *)
LEMMA GroupedLowbitRuns ==
  ASSUME NEW s, NEW m, NEW name
  PROVE  GroupedLowbit(s, m, name) = 0 <=>
           /\ ~(BadProblem(s, m) \/ s.experts <= 0)
           /\ ~(~Known(s.qtype))
           /\ ~(ScaleFirstOut(s))
           /\ ~(s.group # ForQtype(s.qtype).group \/ NoHigh(s))
           /\ Launched(s, m, name, DenseWorkspace(m, s.n)) = 0
<1> DEFINE g == <<Guard(BadProblem(s, m) \/ s.experts <= 0, 30),
                  Guard(~Known(s.qtype), 33),
                  Guard(ScaleFirstOut(s), 36),
                  Guard(s.group # ForQtype(s.qtype).group \/ NoHigh(s), 32)>>
<1>1. DOMAIN g = {1, 2, 3, 4} /\ \A i \in DOMAIN g : g[i].rc # 0
  BY DEF Guard
<1>2. /\ g[1].holds = (BadProblem(s, m) \/ s.experts <= 0)
      /\ g[2].holds = (~Known(s.qtype))
      /\ g[3].holds = (ScaleFirstOut(s))
      /\ g[4].holds = (s.group # ForQtype(s.qtype).group \/ NoHigh(s))
  BY DEF Guard
<1>3. GroupedLowbit(s, m, name) = FirstOf(g, Launched(s, m, name, DenseWorkspace(m, s.n)))
  BY DEF GroupedLowbit
<1> HIDE DEF g
<1>4. FirstOf(g, Launched(s, m, name, DenseWorkspace(m, s.n))) = 0 <=>
        Launched(s, m, name, DenseWorkspace(m, s.n)) = 0
        /\ ~g[1].holds /\ ~g[2].holds /\ ~g[3].holds /\ ~g[4].holds
  BY <1>1, FirstOfZero
<1> QED BY <1>2, <1>3, <1>4

(* ... ppu_grouped_fully_quantized's ...                                   *)
LEMMA GroupedFullyQuantizedRuns ==
  ASSUME NEW s, NEW m, NEW name
  PROVE  GroupedFullyQuantized(s, m, name) = 0 <=>
           /\ ~(BadProblem(s, m) \/ s.experts <= 0)
           /\ ~(s.packed < 0)
           /\ ~(~SelectedFullyQuantized(s) \/ NoHigh(s))
           /\ Launched(s, m, name, DenseWorkspace(m, s.n)) = 0
<1> DEFINE g == <<Guard(BadProblem(s, m) \/ s.experts <= 0, 30),
                  Guard(s.packed < 0, 34),
                  Guard(~SelectedFullyQuantized(s) \/ NoHigh(s), 33)>>
<1>1. DOMAIN g = {1, 2, 3} /\ \A i \in DOMAIN g : g[i].rc # 0
  BY DEF Guard
<1>2. /\ g[1].holds = (BadProblem(s, m) \/ s.experts <= 0)
      /\ g[2].holds = (s.packed < 0)
      /\ g[3].holds = (~SelectedFullyQuantized(s) \/ NoHigh(s))
  BY DEF Guard
<1>3. GroupedFullyQuantized(s, m, name) = FirstOf(g, Launched(s, m, name, DenseWorkspace(m, s.n)))
  BY DEF GroupedFullyQuantized
<1> HIDE DEF g
<1>4. FirstOf(g, Launched(s, m, name, DenseWorkspace(m, s.n))) = 0 <=>
        Launched(s, m, name, DenseWorkspace(m, s.n)) = 0
        /\ ~g[1].holds /\ ~g[2].holds /\ ~g[3].holds
  BY <1>1, FirstOfZero
<1> QED BY <1>2, <1>3, <1>4

(* ... gemv_lowbit's ...                                                   *)
LEMMA GemvLowbitRuns ==
  ASSUME NEW s, NEW m
  PROVE  GemvLowbit(s, m) = 0 <=>
           /\ ~(~Known(s.qtype))
           /\ ~(NoHigh(s))
           /\ ~(~GemvLaunches(m, s))
<1> DEFINE g == <<Guard(~Known(s.qtype), 6),
                  Guard(NoHigh(s), 41),
                  Guard(~GemvLaunches(m, s), 40)>>
<1>1. DOMAIN g = {1, 2, 3} /\ \A i \in DOMAIN g : g[i].rc # 0
  BY DEF Guard
<1>2. /\ g[1].holds = (~Known(s.qtype))
      /\ g[2].holds = (NoHigh(s))
      /\ g[3].holds = (~GemvLaunches(m, s))
  BY DEF Guard
<1>3. GemvLowbit(s, m) = FirstOf(g, 0)
  BY DEF GemvLowbit
<1> HIDE DEF g
<1>4. FirstOf(g, 0) = 0 <=>
        ~g[1].holds /\ ~g[2].holds /\ ~g[3].holds
  BY <1>1, FirstOfZero
<1> QED BY <1>2, <1>3, <1>4

(* ... vecdot_moe's ...                                                    *)
LEMMA VecdotMoeRuns ==
  ASSUME NEW s, NEW m, NEW most
  PROVE  VecdotMoe(s, m, most) = 0 <=>
           /\ ~(~Known(s.qtype))
           /\ ~(s.n <= 0 \/ s.k \div 256 <= 0 \/ s.experts <= 0 \/ m <= 0 \/ most <= 0)
<1> DEFINE g == <<Guard(~Known(s.qtype), 2),
                  Guard(s.n <= 0 \/ s.k \div 256 <= 0 \/ s.experts <= 0
                        \/ m <= 0 \/ most <= 0, 11)>>
<1>1. DOMAIN g = {1, 2} /\ \A i \in DOMAIN g : g[i].rc # 0
  BY DEF Guard
<1>2. /\ g[1].holds = (~Known(s.qtype))
      /\ g[2].holds = (s.n <= 0 \/ s.k \div 256 <= 0 \/ s.experts <= 0 \/ m <= 0 \/ most <= 0)
  BY DEF Guard
<1>3. VecdotMoe(s, m, most) = FirstOf(g, 0)
  BY DEF VecdotMoe
<1> HIDE DEF g
<1>4. FirstOf(g, 0) = 0 <=>
        ~g[1].holds /\ ~g[2].holds
  BY <1>1, FirstOfZero
<1> QED BY <1>2, <1>3, <1>4

(* ... and, on resident buffers, the dense entry's ...                     *)
LEMMA DenseDeviceRuns ==
  ASSUME NEW s, NEW m, NEW name
  PROVE  DenseFullyQuantizedDevice(s, m, name) = 0 <=>
           /\ ~(WorkspaceBytes(s, m) < 0 \/ held < WorkspaceBytes(s, m))
           /\ ~(NoHigh(s))
           /\ ~(held < DenseWorkspace(m, s.n))
           /\ Launched(s, m, name, held) = 0
<1> DEFINE g == <<Guard(WorkspaceBytes(s, m) < 0 \/ held < WorkspaceBytes(s, m), 30),
                  Guard(NoHigh(s), 33),
                  Guard(held < DenseWorkspace(m, s.n), 37)>>
<1>1. DOMAIN g = {1, 2, 3} /\ \A i \in DOMAIN g : g[i].rc # 0
  BY DEF Guard
<1>2. /\ g[1].holds = (WorkspaceBytes(s, m) < 0 \/ held < WorkspaceBytes(s, m))
      /\ g[2].holds = (NoHigh(s))
      /\ g[3].holds = (held < DenseWorkspace(m, s.n))
  BY DEF Guard
<1>3. DenseFullyQuantizedDevice(s, m, name) = FirstOf(g, Launched(s, m, name, held))
  BY DEF DenseFullyQuantizedDevice
<1> HIDE DEF g
<1>4. FirstOf(g, Launched(s, m, name, held)) = 0 <=>
        Launched(s, m, name, held) = 0 /\ ~g[1].holds /\ ~g[2].holds /\ ~g[3].holds
  BY <1>1, FirstOfZero
<1> QED BY <1>2, <1>3, <1>4

(* ... the grouped low-bit entry's ...                                     *)
LEMMA GroupedLowbitDeviceRuns ==
  ASSUME NEW s, NEW m, NEW most, NEW name
  PROVE  GroupedLowbitDevice(s, m, most, name) = 0 <=>
           /\ ~(\/ m <= 0 \/ WorkspaceBytes(s, most) < 0 \/ held < WorkspaceBytes(s, most)
                  \/ ~LowbitValid(Resolve(s, name), m, s))
           /\ ~(NoHigh(s))
           /\ ~(held < GroupedLayout(most, s.n, s.experts).total)
           /\ Launched(s, m, name, held) = 0
<1> DEFINE g == <<Guard(\/ m <= 0 \/ WorkspaceBytes(s, most) < 0 \/ held < WorkspaceBytes(s, most)
                  \/ ~LowbitValid(Resolve(s, name), m, s), 30),
                  Guard(NoHigh(s), 33),
                  Guard(held < GroupedLayout(most, s.n, s.experts).total, 37)>>
<1>1. DOMAIN g = {1, 2, 3} /\ \A i \in DOMAIN g : g[i].rc # 0
  BY DEF Guard
<1>2. /\ g[1].holds = (\/ m <= 0 \/ WorkspaceBytes(s, most) < 0 \/ held < WorkspaceBytes(s, most)
                  \/ ~LowbitValid(Resolve(s, name), m, s))
      /\ g[2].holds = (NoHigh(s))
      /\ g[3].holds = (held < GroupedLayout(most, s.n, s.experts).total)
  BY DEF Guard
<1>3. GroupedLowbitDevice(s, m, most, name) = FirstOf(g, Launched(s, m, name, held))
  BY DEF GroupedLowbitDevice
<1> HIDE DEF g
<1>4. FirstOf(g, Launched(s, m, name, held)) = 0 <=>
        Launched(s, m, name, held) = 0 /\ ~g[1].holds /\ ~g[2].holds /\ ~g[3].holds
  BY <1>1, FirstOfZero
<1> QED BY <1>2, <1>3, <1>4

(* ... the grouped fully-quantized entry's ...                             *)
LEMMA GroupedDeviceRuns ==
  ASSUME NEW s, NEW m, NEW most, NEW name
  PROVE  GroupedFullyQuantizedDevice(s, m, most, name) = 0 <=>
           /\ ~(m <= 0 \/ WorkspaceBytes(s, most) < 0 \/ held < WorkspaceBytes(s, most))
           /\ ~(NoHigh(s))
           /\ ~(held < GroupedLayout(most, s.n, s.experts).total)
           /\ Launched(s, m, name, held) = 0
<1> DEFINE g == <<Guard(m <= 0 \/ WorkspaceBytes(s, most) < 0
                          \/ held < WorkspaceBytes(s, most), 30),
                  Guard(NoHigh(s), 33),
                  Guard(held < GroupedLayout(most, s.n, s.experts).total, 37)>>
<1>1. DOMAIN g = {1, 2, 3} /\ \A i \in DOMAIN g : g[i].rc # 0
  BY DEF Guard
<1>2. /\ g[1].holds = (m <= 0 \/ WorkspaceBytes(s, most) < 0 \/ held < WorkspaceBytes(s, most))
      /\ g[2].holds = (NoHigh(s))
      /\ g[3].holds = (held < GroupedLayout(most, s.n, s.experts).total)
  BY DEF Guard
<1>3. GroupedFullyQuantizedDevice(s, m, most, name) = FirstOf(g, Launched(s, m, name, held))
  BY DEF GroupedFullyQuantizedDevice
<1> HIDE DEF g
<1>4. FirstOf(g, Launched(s, m, name, held)) = 0 <=>
        Launched(s, m, name, held) = 0 /\ ~g[1].holds /\ ~g[2].holds /\ ~g[3].holds
  BY <1>1, FirstOfZero
<1> QED BY <1>2, <1>3, <1>4

(* ... and the GEMV entry's.                                               *)
LEMMA GemvDeviceRuns ==
  ASSUME NEW s, NEW m, NEW name
  PROVE  GemvLowbitDevice(s, m, name) = 0 <=>
           /\ ~((name # "" /\ name # DenseCuda) \/ ~GemvValid(m, s))
           /\ ~(NoHigh(s))
<1> DEFINE bad == (name # "" /\ name # DenseCuda) \/ ~GemvValid(m, s)
           g == <<Guard(bad, 40), Guard(NoHigh(s), 40)>>
<1>1. GemvLowbitDevice(s, m, name) = FirstOf(g, 0)
  BY DEF GemvLowbitDevice
<1> HIDE DEF bad
<1>2. DOMAIN g = {1, 2} /\ \A i \in DOMAIN g : g[i].rc # 0
  BY DEF Guard
<1>3. g[1].holds = bad /\ g[2].holds = NoHigh(s)
  BY DEF Guard
<1> HIDE DEF g
<1>4. FirstOf(g, 0) = 0 <=>
        ~g[1].holds /\ ~g[2].holds
  BY <1>2, FirstOfZero
<1> QED BY <1>1, <1>3, <1>4 DEF bad
-----------------------------------------------------------------------------
(* Families.                                                               *)

(* The predicate of each family.                                           *)
LEMMA ValidOf ==
  ASSUME NEW s \in Shapes, NEW m, NEW spread, NEW name
  PROVE  Valid(s, m, spread, name) <=>
           /\ name = "" \/ name \in Compiled(s)
           /\ Grouped(s) => GroupedDomain(s, MaxRows(m, s, spread))
           /\ s.family \in {"dense_lowbit", "grouped_lowbit"} => LowbitValid(Resolve(s, name), m, s)
           /\ Packing(s) => FullyQuantizedValid(Resolve(s, name), m, s)
           /\ s.family = "gemv_lowbit" => GemvValid(m, s)
           /\ s.family = "vecdot_moe" => VecdotValid(m, s, MaxRows(m, s, spread))
<1>1. s.family \in Families
  BY DEF Shapes
<1> QED BY <1>1 DEF Valid, Families, Packing

(* The host entry of each family.                                          *)
LEMMA HostEntryOf ==
  ASSUME NEW s, NEW m, NEW most, NEW name
  PROVE  /\ s.family = "dense_lowbit" => HostEntry(s, m, most, name) = DenseLowbit(s, m, name)
         /\ s.family = "dense_fully_quantized" =>
              HostEntry(s, m, most, name) = DenseFullyQuantized(s, m, name)
         /\ s.family = "grouped_lowbit" => HostEntry(s, m, most, name) = GroupedLowbit(s, m, name)
         /\ s.family = "grouped_fully_quantized" =>
              HostEntry(s, m, most, name) = GroupedFullyQuantized(s, m, name)
         /\ s.family = "gemv_lowbit" => HostEntry(s, m, most, name) = GemvLowbit(s, m)
         /\ s.family = "vecdot_moe" => HostEntry(s, m, most, name) = VecdotMoe(s, m, most)
BY DEF HostEntry

(* The device entry of each family that has one.                           *)
LEMMA DeviceEntryOf ==
  ASSUME NEW s, NEW m, NEW most, NEW name
  PROVE  /\ s.family = "dense_fully_quantized" =>
              DeviceEntry(s, m, most, name) = DenseFullyQuantizedDevice(s, m, name)
         /\ s.family = "grouped_lowbit" =>
              DeviceEntry(s, m, most, name) = GroupedLowbitDevice(s, m, most, name)
         /\ s.family = "grouped_fully_quantized" =>
              DeviceEntry(s, m, most, name) = GroupedFullyQuantizedDevice(s, m, most, name)
         /\ s.family = "gemv_lowbit" => DeviceEntry(s, m, most, name) = GemvLowbitDevice(s, m, name)
BY DEF DeviceEntry

(* A positive number of rows leaves one expert at least a row.             *)
LEMMA MaxRowsType ==
  ASSUME NEW s \in Shapes, NEW m \in Int, NEW spread
  PROVE  /\ MaxRows(m, s, spread) \in Int
         /\ s.experts > 0 => (m > 0 <=> MaxRows(m, s, spread) > 0)
<1>1. s.experts \in Int
  BY DEF Shapes
<1>2. CASE spread = "one" \/ s.experts <= 0
  BY <1>1, <1>2 DEF MaxRows
<1>3. CASE ~(spread = "one" \/ s.experts <= 0)
  <2> DEFINE e == s.experts
  <2>1. MaxRows(m, s, spread) = (m + e - 1) \div e /\ e \in Nat \ {0}
    BY <1>1, <1>3 DEF MaxRows, CeilDiv
  <2> HIDE DEF e
  <2>2. (m + e - 1) \div e \in Int
    BY <2>1
  <2>3. CASE m > 0
    <3>1. m \in Nat /\ RoundUp(m, e) >= 1 /\ RoundUp(m, e) \in Nat
      BY <2>1, <2>3, RoundUpType
    <3> QED BY <2>1, <2>3, <3>1 DEF RoundUp
  <2>4. CASE ~(m > 0)
    <3> DEFINE q == (m + e - 1) \div e
    <3>1. e * q <= m + e - 1 /\ q \in Int
      BY <2>1
    <3> HIDE DEF q
    <3>2. ~(q > 0)
      <4>1. q > 0 => e * q >= e
        BY <2>1, <3>1, TimesMono
      <4>2. e * q \in Int
        BY <2>1, <3>1
      <4> QED BY <2>1, <2>4, <3>1, <4>1, <4>2
    <3> QED BY <2>1, <2>4, <3>1, <3>2 DEF q
  <2> QED BY <2>1, <2>2, <2>3, <2>4
<1> QED BY <1>2, <1>3
-----------------------------------------------------------------------------
(* Queries and entries.                                                    *)

(* Problems the predicates answer for: vecdot_moe's takes the group of an  *)
(* unknown qtype to be 0 and admits it, while its entry does not.          *)
Problems == {s \in Shapes : Known(s.qtype) \/ s.group # 0}

(* An unknown qtype has group 0.                                           *)
LEMMA UnknownHasNoGroup ==
  ASSUME NEW q, ~Known(q)
  PROVE  ForQtype(q).group = 0
BY DEF Known, InvalidRow, Row

(* The tensor predicates' domain is the entries' first guard and the group.*)
LEMMA DomainIsGuard ==
  ASSUME NEW s \in Shapes, NEW m \in Int
  PROVE  TensorDomain(m, s) <=> ~BadProblem(s, m) /\ s.group = ForQtype(s.qtype).group
BY DEF TensorDomain, BadProblem, Shapes

(* A launch of a legal problem with the entry's own workspace fits it.     *)
LEMMA OwnWorkspaceFits ==
  ASSUME NEW s \in Shapes, NEW m \in Int, NEW name, ~BadProblem(s, m)
  PROVE  Launched(s, m, name, DenseWorkspace(m, s.n)) = 0 <=> Launches(s, Resolve(s, name))
<1>1. m > 0 /\ s.n > 0
  BY DEF BadProblem, Shapes
<1>2. KernelNeeds(s, Resolve(s, name), m) <= DenseWorkspace(m, s.n)
  <2>1. CASE Grouped(s)
    <3>1. m \in Nat /\ s.n \in Nat
      BY <1>1 DEF Shapes
    <3>2. DenseWorkspace(m, s.n) \in Nat
      BY <3>1, DenseWorkspaceType
    <3> QED BY <2>1, <3>2 DEF KernelNeeds
  <2>2. CASE ~Grouped(s)
    BY <1>1, <2>2, SemaphoresFit
  <2> QED BY <2>1, <2>2
<1> QED BY <1>2 DEF Launched

(* What a predicate admits, the host entry runs.                           *)
LEMMA AdmittedRunsOnHost ==
  ASSUME NEW s \in Problems, NEW m \in Int, NEW spread, NEW name, ~NoHigh(s),
         Valid(s, m, spread, name)
  PROVE  HostEntry(s, m, MaxRows(m, s, spread), name) = 0
<1> DEFINE row == Resolve(s, name)
           most == MaxRows(m, s, spread)
<1>1. s \in Shapes /\ s.family \in Families
  BY DEF Problems, Shapes
<1>2. /\ Grouped(s) => GroupedDomain(s, most)
      /\ s.family \in {"dense_lowbit", "grouped_lowbit"} => LowbitValid(row, m, s)
      /\ Packing(s) => FullyQuantizedValid(row, m, s)
      /\ s.family = "gemv_lowbit" => GemvValid(m, s)
      /\ s.family = "vecdot_moe" => VecdotValid(m, s, most)
  BY <1>1, ValidOf
<1> HIDE DEF row, most
<1>3. TensorDomain(m, s) => ~BadProblem(s, m) /\ s.group = ForQtype(s.qtype).group
                            /\ (Launched(s, m, name, DenseWorkspace(m, s.n)) = 0
                                <=> Launches(s, row))
  BY <1>1, DomainIsGuard, OwnWorkspaceFits DEF row
<1>4. GroupedDomain(s, most) => ~(s.experts <= 0)
  BY <1>1 DEF GroupedDomain, Shapes
<1>5. CASE s.family = "dense_lowbit"
  <2>1. LowbitValid(row, m, s)
    BY <1>2, <1>5
  <2> QED BY <1>3, <1>5, <2>1, DenseLowbitRuns, HostEntryOf DEF LowbitValid
<1>6. CASE s.family = "grouped_lowbit"
  <2>1. LowbitValid(row, m, s) /\ ~(s.experts <= 0)
    BY <1>2, <1>4, <1>6 DEF Grouped
  <2> QED BY <1>3, <1>6, <2>1, GroupedLowbitRuns, HostEntryOf DEF LowbitValid
<1>7. SelectedFullyQuantized(s) => ~(s.packed < 0)
  BY <1>1 DEF SelectedFullyQuantized, SelectedQtype, Shapes
<1>8. CASE s.family = "dense_fully_quantized"
  <2>1. FullyQuantizedValid(row, m, s)
    BY <1>2, <1>8 DEF Packing
  <2> QED BY <1>3, <1>7, <1>8, <2>1, DenseFullyQuantizedRuns, HostEntryOf DEF FullyQuantizedValid
<1>9. CASE s.family = "grouped_fully_quantized"
  <2>1. FullyQuantizedValid(row, m, s) /\ ~(s.experts <= 0)
    BY <1>2, <1>4, <1>9 DEF Packing, Grouped
  <2> QED BY <1>3, <1>7, <1>9, <2>1, GroupedFullyQuantizedRuns, HostEntryOf
      DEF FullyQuantizedValid
<1>10. CASE s.family = "gemv_lowbit"
  BY <1>2, <1>10, GemvLowbitRuns, HostEntryOf DEF GemvValid
<1>11. CASE s.family = "vecdot_moe"
  <2>1. VecdotValid(m, s, most) /\ most \in Int
    BY <1>1, <1>2, <1>11, MaxRowsType DEF most
  <2>2. Known(s.qtype)
    BY <2>1, UnknownHasNoGroup DEF VecdotValid, Problems
  <2>3. s.k \div 256 > 0
    <3>1. s.k \in Nat /\ s.k > 0 /\ s.k % 256 = 0
      BY <1>1, <2>1 DEF VecdotValid, Shapes
    <3> QED BY <3>1
  <2>4. ~(s.n <= 0 \/ s.k \div 256 <= 0 \/ s.experts <= 0 \/ m <= 0 \/ most <= 0)
    BY <1>1, <2>1, <2>3 DEF VecdotValid, Shapes
  <2> QED BY <1>11, <2>2, <2>4, VecdotMoeRuns, HostEntryOf DEF most
<1> QED BY <1>1, <1>5, <1>6, <1>8, <1>9, <1>10, <1>11 DEF Families

(* A legal problem with experts is in the grouped domain.                  *)
LEMMA SomeExpertHasRows ==
  ASSUME NEW s \in Shapes, NEW m \in Int, NEW spread, ~BadProblem(s, m), ~(s.experts <= 0)
  PROVE  GroupedDomain(s, MaxRows(m, s, spread))
<1>1. m > 0 /\ s.experts > 0
  BY DEF BadProblem, Shapes
<1> QED BY <1>1, MaxRowsType DEF GroupedDomain

(* ... and a tensor tactic the host entry ran is one the predicate admits. *)
LEMMA HostRunsTheAdmitted ==
  ASSUME NEW s \in Shapes, NEW m \in Int, NEW spread, NEW name, Tensor(s),
         name \in Compiled(s) \cup {""}, s.group = ForQtype(s.qtype).group,
         HostEntry(s, m, MaxRows(m, s, spread), name) = 0
  PROVE  Valid(s, m, spread, name)
<1> DEFINE row == Resolve(s, name)
           most == MaxRows(m, s, spread)
<1>1. s.family \in Families \ {"gemv_lowbit", "vecdot_moe"}
  BY DEF Shapes, Tensor
<1>2. BadProblem(s, m) \/ (Launched(s, m, name, DenseWorkspace(m, s.n)) = 0 <=> Launches(s, row))
  BY OwnWorkspaceFits
<1>3. BadProblem(s, m) \/ TensorDomain(m, s)
  BY DomainIsGuard
<1>4. ~BadProblem(s, m) /\ ~(s.experts <= 0) => GroupedDomain(s, most)
  BY SomeExpertHasRows
<1> HIDE DEF row, most
<1>11. HostEntry(s, m, most, name) = 0
  BY DEF most
<1>5. CASE s.family = "dense_lowbit"
  <2>1. LowbitValid(row, m, s)
    <3>1. DenseLowbit(s, m, name) = 0
      BY <1>5, HostEntryOf
    <3> QED BY <1>2, <1>3, <3>1, DenseLowbitRuns DEF LowbitValid
  <2> QED BY <1>5, <2>1, ValidOf DEF row, Grouped, Packing
<1>6. CASE s.family = "grouped_lowbit"
  <2>1. GroupedLowbit(s, m, name) = 0
    <3>1. HostEntry(s, m, most, name) = GroupedLowbit(s, m, name)
      BY ZenonT(30), <1>6, HostEntryOf
    <3> QED BY <1>11, <3>1
  <2>2. LowbitValid(row, m, s) /\ ~BadProblem(s, m) /\ ~(s.experts <= 0)
    BY <1>2, <1>3, <2>1, GroupedLowbitRuns DEF LowbitValid
  <2> QED BY <1>4, <1>6, <2>2, ValidOf DEF row, most, Packing
<1>7. CASE s.family = "dense_fully_quantized"
  <2>1. FullyQuantizedValid(row, m, s)
    <3>1. DenseFullyQuantized(s, m, name) = 0
      BY <1>7, HostEntryOf
    <3> QED BY <1>2, <1>3, <3>1, DenseFullyQuantizedRuns DEF FullyQuantizedValid
  <2> QED BY <1>7, <2>1, ValidOf DEF row, Grouped, Packing
<1>8. CASE s.family = "grouped_fully_quantized"
  <2>1. GroupedFullyQuantized(s, m, name) = 0
    <3>1. HostEntry(s, m, most, name) = GroupedFullyQuantized(s, m, name)
      BY ZenonT(30), <1>8, HostEntryOf
    <3> QED BY <1>11, <3>1
  <2>2. FullyQuantizedValid(row, m, s) /\ ~BadProblem(s, m) /\ ~(s.experts <= 0)
    BY <1>2, <1>3, <2>1, GroupedFullyQuantizedRuns DEF FullyQuantizedValid
  <2> QED BY <1>4, <1>8, <2>2, ValidOf DEF row, most, Packing
<1> QED BY <1>1, <1>5, <1>6, <1>7, <1>8 DEF Families
-----------------------------------------------------------------------------
(* The workspace.                                                          *)

(* Aligning moves up, to a multiple of 16.                                 *)
LEMMA Align16Type ==
  ASSUME NEW v \in Nat
  PROVE  /\ Align16(v) \in Nat /\ v <= Align16(v)
         /\ (Align16(v) % 16) = 0 /\ (Align16(v) % 8) = 0 /\ (Align16(v) % 4) = 0
<1> DEFINE q == CeilDiv(v, 16)
<1>1. q \in Nat /\ ~(q * 16 < v)
  <2>1. q = RoundUp(v, 16) /\ 16 \in Nat \ {0}
    BY DEF CeilDiv, RoundUp
  <2>2. RoundUp(v, 16) \in Nat
    BY RoundUpType
  <2> HIDE DEF q
  <2> QED BY <2>1, <2>2, RoundUpCovers
<1>2. Align16(v) = q * 16
  BY DEF Align16
<1> HIDE DEF q
<1>3. (q * 16) % 16 = 0 /\ (q * 16) % 8 = 0 /\ (q * 16) % 4 = 0
  <2>1. q * 16 = 16 * q + 0 /\ q * 16 = 8 * (2 * q) + 0 /\ q * 16 = 4 * (4 * q) + 0
        /\ q \in Int /\ 2 * q \in Int /\ 4 * q \in Int
    BY <1>1
  <2>2. 0 \in 0 .. 15 /\ 0 \in 0 .. 7 /\ 0 \in 0 .. 3
    OBVIOUS
  <2>3. (16 * q + 0) % 16 = 0
    BY <2>1, <2>2, ModUnique
  <2>4. (8 * (2 * q) + 0) % 8 = 0
    BY <2>1, <2>2, ModUnique
  <2>5. (4 * (4 * q) + 0) % 4 = 0
    BY <2>1, <2>2, ModUnique
  <2> QED BY <2>1, <2>3, <2>4, <2>5
<1> QED BY <1>1, <1>2, <1>3

(* The metadata regions and the kernel's own part of a grouped workspace   *)
(* are aligned, apart and inside the bytes the query names, and the part   *)
(* of the kernel holds the prefix of a launch on the host.                 *)
LEMMA LayoutHolds ==
  ASSUME NEW most \in Nat \ {0}, NEW n \in Nat \ {0}, NEW e \in Nat \ {0}
  PROVE  LET l == GroupedLayout(most, n, e)
         IN  /\ l.total \in Nat
             /\ Apart(<<Region(l.shapes, 12 * e, 4), Region(l.outPtrs, 8 * e, 8),
                        Region(l.outStrides, 8 * e, 8), Region(l.rows, 4 * e, 4),
                        Region(l.kernel, l.kernelBytes, 16)>>)
             /\ l.kernel + l.kernelBytes <= l.total
             /\ 4 * (e + 1) <= l.kernelBytes
<1> DEFINE ptrs == Align16(12 * e)
           strides == Align16(ptrs + 8 * e)
           rows == Align16(strides + 8 * e)
           kernel == Align16(rows + 4 * e)
           tiles == CeilDiv(most, 16) * CeilDiv(n, 64)
           bytes == tiles * e * 64
<1>1. /\ ptrs \in Nat /\ 12 * e <= ptrs /\ (ptrs % 8) = 0
  BY Align16Type, 12 * e \in Nat
<1>2. /\ strides \in Nat /\ ptrs + 8 * e <= strides /\ (strides % 8) = 0
  <2> HIDE DEF ptrs
  <2> QED BY <1>1, Align16Type, ptrs + 8 * e \in Nat
<1>3. /\ rows \in Nat /\ strides + 8 * e <= rows /\ (rows % 4) = 0
  <2> HIDE DEF strides
  <2> QED BY <1>2, Align16Type, strides + 8 * e \in Nat
<1>4. /\ kernel \in Nat /\ rows + 4 * e <= kernel /\ (kernel % 16) = 0
  <2> HIDE DEF rows
  <2> QED BY <1>3, Align16Type, rows + 4 * e \in Nat
<1>5. bytes \in Nat /\ 4 * (e + 1) <= bytes
  <2>1. CeilDiv(most, 16) \in Nat \ {0} /\ CeilDiv(n, 64) \in Nat \ {0}
    <3>1. /\ CeilDiv(most, 16) \in Nat /\ (most > 0 => CeilDiv(most, 16) >= 1)
          /\ CeilDiv(n, 64) \in Nat /\ (n > 0 => CeilDiv(n, 64) >= 1)
      BY CeilDivType, 16 \in Nat \ {0}, 64 \in Nat \ {0}
    <3> DEFINE a == CeilDiv(most, 16)
               b == CeilDiv(n, 64)
    <3> HIDE DEF a, b
    <3>2. a \in Nat /\ (most > 0 => a >= 1) /\ b \in Nat /\ (n > 0 => b >= 1)
      BY <3>1 DEF a, b
    <3>3. a \in Nat \ {0} /\ b \in Nat \ {0}
      BY <3>2
    <3> QED BY <3>3 DEF a, b
  <2>2. tiles \in Nat /\ 1 <= tiles
    <3> DEFINE a == CeilDiv(most, 16)
               b == CeilDiv(n, 64)
    <3>1. a \in Nat /\ b \in Nat /\ 1 <= a /\ 1 <= b
      BY <2>1
    <3> HIDE DEF a, b
    <3>2. 1 * 1 <= a * b /\ a * b \in Nat
      BY <3>1, ProductMono
    <3> QED BY <3>2 DEF a, b
  <2> HIDE DEF tiles
  <2>3. 1 * e <= tiles * e /\ tiles * e \in Nat
    BY <2>2, ProductMono
  <2> DEFINE p == tiles * e
  <2> HIDE DEF p
  <2>4. p \in Nat /\ e <= p
    BY <2>3 DEF p
  <2> QED BY <2>4 DEF p
<1>6. GroupedLayout(most, n, e) =
        [shapes |-> 0, outPtrs |-> ptrs, outStrides |-> strides, rows |-> rows,
         kernel |-> kernel, kernelBytes |-> bytes, total |-> kernel + bytes]
  BY DEF GroupedLayout
<1> HIDE DEF ptrs, strides, rows, kernel, bytes
<1>7. Apart(<<Region(0, 12 * e, 4), Region(ptrs, 8 * e, 8), Region(strides, 8 * e, 8),
              Region(rows, 4 * e, 4), Region(kernel, bytes, 16)>>)
  <2> DEFINE r == <<Region(0, 12 * e, 4), Region(ptrs, 8 * e, 8), Region(strides, 8 * e, 8),
                    Region(rows, 4 * e, 4), Region(kernel, bytes, 16)>>
  <2>1. /\ DOMAIN r = 1 .. 5
        /\ r[1] = [at |-> 0, bytes |-> 12 * e, align |-> 4]
        /\ r[2] = [at |-> ptrs, bytes |-> 8 * e, align |-> 8]
        /\ r[3] = [at |-> strides, bytes |-> 8 * e, align |-> 8]
        /\ r[4] = [at |-> rows, bytes |-> 4 * e, align |-> 4]
        /\ r[5] = [at |-> kernel, bytes |-> bytes, align |-> 16]
    BY DEF Region
  <2> HIDE DEF r
  <2>2. \A i \in 1 .. 5 : (r[i].at % r[i].align) = 0
    BY <1>1, <1>2, <1>3, <1>4, <2>1
  <2>3. \A i \in 1 .. 4 : r[i].at + r[i].bytes <= r[i + 1].at
    BY <1>1, <1>2, <1>3, <1>4, <2>1
  <2>4. Apart(r)
    BY <2>1, <2>2, <2>3 DEF Apart
  <2> QED BY <2>4 DEF r
<1>8. kernel + bytes \in Nat /\ kernel + bytes <= kernel + bytes
  BY <1>4, <1>5
<1> QED BY <1>5, <1>6, <1>7, <1>8
-----------------------------------------------------------------------------
(* The entries on resident buffers.                                        *)

(* A query names a number of bytes or refuses with -1.                     *)
LEMMA WorkspaceOf ==
  ASSUME NEW s \in Shapes, NEW m \in Int
  PROVE  /\ WorkspaceBytes(s, m) \in Int
         /\ WorkspaceBytes(s, m) >= 0 /\ s.family = "dense_fully_quantized" =>
              /\ WorkspaceBytes(s, m) = DenseWorkspace(m, s.n)
              /\ ~BadProblem(s, m) /\ SelectedFullyQuantized(s)
         /\ WorkspaceBytes(s, m) >= 0 /\ s.family = "grouped_fully_quantized" =>
              /\ WorkspaceBytes(s, m) = GroupedLayout(m, s.n, s.experts).total
              /\ ~BadProblem(s, m) /\ SelectedFullyQuantized(s) /\ GroupedDomain(s, m)
         /\ WorkspaceBytes(s, m) >= 0 /\ s.family = "grouped_lowbit" =>
              /\ WorkspaceBytes(s, m) = GroupedLayout(m, s.n, s.experts).total
              /\ ~BadProblem(s, m) /\ GroupedDomain(s, m)
         /\ WorkspaceBytes(s, m) >= 0 => Packing(s) \/ s.family = "grouped_lowbit"
<1> DEFINE w == WorkspaceBytes(s, m)
           lay == GroupedLayout(m, s.n, s.experts).total
           Sized == m > 0 /\ s.n > 0 /\ s.n % 256 = 0 /\ s.k > 0 /\ s.k % 256 = 0
<1>1. Sized => ~BadProblem(s, m) /\ m \in Nat \ {0} /\ s.n \in Nat \ {0}
  BY DEF BadProblem, Shapes
<1>2. Sized => DenseWorkspace(m, s.n) \in Nat
  BY <1>1, DenseWorkspaceType
<1>3. Sized /\ s.experts > 0 => lay \in Nat
  <2> SUFFICES ASSUME Sized, s.experts > 0 PROVE lay \in Nat
    OBVIOUS
  <2>1. m \in Nat \ {0} /\ s.n \in Nat \ {0} /\ s.experts \in Nat \ {0}
    BY <1>1 DEF Shapes
  <2> QED BY <2>1, LayoutHolds
<1>4. TensorDomain(m, s) => Sized
  BY DEF TensorDomain
<1>5. CASE s.family = "dense_fully_quantized"
  <2>1. w = IF Sized /\ SelectedFullyQuantized(s) THEN DenseWorkspace(m, s.n) ELSE -1
    BY <1>5 DEF WorkspaceBytes
  <2> HIDE DEF w, Sized
  <2> QED BY <1>1, <1>2, <1>5, <2>1 DEF w, Packing
<1>6. CASE s.family = "grouped_fully_quantized"
  <2>1. w = IF Sized /\ s.experts > 0 /\ SelectedFullyQuantized(s) THEN lay ELSE -1
    BY <1>6 DEF WorkspaceBytes
  <2>2. Sized => m > 0
    OBVIOUS
  <2> HIDE DEF w, Sized
  <2> QED BY <1>1, <1>3, <1>6, <2>1, <2>2 DEF w, Packing, GroupedDomain
<1>7. CASE s.family = "grouped_lowbit"
  <2>1. w = IF GroupedDomain(s, m) /\ LowbitValid(GroupedConfigs[1], m, s) THEN lay ELSE -1
    BY <1>7 DEF WorkspaceBytes
  <2>2. GroupedDomain(s, m) /\ LowbitValid(GroupedConfigs[1], m, s) => Sized /\ s.experts > 0
    BY <1>4 DEF GroupedDomain, LowbitValid
  <2> HIDE DEF w, Sized
  <2> QED BY <1>1, <1>3, <1>7, <2>1, <2>2 DEF w
<1>8. CASE s.family \notin {"dense_fully_quantized", "grouped_fully_quantized", "grouped_lowbit"}
  <2>1. w = -1
    BY <1>8 DEF WorkspaceBytes
  <2> QED BY <1>8, <2>1
<1> QED BY <1>5, <1>6, <1>7, <1>8

(* The buffer an entry is given: sized for at least the rows of the call.  *)
Sufficient(s, m, spread) ==
  \/ s.family = "gemv_lowbit"
  \/ LET most == IF Grouped(s) THEN MaxRows(m, s, spread) ELSE m
     IN  0 <= WorkspaceBytes(s, most) /\ WorkspaceBytes(s, most) <= held

(* What a predicate admits, the device entry runs in a sufficient buffer.  *)
LEMMA AdmittedRunsOnDevice ==
  ASSUME NEW s \in Shapes, NEW m \in Int, NEW spread, NEW name, ~NoHigh(s), held \in Int,
         HasDevice(s), Valid(s, m, spread, name), Sufficient(s, m, spread)
  PROVE  DeviceEntry(s, m, MaxRows(m, s, spread), name) = 0
<1> DEFINE row == Resolve(s, name)
           most == MaxRows(m, s, spread)
<1>1. s.family \in Families \ {"dense_lowbit", "vecdot_moe"}
  BY DEF Shapes, HasDevice
<1>2. /\ name = "" \/ name \in Compiled(s)
      /\ Grouped(s) => GroupedDomain(s, most)
      /\ s.family \in {"dense_lowbit", "grouped_lowbit"} => LowbitValid(row, m, s)
      /\ Packing(s) => FullyQuantizedValid(row, m, s)
      /\ s.family = "gemv_lowbit" => GemvValid(m, s)
  BY ValidOf
<1>3. most \in Int
  BY MaxRowsType
<1> HIDE DEF row, most
<1>4. TensorDomain(m, s) => m > 0 /\ s.n > 0 /\ ~BadProblem(s, m)
  BY DomainIsGuard DEF TensorDomain
<1>5. CASE s.family = "dense_fully_quantized"
  <2> DEFINE w == WorkspaceBytes(s, m)
  <2>1. 0 <= w /\ w <= held /\ w \in Int /\ w = DenseWorkspace(m, s.n)
    BY <1>5, WorkspaceOf DEF Sufficient, Grouped
  <2>2. FullyQuantizedValid(row, m, s)
    BY <1>2, <1>5 DEF Packing
  <2>3. KernelNeeds(s, row, m) <= w /\ KernelNeeds(s, row, m) \in Int
    <3>1. m > 0 /\ s.n > 0 /\ ~Grouped(s)
      BY <1>4, <1>5, <2>2 DEF FullyQuantizedValid, Grouped
    <3>2. /\ KernelNeeds(s, row, m) <= DenseWorkspace(m, s.n)
          /\ KernelNeeds(s, row, m) \in Nat
      BY <3>1, SemaphoresFit DEF row
    <3> QED BY <2>1, <3>2
  <2> HIDE DEF w
  <2>4. KernelNeeds(s, row, m) <= held
    BY <2>1, <2>3
  <2>5. Launched(s, m, name, held) = 0
    BY <2>2, <2>4 DEF Launched, row, FullyQuantizedValid
  <2>6. ~(w < 0 \/ held < w)
    BY <2>1
  <2> QED BY <1>5, <2>1, <2>5, <2>6, DenseDeviceRuns, DeviceEntryOf DEF w
<1>6. CASE s.family \in {"grouped_lowbit", "grouped_fully_quantized"}
  <2> DEFINE w == WorkspaceBytes(s, most)
  <2>1. /\ 0 <= w /\ w <= held /\ w \in Int
        /\ w = GroupedLayout(most, s.n, s.experts).total
    BY <1>3, <1>6, WorkspaceOf DEF Sufficient, Grouped, most
  <2>2. m > 0 /\ Launches(s, row) /\ (s.family = "grouped_lowbit" => LowbitValid(row, m, s))
    BY <1>2, <1>4, <1>6 DEF Packing, LowbitValid, FullyQuantizedValid
  <2> HIDE DEF w
  <2>3. ~(w < 0 \/ held < w) /\ 0 <= held
    BY <2>1
  <2>4. Launched(s, m, name, held) = 0
    BY <1>6, <2>2, <2>3 DEF Launched, row, KernelNeeds, Grouped
  <2>5. ~(m <= 0)
    BY <2>2
  <2>6. CASE s.family = "grouped_lowbit"
    <3>1. ~(m <= 0 \/ w < 0 \/ held < w \/ ~LowbitValid(Resolve(s, name), m, s))
      BY <2>2, <2>3, <2>5, <2>6 DEF row
    <3>2. GroupedLowbitDevice(s, m, most, name) = 0
      BY <2>1, <2>3, <2>4, <3>1, GroupedLowbitDeviceRuns DEF w
    <3> QED BY <2>6, <3>2, DeviceEntryOf DEF most
  <2>7. CASE s.family = "grouped_fully_quantized"
    <3>1. GroupedFullyQuantizedDevice(s, m, most, name) = 0
      BY <2>1, <2>3, <2>4, <2>5, GroupedDeviceRuns DEF w
    <3> QED BY <2>7, <3>1, DeviceEntryOf DEF most
  <2> QED BY <1>6, <2>6, <2>7
<1>7. CASE s.family = "gemv_lowbit"
  <2>1. GemvValid(m, s) /\ (name = "" \/ name = DenseCuda)
    BY <1>2, <1>7 DEF Compiled, Tensor, Grouped
  <2>2. GemvLowbitDevice(s, m, name) = 0
    BY <2>1, GemvDeviceRuns
  <2> QED BY <1>7, <2>2, DeviceEntryOf DEF most
<1> QED BY <1>1, <1>5, <1>6, <1>7 DEF Families

(* ... and a tensor tactic the device entry ran is one the predicate       *)
(* admits.                                                                 *)
LEMMA DeviceRunsTheAdmitted ==
  ASSUME NEW s \in Shapes, NEW m \in Int, NEW spread, NEW name, Tensor(s), HasDevice(s),
         held \in Int
  PROVE  /\ name \in Compiled(s) \cup {""}
         /\ s.group = ForQtype(s.qtype).group
         /\ DeviceEntry(s, m, MaxRows(m, s, spread), name) = 0
         => Valid(s, m, spread, name) /\ Sufficient(s, m, spread)
<1> DEFINE row == Resolve(s, name)
           most == MaxRows(m, s, spread)
<1>1. s.family \in {"dense_fully_quantized", "grouped_lowbit", "grouped_fully_quantized"}
  BY DEF Shapes, Families, Tensor, HasDevice
<1>2. most \in Int
  BY MaxRowsType
<1>3. Launched(s, m, name, held) = 0 => Launches(s, row)
  BY DEF Launched
<1>4. ~BadProblem(s, m) /\ s.group = ForQtype(s.qtype).group => TensorDomain(m, s)
  BY DomainIsGuard
<1>5. ~BadProblem(s, most) /\ m > 0 => ~BadProblem(s, m)
  BY DEF BadProblem, Shapes
<1> HIDE DEF row, most
<1>6. \A w \in Int : ~(w < 0 \/ held < w) => 0 <= w /\ w <= held
  OBVIOUS
<1>7. \A w \in Int : ~(m <= 0 \/ w < 0 \/ held < w) => 0 <= w /\ w <= held /\ m > 0
  OBVIOUS
<1> SUFFICES ASSUME name \in Compiled(s) \cup {""}, s.group = ForQtype(s.qtype).group,
                    DeviceEntry(s, m, MaxRows(m, s, spread), name) = 0
             PROVE  Valid(s, m, spread, name) /\ Sufficient(s, m, spread)
  OBVIOUS
<1>8. CASE s.family = "dense_fully_quantized"
  <2> DEFINE w == WorkspaceBytes(s, m)
  <2>1. DenseFullyQuantizedDevice(s, m, name) = 0
    BY <1>8, DeviceEntryOf
  <2>2. ~(w < 0 \/ held < w) /\ Launches(s, row)
    BY <1>3, <2>1, DenseDeviceRuns
  <2>3. w \in Int /\ (w >= 0 => ~BadProblem(s, m) /\ SelectedFullyQuantized(s))
    BY <1>8, WorkspaceOf
  <2> HIDE DEF w
  <2>4. 0 <= w /\ w <= held /\ w >= 0
    BY <1>6, <2>2, <2>3
  <2>5. FullyQuantizedValid(row, m, s)
    BY <1>4, <2>2, <2>3, <2>4 DEF FullyQuantizedValid
  <2>6. Valid(s, m, spread, name)
    BY <1>8, <2>5, ValidOf DEF row, Grouped, Packing
  <2> QED BY <1>8, <2>4, <2>6 DEF w, Grouped, Sufficient
<1>9. CASE s.family = "grouped_lowbit"
  <2> DEFINE w == WorkspaceBytes(s, most)
  <2>1. GroupedLowbitDevice(s, m, most, name) = 0
    BY <1>9, DeviceEntryOf DEF most
  <2>2. ~(m <= 0 \/ w < 0 \/ held < w \/ ~LowbitValid(row, m, s))
    BY <2>1, GroupedLowbitDeviceRuns DEF row
  <2>3. w \in Int /\ (w >= 0 => GroupedDomain(s, most))
    BY <1>2, <1>9, WorkspaceOf
  <2> HIDE DEF w
  <2>4. 0 <= w /\ w <= held /\ w >= 0
    BY <1>6, <2>2, <2>3
  <2>5. GroupedDomain(s, most) /\ LowbitValid(row, m, s)
    BY <2>2, <2>3, <2>4
  <2>6. Valid(s, m, spread, name)
    BY <1>9, <2>5, ValidOf DEF row, most, Packing
  <2> QED BY <1>9, <2>4, <2>6 DEF w, most, Grouped, Sufficient
<1>10. CASE s.family = "grouped_fully_quantized"
  <2> DEFINE w == WorkspaceBytes(s, most)
  <2>1. GroupedFullyQuantizedDevice(s, m, most, name) = 0
    BY <1>10, DeviceEntryOf DEF most
  <2>2. ~(m <= 0 \/ w < 0 \/ held < w) /\ Launches(s, row)
    BY <1>3, <2>1, GroupedDeviceRuns
  <2>3. /\ w \in Int
        /\ w >= 0 => ~BadProblem(s, most) /\ SelectedFullyQuantized(s) /\ GroupedDomain(s, most)
    BY <1>2, <1>10, WorkspaceOf
  <2> HIDE DEF w
  <2>4. 0 <= w /\ w <= held /\ w >= 0 /\ m > 0
    BY <1>7, <2>2, <2>3
  <2>5. GroupedDomain(s, most) /\ FullyQuantizedValid(row, m, s)
    BY <1>4, <1>5, <2>2, <2>3, <2>4 DEF FullyQuantizedValid
  <2>6. Valid(s, m, spread, name)
    BY <1>10, <2>5, ValidOf DEF row, most, Packing
  <2> QED BY <1>10, <2>4, <2>6 DEF w, most, Grouped, Sufficient
<1> QED BY <1>1, <1>8, <1>9, <1>10
-----------------------------------------------------------------------------
(* The shapes a caller starts from.                                        *)

(* A format's row is one of the registry, or the invalid one.              *)
LEMMA FormatFacts ==
  ASSUME NEW q
  PROVE  /\ ForQtype(q).packed \in Int
         /\ q \in 10 .. 14 => Known(q) /\ ForQtype(q).group \in {16, 32}
<1>1. InvalidRow \notin FormatRows /\ InvalidRow.packed = -1
  BY DEF FormatRows, InvalidRow, Row
<1>2. \A f \in FormatRows : f.packed \in 0 .. 4 /\ f.group \in {16, 32}
  BY DEF FormatRows, Row
<1>3. q \in 10 .. 14 => \E f \in FormatRows : f.qtype = q
  BY DEF FormatRows, Row
<1>4. IF \E f \in FormatRows : f.qtype = q
      THEN ForQtype(q) \in FormatRows ELSE ForQtype(q) = InvalidRow
  BY DEF ForQtype
<1> QED BY <1>1, <1>2, <1>3, <1>4 DEF Known

(* They are problems the predicates answer for.                            *)
LEMMA StartsSound ==
  ASSUME NEW s \in SoundShapes
  PROVE  /\ s \in Problems /\ s.packed \in Builds /\ s.qtype \in 10 .. 14 /\ ~NoHigh(s)
         /\ s.group = ForQtype(s.qtype).group
         /\ DOMAIN s = {"packed", "family", "qtype", "n", "k", "group", "experts", "high"}
<1>1. PICK b \in Builds, f \in Families, q \in 10 .. 14 : s = Sound(b, f, q)
  BY DEF SoundShapes
<1>2. Known(q) /\ ForQtype(q).group \in {16, 32}
  BY FormatFacts
<1>3. b \in Int /\ q \in Int /\ TwoPlane(q) \in BOOLEAN
  BY DEF Builds, TwoPlane
<1> DEFINE g == ForQtype(q).group
           h == TwoPlane(q)
           e == IF f \in {"dense_lowbit", "dense_fully_quantized", "gemv_lowbit"} THEN 0 ELSE 3
<1>4. s = [packed |-> b, family |-> f, qtype |-> q, n |-> 256, k |-> 512, group |-> g,
           experts |-> e, high |-> h]
  BY <1>1 DEF Sound
<1>5. g \in Int /\ e \in Int /\ h \in BOOLEAN
  BY <1>2, <1>3
<1> HIDE DEF g, h, e
<1>6. s \in Shapes
  BY <1>3, <1>4, <1>5 DEF Shapes
<1>7. s.packed = b /\ s.qtype = q /\ s.group = g /\ s.high = h
  BY <1>4
<1> QED BY <1>2, <1>4, <1>6, <1>7 DEF Problems, NoHigh, g, h

(* A wrong field leaves a sound shape a problem.                           *)
LEMMA StartsFromProblems ==
  ASSUME LibInit
  PROVE  shape \in Problems
<1>1. PICK s \in SoundShapes : shape \in Wrong(s) \cup {s}
  BY DEF LibInit
<1>2. s \in Problems /\ s \in Shapes /\ Known(s.qtype) /\ s.group \in {16, 32}
  BY <1>1, StartsSound, FormatFacts DEF Problems
<1> DEFINE n1 == [s EXCEPT !.n = 128]
           k1 == [s EXCEPT !.k = 256]
           k2 == [s EXCEPT !.k = 128]
           g1 == [s EXCEPT !.group = 48 - @]
           q1 == [s EXCEPT !.qtype = 99]
           e1 == [s EXCEPT !.experts = 0]
           h1 == [s EXCEPT !.high = FALSE]
<1>3. /\ {n1, k1, k2, e1, h1} \subseteq Shapes
      /\ \A x \in {n1, k1, k2, e1, h1} : x.qtype = s.qtype
  <2>1. n1 \in Shapes /\ n1.qtype = s.qtype
    BY <1>2 DEF Shapes
  <2>2. k1 \in Shapes /\ k1.qtype = s.qtype
    BY <1>2 DEF Shapes
  <2>3. k2 \in Shapes /\ k2.qtype = s.qtype
    BY <1>2 DEF Shapes
  <2>4. e1 \in Shapes /\ e1.qtype = s.qtype
    BY <1>2 DEF Shapes
  <2>5. h1 \in Shapes /\ h1.qtype = s.qtype
    BY <1>2 DEF Shapes
  <2> HIDE DEF n1, k1, k2, e1, h1
  <2> QED BY <2>1, <2>2, <2>3, <2>4, <2>5
<1>4. q1 \in Shapes /\ q1.group = s.group
  BY <1>2 DEF Shapes
<1>5. g1 \in Shapes /\ g1.qtype = s.qtype
  <2>1. 48 - s.group \in Int
    BY <1>2
  <2> QED BY <1>2, <2>1 DEF Shapes
<1>6. shape \in {s, n1, k1, k2, g1, q1, e1, h1}
  BY <1>1 DEF Wrong
<1> HIDE DEF n1, k1, k2, g1, q1, e1, h1
<1>7. s.group # 0
  BY <1>2
<1> QED BY <1>2, <1>3, <1>4, <1>5, <1>6, <1>7 DEF Problems
-----------------------------------------------------------------------------
(* What an answer promises.                                                *)

(* A name no library compiles runs the default's tactic.                   *)
LEMMA OtherRunsTheDefault ==
  ASSUME NEW s \in Shapes, NEW m, NEW most
  PROVE  HostEntry(s, m, most, "other") = HostEntry(s, m, most, "")
<1>1. Resolve(s, "other") = Resolve(s, "")
  BY ResolveType
<1>2. \A bytes : Launched(s, m, "other", bytes) = Launched(s, m, "", bytes)
  BY <1>1 DEF Launched
<1>3. s.family \in Families
  BY DEF Shapes
<1>4. /\ DenseLowbit(s, m, "other") = DenseLowbit(s, m, "")
      /\ DenseFullyQuantized(s, m, "other") = DenseFullyQuantized(s, m, "")
      /\ GroupedLowbit(s, m, "other") = GroupedLowbit(s, m, "")
      /\ GroupedFullyQuantized(s, m, "other") = GroupedFullyQuantized(s, m, "")
  BY <1>2 DEF DenseLowbit, DenseFullyQuantized, GroupedLowbit, GroupedFullyQuantized
<1> QED BY <1>3, <1>4 DEF HostEntry, Families

(* A GEMV record listed for the dense route runs the dense problem.        *)
LEMMA ListedGemvRuns ==
  ASSUME NEW s \in Problems, NEW m \in Int, NEW spread, NEW name, ~NoHigh(s)
  PROVE  Valid([s EXCEPT !.family = "gemv_lowbit"], m, spread, name) => GemvLowbit(s, m) = 0
<1> DEFINE g == [s EXCEPT !.family = "gemv_lowbit"]
<1>1. /\ g \in Problems /\ g.family = "gemv_lowbit" /\ g.qtype = s.qtype /\ g.high = s.high
      /\ g.n = s.n /\ g.k = s.k /\ g.group = s.group
  BY DEF Problems, Shapes, Families
<1> HIDE DEF g
<1>2. ~NoHigh(g) /\ (GemvLaunches(m, g) <=> GemvLaunches(m, s))
  BY <1>1 DEF NoHigh, GemvLaunches
<1>3. Valid(g, m, spread, name) => GemvValid(m, g) /\ g \in Shapes
  BY <1>1, ValidOf DEF Problems
<1>4. GemvValid(m, g) => Known(s.qtype) /\ GemvLaunches(m, s)
  BY <1>1, <1>2 DEF GemvValid
<1>5. GemvValid(m, g) => GemvLowbit(s, m) = 0
  BY <1>4, GemvLowbitRuns
<1> QED BY <1>3, <1>5 DEF g

(* A grouped host entry that returns 0 had rows, columns and experts.      *)
LEMMA GroupedHostIsSized ==
  ASSUME NEW s \in Shapes, NEW m \in Int, NEW spread, NEW name, Tensor(s), Grouped(s),
         HostEntry(s, m, MaxRows(m, s, spread), name) = 0
  PROVE  /\ MaxRows(m, s, spread) \in Nat \ {0}
         /\ s.n \in Nat \ {0} /\ s.experts \in Nat \ {0}
<1>1. s.family \in {"grouped_lowbit", "grouped_fully_quantized"}
  BY DEF Tensor, Grouped
<1>2. ~BadProblem(s, m) /\ ~(s.experts <= 0)
  BY <1>1, HostEntryOf, GroupedLowbitRuns, GroupedFullyQuantizedRuns
<1>3. \A x \in Int : x > 0 => x \in Nat \ {0}
  OBVIOUS
<1>4. s.n \in Int /\ s.experts \in Int
  BY DEF Shapes
<1>5. s.n > 0 /\ s.experts > 0
  BY <1>2, <1>4 DEF BadProblem
<1>6. GroupedDomain(s, MaxRows(m, s, spread)) /\ MaxRows(m, s, spread) \in Int
  BY <1>2, SomeExpertHasRows, MaxRowsType
<1> QED BY <1>3, <1>4, <1>5, <1>6 DEF GroupedDomain

(* A device entry that returns 0 found its workspace big enough.           *)
LEMMA GroupedDeviceIsSized ==
  ASSUME NEW s \in Shapes, NEW m \in Int, NEW spread, NEW name, Tensor(s), Grouped(s),
         held \in Int, DeviceEntry(s, m, MaxRows(m, s, spread), name) = 0
  PROVE  /\ MaxRows(m, s, spread) \in Nat \ {0}
         /\ s.n \in Nat \ {0} /\ s.experts \in Nat \ {0}
         /\ GroupedLayout(MaxRows(m, s, spread), s.n, s.experts).total <= held
<1> DEFINE most == MaxRows(m, s, spread)
           w == WorkspaceBytes(s, most)
<1>1. s.family \in {"grouped_lowbit", "grouped_fully_quantized"}
  BY DEF Tensor, Grouped
<1>2. most \in Int
  BY MaxRowsType
<1>3. /\ w \in Int
      /\ w >= 0 => /\ w = GroupedLayout(most, s.n, s.experts).total
                   /\ ~BadProblem(s, most) /\ GroupedDomain(s, most)
  BY <1>1, <1>2, WorkspaceOf
<1>4. ~(w < 0 \/ held < w)
  BY <1>1, DeviceEntryOf, GroupedLowbitDeviceRuns, GroupedDeviceRuns
<1> HIDE DEF w
<1>5. \A x, y \in Int : ~(x < 0 \/ y < x) => x >= 0 /\ x <= y
  OBVIOUS
<1>6. w >= 0 /\ w <= held
  BY <1>3, <1>4, <1>5
<1>7. \A x \in Int : (x > 0 => x \in Nat \ {0}) /\ (~(x <= 0) => x \in Nat \ {0})
  OBVIOUS
<1>8. s.n \in Int /\ s.experts \in Int
  BY DEF Shapes
<1>9. s.n \in Nat \ {0}
  BY <1>3, <1>6, <1>7, <1>8 DEF BadProblem
<1> QED BY <1>2, <1>3, <1>6, <1>7, <1>8, <1>9 DEF GroupedDomain, most

(* A dense one found room for its tactic's semaphores.                     *)
LEMMA DenseDeviceHolds ==
  ASSUME NEW s \in Shapes, NEW m \in Int, NEW most, NEW name, Tensor(s), ~Grouped(s),
         HasDevice(s), DeviceEntry(s, m, most, name) = 0
  PROVE  KernelNeeds(s, Resolve(s, name), m) <= held
<1>1. s.family = "dense_fully_quantized"
  BY DEF Shapes, Families, Tensor, Grouped, HasDevice
<1>2. Launched(s, m, name, held) = 0
  BY <1>1, DeviceEntryOf, DenseDeviceRuns
<1> QED BY <1>2 DEF Launched
-----------------------------------------------------------------------------
(* The caller's invariant: the problem is one the predicates answer for,   *)
(* and the last answer is the one the entry gives of that problem with the *)
(* workspace the caller holds.                                             *)
HostAnswer(m, spread, name) ==
  /\ held < 0
  /\ call = Answer("host", m, spread, name, HostEntry(shape, m, MaxRows(m, shape, spread), name))
DeviceAnswer(m, spread, name) ==
  /\ HasDevice(shape)
  /\ call = Answer("device", m, spread, name,
                   DeviceEntry(shape, m, MaxRows(m, shape, spread), name))
LibInv ==
  /\ shape \in Problems /\ held \in Int
  /\ call # NoCall =>
       \E m \in Rows, spread \in Spreads, name \in Names :
         HostAnswer(m, spread, name) \/ DeviceAnswer(m, spread, name)

(* It holds of the caller's initial states ...                             *)
LEMMA LibInvInit ==
  ASSUME Init
  PROVE  LibInv
BY StartsFromProblems DEF Init, LibInit, LibInv

(* ... and after every step of the caller, or of the tuner.                *)
LEMMA LibInvNext ==
  ASSUME LibInv, [Next]_<<libVars, cacheVars>>
  PROVE  LibInv'
<1>1. CASE UNCHANGED <<libVars, cacheVars>>
  <2>1. shape' = shape /\ held' = held /\ call' = call
    BY <1>1 DEF libVars
  <2>2. ASSUME NEW m \in Rows, NEW spread \in Spreads, NEW name \in Names
        PROVE  (HostAnswer(m, spread, name) => HostAnswer(m, spread, name)')
               /\ (DeviceAnswer(m, spread, name) => DeviceAnswer(m, spread, name)')
    BY <2>1 DEF HostAnswer, DeviceAnswer, Answer, DeviceEntry,
       DenseFullyQuantizedDevice, GroupedLowbitDevice, GroupedFullyQuantizedDevice
  <2> QED BY <2>1, <2>2 DEF LibInv
<1>2. ASSUME NEW m \in Rows, Reserve(m) PROVE LibInv'
  <2>1. WorkspaceBytes(shape, m) \in Int
    BY EntriesAssumption, WorkspaceOf DEF LibInv, Problems
  <2> QED BY <1>2, <2>1 DEF Reserve, LibInv
<1>3. ASSUME NEW m \in Rows, NEW spread \in Spreads, NEW name \in Names, call = NoCall,
             EnterHost(m, spread, name)
      PROVE  LibInv'
  <2>1. HostAnswer(m, spread, name)'
    BY <1>3 DEF EnterHost, HostAnswer, Answer
  <2> QED BY <1>3, <2>1 DEF EnterHost, LibInv
<1>4. ASSUME NEW m \in Rows, NEW spread \in Spreads, NEW name \in Names, call = NoCall,
             EnterDevice(m, spread, name)
      PROVE  LibInv'
  <2>1. DeviceAnswer(m, spread, name)'
    BY <1>4 DEF EnterDevice, DeviceAnswer, Answer, DeviceEntry,
       DenseFullyQuantizedDevice, GroupedLowbitDevice, GroupedFullyQuantizedDevice
  <2> QED BY <1>4, <2>1 DEF EnterDevice, LibInv
<1>5. CASE Return
  BY <1>5 DEF Return, LibInv
<1>6. CASE CacheNext /\ held = -1 /\ call = NoCall /\ UNCHANGED <<held, call>>
  <2>1. shape' \in Problems
    <3>1. CASE Rebuild
      <4>1. PICK build \in OwnBuilds(shape.qtype) : shape' = [shape EXCEPT !.packed = build]
        BY <3>1 DEF Rebuild
      <4>2. build \in Int
        BY FormatFacts DEF OwnBuilds
      <4> QED BY <4>1, <4>2 DEF LibInv, Problems, Shapes
    <3>2. CASE ~Rebuild
      <4>1. shape' = shape
        BY <1>6, <3>2 DEF CacheNext, LoadInventory, Sweep, Validate, Write, Sync, Replace,
           FailAndUnlink, Kill, PowerLoss
      <4> QED BY <4>1 DEF LibInv
    <3> QED BY <3>1, <3>2
  <2> QED BY <1>6, <2>1 DEF LibInv
<1> QED BY <1>1, <1>2, <1>3, <1>4, <1>5, <1>6 DEF Next, LibNext

(* The invariant holds of every state.                                     *)
THEOREM EntriesCorrect == Spec => []LibInv
<1>1. Init => LibInv
  BY LibInvInit
<1>2. LibInv /\ [Next]_<<libVars, cacheVars>> => LibInv'
  BY LibInvNext
<1> QED BY <1>1, <1>2, PTL DEF Spec

(* The predicates and the filtered lists answer for the entries            *)
(* (ppu_dense_backend.cu, ppu_backend.cu): for every problem, every number *)
(* of rows and spread, what is admitted is launched in any buffer sized    *)
(* for at least these rows, a tensor tactic that launched is admitted, and *)
(* a name no library compiles gets the default's verdict.                  *)
THEOREM QueriesAgree == Spec => []QueryAndEntryAgree
<1>1. ASSUME LibInv, call # NoCall, ~NoHigh(shape),
             NEW m \in Rows, NEW spread \in Spreads, NEW name \in Names,
             HostAnswer(m, spread, name) \/ DeviceAnswer(m, spread, name)
      PROVE  /\ call.said /\ Buffered(call) => call.rc = 0
             /\ call.listed => call.said \/ (call.name = DenseCuda /\ GemvLowbit(shape, call.m) = 0)
             /\ /\ call.rc = 0 /\ Tensor(shape) /\ call.name \in Compiled(shape) \cup {""}
                /\ shape.group = ForQtype(shape.qtype).group
                => call.said
             /\ call.name = "other" /\ call.how = "host" /\ Valid(shape, call.m, call.spread, "")
                => call.rc = 0
  <2> DEFINE most == MaxRows(m, shape, spread)
             host == HostEntry(shape, m, most, name)
             device == DeviceEntry(shape, m, most, name)
  <2>1. m \in Int /\ held \in Int /\ shape \in Problems /\ shape \in Shapes
    BY <1>1, EntriesAssumption DEF LibInv, Problems
  <2>2. /\ call.m = m /\ call.spread = spread /\ call.name = name
        /\ call.said = Valid(shape, m, spread, name)
        /\ call.listed = Listed(shape, m, spread, name)
        /\ \/ call.how = "host" /\ call.rc = host
           \/ call.how = "device" /\ call.rc = device /\ HasDevice(shape)
    BY <1>1 DEF HostAnswer, DeviceAnswer, Answer
  <2>3. Valid(shape, m, spread, name) => host = 0
    BY <1>1, <2>1, AdmittedRunsOnHost
  <2>4. Valid(shape, m, spread, name) /\ HasDevice(shape) /\ Sufficient(shape, m, spread)
        => device = 0
    BY <1>1, <2>1, AdmittedRunsOnDevice
  <2>5. Tensor(shape) /\ name \in Compiled(shape) \cup {""}
        /\ shape.group = ForQtype(shape.qtype).group /\ host = 0
        => Valid(shape, m, spread, name)
    BY <2>1, HostRunsTheAdmitted
  <2>6. Tensor(shape) /\ name \in Compiled(shape) \cup {""} /\ HasDevice(shape)
        /\ shape.group = ForQtype(shape.qtype).group /\ device = 0
        => Valid(shape, m, spread, name)
    BY <2>1, DeviceRunsTheAdmitted
  <2>7. Listed(shape, m, spread, name) =>
          Valid(shape, m, spread, name) \/ (name = DenseCuda /\ GemvLowbit(shape, m) = 0)
    BY <1>1, <2>1, ListedGemvRuns DEF Listed
  <2>8. Valid(shape, m, spread, "") => HostEntry(shape, m, most, "other") = 0
    BY <1>1, <2>1, AdmittedRunsOnHost, OtherRunsTheDefault
  <2>9. Buffered(call) => call.how = "host" \/ Sufficient(shape, m, spread)
    BY <2>2 DEF Buffered, Sufficient
  <2> HIDE DEF host, device
  <2>10. call.said /\ Buffered(call) => call.rc = 0
    BY <2>2, <2>3, <2>4, <2>9
  <2>11. call.listed => call.said \/ (call.name = DenseCuda /\ GemvLowbit(shape, call.m) = 0)
    BY <2>2, <2>7
  <2>12. /\ call.rc = 0 /\ Tensor(shape) /\ call.name \in Compiled(shape) \cup {""}
         /\ shape.group = ForQtype(shape.qtype).group
         => call.said
    BY <2>2, <2>5, <2>6
  <2>13. call.name = "other" /\ call.how = "host" /\ Valid(shape, call.m, call.spread, "")
         => call.rc = 0
    BY <2>2, <2>8 DEF host
  <2> QED BY <2>10, <2>11, <2>12, <2>13
<1>2. LibInv => QueryAndEntryAgree
  BY <1>1 DEF LibInv, QueryAndEntryAgree
<1> QED BY <1>2, EntriesCorrect, PTL

(* The workspace of an accepted call (ppu_dense_backend.cu) holds what the *)
(* launch puts in it: the semaphores of its tactic, or the grouped regions *)
(* each aligned, apart and inside it, for any number of rows and experts.  *)
THEOREM WorkspacesHold == Spec => []WorkspaceHolds
<1>1. ASSUME LibInv, call # NoCall, call.rc = 0, Tensor(shape),
             NEW m \in Rows, NEW spread \in Spreads, NEW name \in Names,
             HostAnswer(m, spread, name) \/ DeviceAnswer(m, spread, name)
      PROVE  WorkspaceHolds
  <2> DEFINE most == MaxRows(m, shape, spread)
  <2>1. m \in Int /\ held \in Int /\ shape \in Shapes
    BY <1>1, EntriesAssumption DEF LibInv, Problems
  <2>2. /\ call.m = m /\ call.spread = spread /\ call.name = name
        /\ \/ held < 0 /\ HostEntry(shape, m, most, name) = 0
           \/ HasDevice(shape) /\ DeviceEntry(shape, m, most, name) = 0
    BY <1>1 DEF HostAnswer, DeviceAnswer, Answer
  <2>3. held < 0 => ~(held >= 0)
    BY <2>1
  <2>4. CASE ~Grouped(shape)
    <3>1. held >= 0 => KernelNeeds(shape, Resolve(shape, name), m) <= held
      BY <1>1, <2>1, <2>2, <2>3, <2>4, DenseDeviceHolds
    <3> QED BY <2>2, <2>4, <3>1 DEF WorkspaceHolds
  <2>5. CASE Grouped(shape)
    <3> DEFINE e == shape.experts
               l == GroupedLayout(most, shape.n, e)
               Sized == /\ most \in Nat \ {0} /\ shape.n \in Nat \ {0} /\ e \in Nat \ {0}
                        /\ held >= 0 => l.total <= held
    <3>1. ASSUME held < 0, HostEntry(shape, m, most, name) = 0 PROVE Sized
      <4>1. most \in Nat \ {0} /\ shape.n \in Nat \ {0} /\ e \in Nat \ {0}
        BY <1>1, <2>1, <2>5, <3>1, GroupedHostIsSized
      <4> QED BY <2>3, <3>1, <4>1
    <3>2. ASSUME HasDevice(shape), DeviceEntry(shape, m, most, name) = 0 PROVE Sized
      <4>1. most \in Nat \ {0} /\ shape.n \in Nat \ {0} /\ e \in Nat \ {0} /\ l.total <= held
        BY <1>1, <2>1, <2>5, <3>2, GroupedDeviceIsSized
      <4> QED BY <4>1
    <3>3. Sized
      BY <2>2, <3>1, <3>2
    <3>4. /\ Apart(<<Region(l.shapes, 12 * e, 4), Region(l.outPtrs, 8 * e, 8),
                     Region(l.outStrides, 8 * e, 8), Region(l.rows, 4 * e, 4),
                     Region(l.kernel, l.kernelBytes, 16)>>)
          /\ l.kernel + l.kernelBytes <= l.total /\ 4 * (e + 1) <= l.kernelBytes
      BY <3>3, LayoutHolds
    <3> QED BY <2>2, <2>5, <3>3, <3>4 DEF WorkspaceHolds
  <2> QED BY <2>4, <2>5
<1>2. LibInv => WorkspaceHolds
  <2>1. call = NoCall \/ ~(call.rc = 0 /\ Tensor(shape)) => WorkspaceHolds
    BY DEF WorkspaceHolds
  <2> QED BY <1>1, <2>1 DEF LibInv
<1> QED BY <1>2, EntriesCorrect, PTL
-----------------------------------------------------------------------------
(* The winners of a bucket.                                                *)

(* A positive number of rows, and no other, has a positive bucket.         *)
LEMMA BucketType ==
  ASSUME NEW m \in Int
  PROVE  /\ MBucket(m) \in Nat /\ (m > 0 <=> MBucket(m) > 0)
         /\ m = 1 => MBucket(m) = 1
<1> DEFINE below == {b \in Powers : b <= m}
<1>1. Powers \subseteq Nat \ {0} /\ 1 \in Powers
  BY DEF Powers
<1>2. MBucket(m) = IF m <= 0 THEN 0 ELSE Max(below)
  BY DEF MBucket
<1>3. below \subseteq Nat \ {0} /\ (m > 0 => 1 \in below) /\ \A b \in below : b <= m
  <2>1. below \subseteq Nat \ {0} /\ \A b \in below : b <= m
    BY <1>1
  <2>2. m > 0 => 1 <= m
    OBVIOUS
  <2>3. m > 0 => 1 \in below
    BY <1>1, <2>2
  <2> QED BY <2>1, <2>3
<1> HIDE DEF below
<1>4. m > 0 => Max(below) \in below
  <2> SUFFICES ASSUME m > 0 PROVE Max(below) \in below
    OBVIOUS
  <2>1. below \subseteq Nat /\ below # {} /\ m \in Nat
    BY <1>3
  <2> QED BY <1>3, <2>1, MaxIsGreatest
<1>5. m > 0 => Max(below) \in Nat \ {0} /\ Max(below) <= m
  BY <1>3, <1>4
<1> QED BY <1>2, <1>5

(* One launch of the CUDA route takes so many rows ...                     *)
BelowCeiling(s, n) == s.family = "gemv_lowbit" => n <= CtaMMax * 4096

(* ... and runs up to there what it runs at all.                           *)
LEMMA GemvBelowCeiling ==
  ASSUME NEW s, NEW m \in Int, NEW n \in Int, s.family = "gemv_lowbit"
  PROVE  GemvValid(m, s) /\ n > 0 /\ BelowCeiling(s, n) => GemvValid(n, s)
<1>1. GemvLaunches(m, s) /\ n > 0 /\ n <= CtaMMax * 4096 => GemvLaunches(n, s)
  BY DEF GemvLaunches
<1>2. GemvValid(m, s) /\ GemvLaunches(n, s) => GemvValid(n, s)
  BY DEF GemvValid
<1>3. GemvValid(m, s) => GemvLaunches(m, s)
  BY DEF GemvValid
<1> QED BY <1>1, <1>2, <1>3 DEF BelowCeiling

(* A predicate asks of the rows that there are some and, for the CUDA      *)
(* route, that one launch takes them all.                                  *)
LEMMA ValidForTheBucket ==
  ASSUME NEW s \in Shapes, NEW m \in Int, NEW n \in Int, NEW spread, NEW other, NEW name,
         Valid(s, m, spread, name), n > 0, BelowCeiling(s, n)
  PROVE  Valid(s, n, other, name)
<1> DEFINE row == Resolve(s, name)
           most == MaxRows(m, s, spread)
           moreMost == MaxRows(n, s, other)
<1>1. /\ name = "" \/ name \in Compiled(s)
      /\ Grouped(s) => GroupedDomain(s, most)
      /\ s.family \in {"dense_lowbit", "grouped_lowbit"} => LowbitValid(row, m, s)
      /\ Packing(s) => FullyQuantizedValid(row, m, s)
      /\ s.family = "gemv_lowbit" => GemvValid(m, s)
      /\ s.family = "vecdot_moe" => VecdotValid(m, s, most)
  BY ValidOf
<1>2. s.experts > 0 => moreMost > 0
  BY MaxRowsType
<1> HIDE DEF row, most, moreMost
<1>3. Grouped(s) => GroupedDomain(s, moreMost)
  BY <1>1, <1>2 DEF GroupedDomain
<1>4. LowbitValid(row, m, s) => LowbitValid(row, n, s)
  BY DEF LowbitValid, TensorDomain
<1>5. FullyQuantizedValid(row, m, s) => FullyQuantizedValid(row, n, s)
  BY DEF FullyQuantizedValid, TensorDomain
<1>6. s.family = "gemv_lowbit" => GemvValid(n, s)
  BY <1>1, GemvBelowCeiling
<1>7. VecdotValid(m, s, most) => VecdotValid(n, s, moreMost)
  BY <1>2 DEF VecdotValid
<1>8. /\ s.family \in {"dense_lowbit", "grouped_lowbit"} => LowbitValid(row, n, s)
      /\ Packing(s) => FullyQuantizedValid(row, n, s)
      /\ s.family = "vecdot_moe" => VecdotValid(n, s, moreMost)
  BY <1>1, <1>4, <1>5, <1>7
<1> QED BY <1>1, <1>3, <1>6, <1>8, ValidOf DEF row, moreMost

(* A shape the tuner is run for, whatever build is at the library's path.  *)
TunableShape(s) == s \in Problems /\ s.family \in Routes /\ ~NoHigh(s)

(* Every GEMV bucket read is one whose rows a single launch takes.         *)
BucketsBelowCeiling ==
  \A m \in Measured, n \in AllRows : MBucket(n) = MBucket(m) => n <= CtaMMax * 4096

(* An entry of the file: the build asked admits its config for the rows    *)
(* it was measured at, all of them one expert's.                           *)
GoodEntry(s, e) ==
  \E m \in Int : /\ MBucket(m) = e.bucket /\ WinnerValid(s, m, e.config)
                 /\ e.config = CudaName(s) => m \in Measured

(* Such an entry runs for every number of rows of its bucket.              *)
LEMMA GoodEntryRuns ==
  ASSUME BucketsBelowCeiling, NEW s, TunableShape(s), NEW e, GoodEntry(s, e),
         NEW n \in AllRows, NEW spread, MBucket(n) = e.bucket
  PROVE  LET a == Asked(s, e.config)
             rows == Assignments(a, n)
         IN  /\ HostEntry(a, rows, MaxRows(rows, a, spread), e.config) = 0
             /\ e.config = CudaName(s) => CudaRoute(s)
<1> DEFINE a == Asked(s, e.config)
           rows == Assignments(a, n)
<1>1. PICK m \in Int : /\ MBucket(m) = e.bucket /\ WinnerValid(s, m, e.config)
                       /\ e.config = CudaName(s) => m \in Measured
  BY DEF GoodEntry
<1>2. n \in Int
  BY CacheAssumption
<1>3. a \in Problems /\ a \in Shapes /\ ~NoHigh(a) /\ (Grouped(a) <=> Grouped(s))
      /\ (a.family = "gemv_lowbit" => e.config = CudaName(s) /\ ~Grouped(s))
  <2>1. CASE e.config = CudaName(s)
    <3> DEFINE f == IF Grouped(s) THEN "vecdot_moe" ELSE "gemv_lowbit"
    <3>1. a = [s EXCEPT !.family = f] /\ f \in Families
      BY <2>1 DEF Asked, Families
    <3>2. s \in Problems /\ s \in Shapes /\ ~NoHigh(s)
      BY DEF TunableShape, Problems
    <3>3. a \in Shapes /\ a.qtype = s.qtype /\ a.group = s.group /\ a.high = s.high /\ a.family = f
      BY <3>1, <3>2 DEF Shapes
    <3> QED BY <2>1, <3>2, <3>3 DEF Problems, NoHigh, Grouped
  <2>2. CASE e.config # CudaName(s)
    BY <2>2 DEF Asked, TunableShape, Problems, Routes
  <2> QED BY <2>1, <2>2
<1>4. Valid(a, Assignments(s, m), "one", e.config)
  BY <1>1 DEF WinnerValid
<1>5. Assignments(s, m) \in Int /\ rows \in Int /\ (n > 0 => rows > 0)
      /\ (~Grouped(s) => rows = n)
  BY <1>1, <1>2, <1>3 DEF Assignments, TopK
<1>6. m > 0
  <2> DEFINE r == Assignments(s, m)
  <2>1. r > 0 => m > 0
    BY <1>1 DEF Assignments, TopK
  <2>2. r > 0
    <3> HIDE DEF a, r
    <3>1. /\ a.family \in {"dense_lowbit", "grouped_lowbit"} => LowbitValid(Resolve(a, e.config), r, a)
          /\ Packing(a) => FullyQuantizedValid(Resolve(a, e.config), r, a)
          /\ a.family = "gemv_lowbit" => GemvValid(r, a)
          /\ a.family = "vecdot_moe" => VecdotValid(r, a, MaxRows(r, a, "one"))
      BY <1>3, <1>4, ValidOf DEF r
    <3>2. a.family \in Families
      BY <1>3 DEF Shapes
    <3> QED BY <3>1, <3>2 DEF LowbitValid, FullyQuantizedValid, TensorDomain, GemvValid,
        GemvLaunches, VecdotValid, Packing, Families
  <2> QED BY <2>1, <2>2
<1>7. n > 0
  BY <1>1, <1>2, <1>6, BucketType
<1>8. BelowCeiling(a, rows)
  BY <1>1, <1>3, <1>5 DEF BucketsBelowCeiling, BelowCeiling
<1> HIDE DEF a, rows
<1>9. Valid(a, rows, spread, e.config)
  BY <1>3, <1>4, <1>5, <1>7, <1>8, ValidForTheBucket
<1>10. HostEntry(a, rows, MaxRows(rows, a, spread), e.config) = 0
  BY <1>3, <1>5, <1>9, AdmittedRunsOnHost
<1> QED BY <1>1, <1>10 DEF a, rows, WinnerValid
-----------------------------------------------------------------------------
(* The tuner's invariant: from the write on its winners are valid for the  *)
(* build it asked, the temporary file holds them from the sync on, and     *)
(* the cache file, absent or whole, holds entries of one tuner's run.      *)
Built(s, build) == [s EXCEPT !.packed = build]
TunerInv ==
  /\ tuner = [step |-> tuner.step, won |-> tuner.won, asked |-> tuner.asked]
  /\ tuner.asked \in Int /\ file.asked \in Int
  /\ Tuning \/ file.entries # {} => TunableShape(shape)
WinnersInv ==
  /\ tuner.step \in {"write", "sync", "replace"} =>
       \A m \in Resolved(tuner.won) :
         WinnerValid(Built(shape, tuner.asked), m, tuner.won[m])
  /\ tuner.step = "sync" =>
       temp = Contents("unsynced", Entries(tuner.won), tuner.asked, temp.elf)
  /\ tuner.step = "replace" =>
       temp = Contents("whole", Entries(tuner.won), tuner.asked, temp.elf)
FileInv ==
  /\ file.is \in {"absent", "whole"}
  /\ \A e \in file.entries : GoodEntry(Built(shape, file.asked), e)
CacheInv == TunerInv /\ WinnersInv /\ FileInv

(* A shape stays tunable whatever its build.                               *)
LEMMA BuiltType ==
  ASSUME NEW s, TunableShape(s), NEW b \in Int, NEW c \in Int
  PROVE  /\ TunableShape(Built(s, b)) /\ Built(Built(s, b), c) = Built(s, c)
         /\ CudaName(Built(s, b)) = CudaName(s) /\ (CudaRoute(Built(s, b)) <=> CudaRoute(s))
         /\ Built(s, s.packed) = s /\ s.packed \in Int
<1>1. s \in Problems /\ s \in Shapes /\ s.family \in Routes /\ ~NoHigh(s)
  BY DEF TunableShape, Problems
<1>2. /\ Built(s, b) \in Shapes /\ Built(s, b).family = s.family
      /\ Built(s, b).qtype = s.qtype /\ Built(s, b).group = s.group /\ Built(s, b).high = s.high
  BY <1>1 DEF Built, Shapes
<1>3. TunableShape(Built(s, b))
  BY <1>1, <1>2 DEF TunableShape, Problems, NoHigh
<1>4. Built(Built(s, b), c) = Built(s, c) /\ Built(s, s.packed) = s /\ s.packed \in Int
  BY <1>1 DEF Built, Shapes
<1> QED BY <1>2, <1>3, <1>4 DEF CudaName, CudaRoute, Grouped

(* The tuner is run for such shapes.                                       *)
LEMMA TunableType ==
  ASSUME NEW s, Tunable(s)
  PROVE  TunableShape(s)
BY StartsSound DEF Tunable, TunableShape

(* The default's name asks for what no name asks for.                      *)
LEMMA DefaultByName ==
  ASSUME NEW s \in Shapes, s.family \in Routes, NEW m \in Int, NEW spread
  PROVE  /\ Valid(s, m, spread, "") => Valid(s, m, spread, Configs(s)[1].name)
         /\ Configs(s)[1].name # CudaName(s)
<1> DEFINE C == Configs(s)
           d == C[1].name
           at == {i \in DOMAIN C : C[i].name = d}
<1>1. /\ DOMAIN C = 1 .. 5
      /\ \A i \in 1 .. 5 : C[i].name \notin {"", "other", DenseCuda, GroupedCuda}
  BY ConfigFacts
<1>2. Tensor(s)
  BY DEF Routes, Tensor
<1>3. Compiled(s) = {C[i].name : i \in DOMAIN C} /\ CudaName(s) \in {DenseCuda, GroupedCuda}
  BY <1>2 DEF Compiled, CudaName
<1>4. Resolve(s, d) = C[IF at = {} THEN 1 ELSE Min(at)]
  BY DEF Resolve
<1> HIDE DEF C
<1>5. 1 \in 1 .. 5 /\ d = C[1].name
  OBVIOUS
<1>6. d \notin {"", "other", DenseCuda, GroupedCuda}
  BY <1>1, <1>5
<1>7. d \in Compiled(s) /\ d # CudaName(s)
  BY <1>1, <1>3, <1>5, <1>6
<1>8. at # {} /\ at \subseteq 1 .. 5 /\ 1 \in at
  BY <1>1, <1>5
<1> HIDE DEF at
<1>9. Min(at) = 1
  <2>1. at \subseteq Nat
    BY <1>8
  <2>2. Min(at) \in at /\ \A y \in at : Min(at) <= y
    BY <1>8, <2>1, MinIsLeast
  <2>3. Min(at) \in 1 .. 5 /\ Min(at) <= 1
    BY <1>8, <2>2
  <2> QED BY <2>3
<1> HIDE DEF d
<1>10. Resolve(s, d) = Resolve(s, "")
  BY <1>4, <1>8, <1>9, ResolveType DEF C
<1>11. Valid(s, m, spread, "") => Valid(s, m, spread, d)
  BY <1>7, <1>10, ValidOf
<1> QED BY <1>7, <1>11 DEF C, d

(* It holds with no file, or with one an earlier tuner left ...            *)
LEMMA CacheInvInit ==
  ASSUME Init
  PROVE  CacheInv
<1>0. 1 \in Int
  OBVIOUS
<1>1. tuner = Idle /\ tuner.step = "off" /\ tuner.asked = -2 /\ ~Tuning
  BY DEF Init, CacheInit, Idle, NoBuild, Tuning
<1>2. tuner = [step |-> tuner.step, won |-> tuner.won, asked |-> tuner.asked] /\ WinnersInv
  BY <1>1 DEF Idle, WinnersInv
<1>3. CASE file = NoFile
  <2>1. file.is = "absent" /\ file.entries = {} /\ file.asked = -2
    BY <1>3 DEF NoFile, NoBuild
  <2> QED BY <1>1, <1>2, <2>1 DEF CacheInv, TunerInv, FileInv
<1>4. CASE file # NoFile
  <2> DEFINE first == [bucket |-> 1, config |-> Configs(shape)[1].name]
  <2>1. /\ Tunable(shape) /\ Valid(shape, 1, "one", "")
        /\ file = Contents("whole", {first}, shape.packed, shape.packed)
    BY <1>4 DEF Init, CacheInit
  <2>2. TunableShape(shape) /\ shape \in Shapes /\ shape.family \in Routes
    BY <2>1, TunableType DEF TunableShape, Problems
  <2>3. Built(shape, shape.packed) = shape /\ shape.packed \in Int
    BY <2>2, BuiltType
  <2>4. GoodEntry(shape, first)
    <3> DEFINE d == Configs(shape)[1].name
               rows == Assignments(shape, 1)
    <3>1. rows \in Int /\ rows > 0
      BY DEF Assignments, TopK
    <3>2. BelowCeiling(shape, rows)
      BY <2>2 DEF BelowCeiling, Routes
    <3> HIDE DEF rows
    <3>3. Valid(shape, rows, "one", "")
      BY <1>0, <2>1, <2>2, <3>1, <3>2, ValidForTheBucket
    <3>4. Valid(shape, rows, "one", d) /\ d # CudaName(shape)
      BY <2>2, <3>1, <3>3, DefaultByName
    <3> HIDE DEF d
    <3>5. WinnerValid(shape, 1, d)
      BY <3>4 DEF WinnerValid, Asked, rows
    <3>6. MBucket(1) = 1
      BY BucketType
    <3>7. first.bucket = 1 /\ first.config = d
      BY DEF d
    <3> HIDE DEF first
    <3> QED BY <3>4, <3>5, <3>6, <3>7 DEF GoodEntry
  <2>5. file.is = "whole" /\ file.entries = {first} /\ file.asked = shape.packed
    BY <2>1 DEF Contents
  <2> HIDE DEF first
  <2> QED BY <1>1, <1>2, <2>2, <2>3, <2>4, <2>5 DEF CacheInv, TunerInv, FileInv
<1> QED BY <1>3, <1>4

(* ... and after every step, a kill, a power loss or a rebuild.            *)
LEMMA CacheInvNext ==
  ASSUME CacheInv, [Next]_<<libVars, cacheVars>>
  PROVE  CacheInv'
<1> DEFINE Rec(t) == t = [step |-> t.step, won |-> t.won, asked |-> t.asked]
<1>1. /\ Rec(tuner) /\ tuner.asked \in Int /\ file.asked \in Int
      /\ Tuning \/ file.entries # {} => TunableShape(shape)
      /\ file.is \in {"absent", "whole"}
      /\ \A e \in file.entries : GoodEntry(Built(shape, file.asked), e)
  BY DEF CacheInv, TunerInv, FileInv
<1>2. Tuning => TunableShape(shape) /\ shape.packed \in Int
  BY <1>1, BuiltType
<1>3. CASE UNCHANGED <<shape, tuner, temp, file>>
  BY <1>3 DEF CacheInv, TunerInv, WinnersInv, FileInv, Tuning
<1>4. CASE LoadInventory
  <2>1. /\ tuner' = [step |-> "sweep", won |-> tuner.won, asked |-> shape.packed]
        /\ Tunable(shape) /\ UNCHANGED <<temp, file, shape>>
    BY <1>1, <1>4 DEF LoadInventory
  <2>2. TunableShape(shape) /\ shape.packed \in Int
    BY <1>1, <2>1, TunableType, BuiltType
  <2> QED BY <1>1, <2>1, <2>2 DEF CacheInv, TunerInv, WinnersInv, FileInv
<1>5. CASE Sweep
  <2>1. Tuning /\ UNCHANGED <<temp, file, shape>>
    BY <1>5 DEF Sweep, Tuning
  <2>2. Rec(tuner') /\ tuner'.step \in {"done", "validate"} /\ tuner'.asked = tuner.asked
    <3> DEFINE Kept(won) == [m \in Measured |->
                               IF won[m] \in Inventory(shape) THEN won[m] ELSE None]
               Step(kept) == IF Disagree(kept) THEN "done" ELSE "validate"
    <3>1. PICK won : tuner' = [tuner EXCEPT !.won = Kept(won), !.step = Step(Kept(won))]
      BY <1>5 DEF Sweep
    <3>2. Step(Kept(won)) \in {"done", "validate"}
      OBVIOUS
    <3> HIDE DEF Kept, Step
    <3>3. tuner' = [step |-> Step(Kept(won)), won |-> Kept(won), asked |-> tuner.asked]
      BY <1>1, <3>1
    <3> QED BY <3>2, <3>3
  <2> QED BY <1>1, <1>2, <2>1, <2>2 DEF CacheInv, TunerInv, WinnersInv, FileInv
<1>6. CASE Validate
  <2>1. PICK build \in {tuner.asked, shape.packed} :
          LET step == IF \A m \in Resolved(tuner.won) :
                              WinnerValid(Built(shape, build), m, tuner.won[m])
                      THEN "write" ELSE "done"
          IN  tuner' = [step |-> step, won |-> tuner.won, asked |-> build]
    BY <1>1, <1>6 DEF Validate, Built
  <2>2. Tuning /\ UNCHANGED <<temp, file, shape>>
    BY <1>6 DEF Validate, Tuning
  <2>3. build \in Int
    BY <1>1, <1>2, <2>2
  <2> QED BY <1>1, <1>2, <2>1, <2>2, <2>3 DEF CacheInv, TunerInv, WinnersInv, FileInv
<1>7. CASE Write
  <2>1. /\ tuner' = [step |-> "sync", won |-> tuner.won, asked |-> tuner.asked]
        /\ temp' = Contents("unsynced", Entries(tuner.won), tuner.asked, shape.packed)
        /\ Tuning /\ tuner.step = "write" /\ UNCHANGED <<file, shape>>
    BY <1>1, <1>7 DEF Write, Tuning
  <2>2. temp'.elf = shape.packed
    BY <2>1 DEF Contents
  <2> QED BY <1>1, <1>2, <2>1, <2>2 DEF CacheInv, TunerInv, WinnersInv, FileInv
<1>8. CASE Sync
  <2>1. /\ tuner' = [step |-> "replace", won |-> tuner.won, asked |-> tuner.asked]
        /\ temp = Contents("unsynced", Entries(tuner.won), tuner.asked, temp.elf)
        /\ temp' = [temp EXCEPT !.is = "whole"]
        /\ Tuning /\ tuner.step = "sync" /\ UNCHANGED <<file, shape>>
    BY <1>1, <1>8 DEF Sync, Tuning, CacheInv, WinnersInv
  <2>2. temp' = Contents("whole", Entries(tuner.won), tuner.asked, temp.elf)
        /\ temp'.elf = temp.elf
    BY <2>1 DEF Contents
  <2> QED BY <1>1, <1>2, <2>1, <2>2 DEF CacheInv, TunerInv, WinnersInv, FileInv
<1>9. CASE Replace
  <2>1. /\ tuner' = [step |-> "done", won |-> tuner.won, asked |-> tuner.asked]
        /\ file' = Contents("whole", Entries(tuner.won), tuner.asked, temp.elf)
        /\ Tuning /\ UNCHANGED shape
        /\ \A m \in Resolved(tuner.won) :
             WinnerValid(Built(shape, tuner.asked), m, tuner.won[m])
    BY <1>1, <1>9 DEF Replace, Tuning, CacheInv, WinnersInv
  <2>2. /\ file'.is = "whole" /\ file'.asked = tuner.asked
        /\ file'.entries = Entries(tuner.won)
    BY <2>1 DEF Contents
  <2>3. ASSUME NEW e \in Entries(tuner.won)
        PROVE  GoodEntry(Built(shape, tuner.asked), e)
    <3>1. PICK m \in Resolved(tuner.won) : e = [bucket |-> MBucket(m), config |-> tuner.won[m]]
      BY DEF Entries
    <3>2. m \in Measured /\ m \in Int
      BY CacheAssumption DEF Resolved
    <3>3. e.bucket = MBucket(m) /\ e.config = tuner.won[m]
      BY <3>1
    <3> QED BY <2>1, <3>2, <3>3 DEF GoodEntry
  <2> QED BY <1>1, <1>2, <2>1, <2>2, <2>3 DEF CacheInv, TunerInv, WinnersInv, FileInv
<1>10. CASE FailAndUnlink \/ Kill
  <2>1. /\ tuner' = [step |-> "done", won |-> tuner.won, asked |-> tuner.asked]
        /\ Tuning /\ UNCHANGED <<file, shape>>
    BY <1>1, <1>10 DEF FailAndUnlink, Kill, Tuning
  <2> QED BY <1>1, <1>2, <2>1 DEF CacheInv, TunerInv, WinnersInv, FileInv
<1>11. CASE PowerLoss
  <2>1. /\ tuner' = [step |-> "done", won |-> tuner.won, asked |-> tuner.asked]
        /\ UNCHANGED <<file, shape>>
    BY <1>1, <1>11 DEF PowerLoss, Surviving
  <2> QED BY <1>1, <2>1 DEF CacheInv, TunerInv, WinnersInv, FileInv, Tuning
<1>12. CASE Rebuild
  <2>1. PICK build \in OwnBuilds(shape.qtype) : shape' = Built(shape, build)
    BY <1>12 DEF Rebuild, Built
  <2>2. UNCHANGED <<tuner, temp, file>> /\ Tuning
    BY <1>12 DEF Rebuild, cacheVars
  <2>3. build \in Int /\ TunableShape(shape)
    BY <1>2, <2>2, FormatFacts DEF OwnBuilds
  <2>4. /\ TunableShape(shape')
        /\ Built(shape', tuner.asked) = Built(shape, tuner.asked)
        /\ Built(shape', file.asked) = Built(shape, file.asked)
    BY <1>1, <2>1, <2>3, BuiltType
  <2> QED BY <1>1, <2>2, <2>4 DEF CacheInv, TunerInv, WinnersInv, FileInv, Tuning
<1>13. CASE LibNext /\ UNCHANGED cacheVars
  <2>1. UNCHANGED <<shape, tuner, temp, file>>
    BY <1>13 DEF LibNext, Reserve, EnterHost, EnterDevice, Return, cacheVars
  <2> QED BY <1>3, <2>1
<1>14. CASE UNCHANGED <<libVars, cacheVars>>
  BY <1>3, <1>14 DEF libVars, cacheVars
<1> QED BY <1>4, <1>5, <1>6, <1>7, <1>8, <1>9, <1>10, <1>11, <1>12, <1>13, <1>14
    DEF Next, CacheNext

(* The cache file (tools/tune.py): whatever is killed, powered off or      *)
(* rebuilt, it is never torn, and the build that was asked for a winner    *)
(* runs it for every number of rows of its bucket, however a grouped       *)
(* problem's rows fall.                                                    *)
THEOREM CacheIsUsable ==
  ASSUME BucketsBelowCeiling
  PROVE  Spec => []CachedWinnersRun
<1>1. Init => CacheInv
  BY CacheInvInit
<1>2. CacheInv /\ [Next]_<<libVars, cacheVars>> => CacheInv'
  BY CacheInvNext
<1>3. CacheInv => CachedWinnersRun
  <2> SUFFICES ASSUME CacheInv PROVE CachedWinnersRun
    OBVIOUS
  <2>1. file.is # "torn"
    BY DEF CacheInv, FileInv
  <2>2. ASSUME NEW e \in file.entries
        PROVE  /\ TunableShape(Built(shape, file.asked)) /\ GoodEntry(Built(shape, file.asked), e)
               /\ CudaName(Built(shape, file.asked)) = CudaName(shape)
               /\ CudaRoute(Built(shape, file.asked)) <=> CudaRoute(shape)
    BY BuiltType DEF CacheInv, TunerInv, FileInv
  <2>3. ASSUME NEW e \in file.entries, NEW n \in AllRows, NEW spread, MBucket(n) = e.bucket
        PROVE  LET s == Asked(Built(shape, file.asked), e.config)
                   rows == Assignments(s, n)
               IN  HostEntry(s, rows, MaxRows(rows, s, spread), e.config) = 0
    BY <2>2, <2>3, GoodEntryRuns
  <2>4. ASSUME NEW e \in file.entries, e.config = CudaName(shape)
        PROVE  CudaRoute(shape)
    BY <2>2, <2>4 DEF GoodEntry, WinnerValid
  <2> QED BY <2>1, <2>3, <2>4 DEF CachedWinnersRun, Built
<1> QED BY <1>1, <1>2, <1>3, PTL DEF Spec
=============================================================================
