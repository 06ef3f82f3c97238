------------------------ MODULE PoseEstimatorProofs ------------------------
(***************************************************************************)
(* The safety properties of PoseEstimator and its refinement of            *)
(* PoseLifecycle, proved for every configuration, every saturation limit   *)
(* and every elapsed time.                                                 *)
(*                                                                         *)
(* Good is the inductive invariant of the estimator: besides the two       *)
(* invariants it says that a tracked pose is never marked unseeded, that a *)
(* row of rejected fixes is kept while tracking only, and that the rest of *)
(* a lost robot is younger than its last accepted fix.                     *)
(*                                                                         *)
(* The last section is what StandingReseeds rests on: a number, Patience,  *)
(* that no tick of a standing robot and no fix at rest raises, and that    *)
(* each of the kind the estimator waits for lowers, until it is 0 and the  *)
(* estimator SEEDING.                                                      *)
(***************************************************************************)
EXTENDS PoseEstimator, WellFoundedInduction, TLAPS

Good(e) ==
  /\ e \in Estimator
  /\ e.status = "TRACKING" =>
       e.ticks_since_accept <= conf.timeout_ticks /\ ~e.unseeded
  /\ e.status # "SEEDING" /\ ~e.unseeded => e.pose = "solved"
  /\ e.status # "TRACKING" => e.kidnap_count = 0
  /\ e.kidnap_count = 0 \/ e.kidnap_count < conf.kidnap_fixes
  /\ e.status = "LOST" /\ e.rest_count > 0 => e.rest_ticks <= e.ticks_since_accept

IInv == Good(est) /\ misses \in 0 .. MaxCount /\ est.kidnap_count <= misses

----------------------------------------------------------------------------
\* Arithmetic

LEMMA Counts ==
  /\ MaxCount \in Nat /\ MaxCount >= 1 /\ MaxCount >= conf.kidnap_fixes
  /\ conf.kidnap_fixes \in Nat /\ conf.timeout_ticks \in Nat
  /\ conf.acquire \in Nat /\ conf.kidnap_settle_ticks \in Nat
  /\ \A n \in 0 .. MaxCount : /\ Count(n) \in 0 .. MaxCount
                              /\ Count(n) >= 1 /\ Count(n) >= n
                              /\ \A k \in 0 .. MaxCount : k <= n + 1 => k <= Count(n)
BY ConfAssumption DEF MaxCount, Count

LEMMA Zeros ==
  /\ 0 \in 0 .. MaxCount /\ 1 \in 0 .. MaxCount
  /\ 0 \in 0 .. MaxTicks /\ 0 \in 0 .. conf.acquire
BY Counts, TicksAssumption

\* A saturated sum stays in range and keeps the order of two counters
LEMMA Sums ==
  ASSUME NEW t \in 0 .. MaxTicks, NEW n \in Elapsed
  PROVE /\ Saturated(t, n) \in 0 .. MaxTicks
        /\ \A u \in 0 .. MaxTicks : u <= t => Saturated(u, n) <= Saturated(t, n)
BY TicksAssumption DEF Saturated

----------------------------------------------------------------------------
\* The ways to a status

LEMMA SolvedGood ==
  ASSUME NEW e \in Estimator
  PROVE /\ Good(Solved(e))
        /\ Solved(e).status = "TRACKING" /\ ~Solved(e).unseeded
        /\ Solved(e).kidnap_count = 0
<1> DEFINE s == Solved(e)
<1>1. s \in Estimator BY Zeros DEF Solved, Estimator
<1>2. /\ s.status = "TRACKING" /\ s.unseeded = FALSE /\ s.kidnap_count = 0
      /\ s.pose = "solved" /\ s.ticks_since_accept = 0
  BY DEF Solved, Estimator
<1> HIDE DEF s
<1>3. Good(s) BY <1>1, <1>2, Counts DEF Good
<1> QED BY <1>2, <1>3 DEF s

LEMMA LoseGood ==
  ASSUME NEW e \in Estimator
  PROVE /\ Lose(e) \in Estimator
        /\ Lose(e).status = "LOST" /\ Lose(e).unseeded = e.unseeded
        /\ Lose(e).kidnap_count = 0 /\ Lose(e).rest_count = 0
        /\ Lose(e).pose = e.pose
        /\ Lose(e).ticks_since_accept = e.ticks_since_accept
        /\ Lose(e).still_ticks = e.still_ticks
<1>1. Lose(e) \in Estimator BY Zeros DEF Lose, Estimator
<1> QED BY <1>1 DEF Lose, Estimator

LEMMA FreeSpinGood ==
  ASSUME NEW e \in Estimator
  PROVE /\ Good(FreeSpin(e))
        /\ FreeSpin(e).status = "LOST" /\ FreeSpin(e).unseeded
        /\ FreeSpin(e).kidnap_count = 0
<1> DEFINE l == Lose(e)
           f == [l EXCEPT !.unseeded = TRUE]
<1>1. /\ l \in Estimator /\ l.status = "LOST" /\ l.kidnap_count = 0
      /\ l.rest_count = 0
  BY LoseGood
<1>2. FreeSpin(e) = f BY DEF FreeSpin
<1> HIDE DEF l
<1>3. f \in Estimator BY <1>1 DEF Estimator
<1>4. /\ f.status = "LOST" /\ f.kidnap_count = 0 /\ f.rest_count = 0
      /\ f.unseeded = TRUE
  BY <1>1 DEF Estimator
<1> HIDE DEF f
<1>5. Good(f) BY <1>3, <1>4, Counts DEF Good
<1> QED BY <1>2, <1>4, <1>5

\* Back to SEEDING, with the row that led there
LEMMA ReseededGood ==
  ASSUME NEW e \in Estimator, NEW n \in 0 .. MaxCount
  PROVE LET r == Reseeded(e, n)
        IN /\ r \in Estimator
           /\ r.status = "SEEDING" /\ r.unseeded = e.unseeded
           /\ r.kidnap_count = e.kidnap_count /\ r.rest_ticks = e.rest_ticks
           /\ r.still_ticks = e.still_ticks
<1> DEFINE p == IF e.pose = "none" THEN e.pose ELSE "stale"
           r == [e EXCEPT !.status = "SEEDING", !.chain_count = n,
                          !.free_spin_odo = 0, !.pose = p]
<1>1. p \in {"none", "stale"} BY DEF Estimator
<1>2. Reseeded(e, n) = r BY DEF Reseeded
<1> HIDE DEF p
<1>3. r \in Estimator BY <1>1, Zeros DEF Estimator
<1>4. /\ r.status = "SEEDING" /\ r.unseeded = e.unseeded
      /\ r.kidnap_count = e.kidnap_count /\ r.rest_ticks = e.rest_ticks
      /\ r.still_ticks = e.still_ticks
  BY DEF Estimator
<1> QED BY <1>2, <1>3, <1>4

----------------------------------------------------------------------------
\* _chain_add

\* e with another chain or another free_spin_odo
Chained(e, c) ==
  /\ c \in Estimator
  /\ c.status = e.status /\ c.unseeded = e.unseeded /\ c.pose = e.pose
  /\ c.ticks_since_accept = e.ticks_since_accept
  /\ c.kidnap_count = e.kidnap_count
  /\ c.rest_count = e.rest_count /\ c.rest_ticks = e.rest_ticks
  /\ c.still_ticks = e.still_ticks

LEMMA ChainedGood ==
  ASSUME NEW e, Good(e), NEW c, Chained(e, c)
  PROVE Good(c)
BY DEF Good, Chained

\* It adds to the chain, solves the pose, or takes a free spin of a robot SEEDING
LEMMA ChainAddGood ==
  ASSUME NEW e, Good(e), e.status # "TRACKING", NEW fix \in Fix
  PROVE \/ Chained(e, ChainAdd(e, fix))
        \/ /\ Good(ChainAdd(e, fix)) /\ ChainAdd(e, fix).kidnap_count = 0
           /\ \/ ChainAdd(e, fix).status = "TRACKING"
              \/ /\ e.status = "SEEDING"
                 /\ ChainAdd(e, fix).status = "LOST" /\ ChainAdd(e, fix).unseeded
<1>0. e \in Estimator BY DEF Good
<1>1. ASSUME NEW d \in 0 .. conf.acquire
      PROVE /\ Chained(e, ChainStart([e EXCEPT !.free_spin_odo = d]))
            /\ Chained(e, ChainStart(e))
  <2> DEFINE f == [e EXCEPT !.free_spin_odo = d]
  <2>1. f \in Estimator BY <1>0 DEF Estimator
  <2>2. Chained(e, f) BY <1>0, <2>1 DEF Chained, Estimator
  <2> HIDE DEF f
  <2>3. \A g \in Estimator : Chained(g, ChainStart(g))
    <3>1. SUFFICES ASSUME NEW g \in Estimator PROVE Chained(g, ChainStart(g))
      OBVIOUS
    <3>2. ChainStart(g) \in Estimator BY Zeros DEF ChainStart, Estimator
    <3> QED BY <3>2 DEF Chained, ChainStart, Estimator
  <2>4. Chained(e, ChainStart(f)) BY <2>1, <2>2, <2>3 DEF Chained
  <2> QED BY <1>0, <2>3, <2>4 DEF f
<1>2. fix.travel \in 0 .. conf.acquire /\ e.free_spin_odo \in 0 .. conf.acquire
      /\ 0 \in 0 .. conf.acquire
  BY <1>0, Counts DEF Fix, Estimator
<1>3. CASE e.chain_count = 0
  BY <1>1, <1>2, <1>3 DEF ChainAdd
<1>4. CASE e.chain_count # 0 /\ ~fix.consistent
  <2>1. ChainAdd(e, fix) = ChainBroken(e, fix) BY <1>4 DEF ChainAdd
  <2>2. CASE e.status = "SEEDING" /\ conf.free_spin /\ fix.still
    <3>1. CASE e.free_spin_odo + fix.travel >= conf.acquire
      BY <1>0, <2>1, <2>2, <3>1, FreeSpinGood DEF ChainBroken
    <3>2. CASE ~(e.free_spin_odo + fix.travel >= conf.acquire)
      <4>1. e.free_spin_odo + fix.travel \in 0 .. conf.acquire
        BY <1>2, <3>2, Counts
      <4> QED BY <1>1, <2>1, <2>2, <3>2, <4>1 DEF ChainBroken
    <3> QED BY <3>1, <3>2
  <2>3. CASE ~(e.status = "SEEDING" /\ conf.free_spin /\ fix.still)
    BY <1>1, <1>2, <2>1, <2>3 DEF ChainBroken
  <2> QED BY <2>2, <2>3
<1>5. CASE e.chain_count # 0 /\ fix.consistent
  <2> DEFINE d == IF conf.free_spin /\ fix.still THEN e.free_spin_odo ELSE 0
             c == [e EXCEPT !.chain_count = Count(e.chain_count), !.free_spin_odo = d]
  <2>1. d \in 0 .. conf.acquire BY <1>2
  <2>2. Count(e.chain_count) \in 0 .. MaxCount BY <1>0, Counts DEF Estimator
  <2>3. ChainAdd(e, fix) =
          IF c.chain_count < conf.seed_fixes \/ fix.travel < conf.acquire THEN c
          ELSE Solved(c)
    BY <1>5 DEF ChainAdd, ChainGrows
  <2> HIDE DEF d
  <2>4. c \in Estimator BY <1>0, <2>1, <2>2 DEF Estimator
  <2>5. Chained(e, c) BY <1>0, <2>4 DEF Chained, Estimator
  <2> HIDE DEF c
  <2> QED BY <2>3, <2>4, <2>5, SolvedGood
<1> QED BY <1>3, <1>4, <1>5

----------------------------------------------------------------------------
\* The updates

\* A fix inside the gate; it also finds a lost robot again
LEMMA AcceptedGood ==
  ASSUME NEW e, Good(e), e.status # "SEEDING", ~e.unseeded
  PROVE Good(Accepted(e)) /\ Accepted(e).status = "TRACKING"
        /\ Accepted(e).kidnap_count = 0
<1> DEFINE a == Accepted(e)
<1>0. e \in Estimator /\ e.pose = "solved" BY DEF Good
<1>1. a \in Estimator BY <1>0, Zeros DEF Accepted, Estimator
<1>2. /\ a.status = "TRACKING" /\ a.unseeded = e.unseeded /\ a.pose = "solved"
      /\ a.kidnap_count = 0 /\ a.ticks_since_accept = 0
  BY <1>0 DEF Accepted, Estimator
<1> HIDE DEF a
<1>3. Good(a) BY <1>1, <1>2, Counts DEF Good
<1> QED BY <1>2, <1>3 DEF a

\* A rejected fix while tracking: the row grows by at most this fix, or the pose
\* goes, with a row of kidnap_fixes
LEMMA KidnapGood ==
  ASSUME NEW e, Good(e), e.status = "TRACKING", NEW fix \in Fix
  PROVE LET k == KidnapCheck(e, fix)
        IN /\ Good(k)
           /\ k.kidnap_count = 0 \/ k.kidnap_count = 1
              \/ k.kidnap_count <= e.kidnap_count + 1
           /\ k.status \in {"TRACKING", "SEEDING"}
           /\ k.status = "SEEDING" =>
                /\ k.kidnap_count = 0
                /\ conf.kidnap_fixes > 0
                /\ conf.kidnap_fixes <= e.kidnap_count + 1
<1>0. e \in Estimator /\ ~e.unseeded BY DEF Good
<1> DEFINE settled == e.still_ticks >= conf.kidnap_settle_ticks
           k == KidnapCounted(e, fix)
<1>1. CASE conf.kidnap_fixes = 0
  <2>1. KidnapCheck(e, fix) = e BY <1>1 DEF KidnapCheck
  <2>2. e.kidnap_count \in Nat BY <1>0, Counts DEF Estimator
  <2> QED BY <2>1, <2>2
<1>2. CASE conf.kidnap_fixes > 0
  <2>1. settled \in BOOLEAN OBVIOUS
  <2>2. \/ k = [e EXCEPT !.kidnap_count = 1, !.kidnap_travelled = FALSE,
                         !.kidnap_settled = settled]
        \/ k = [e EXCEPT !.kidnap_count = e.kidnap_count + 1]
    BY DEF KidnapCounted
  <2> HIDE DEF settled
  <2>3. /\ e.kidnap_count \in 0 .. MaxCount
        /\ e.kidnap_count = 0 \/ e.kidnap_count < conf.kidnap_fixes
    BY <1>0 DEF Good, Estimator
  <2>4. e.kidnap_count + 1 \in 0 .. MaxCount BY <1>2, <2>3, Counts
  <2>5. KidnapCheck(e, fix) =
          IF k.kidnap_count < conf.kidnap_fixes THEN k
          ELSE IF ~k.kidnap_settled /\ conf.reanchor /\ fix.close THEN Reanchored(k)
          ELSE [Reseeded(k, k.kidnap_count) EXCEPT !.kidnap_count = 0]
    BY <1>2 DEF KidnapCheck
  <2>6. /\ k \in Estimator
        /\ k.status = "TRACKING" /\ k.unseeded = FALSE /\ k.pose = e.pose
        /\ k.ticks_since_accept = e.ticks_since_accept
        /\ k.kidnap_count \in {1, e.kidnap_count + 1}
    <3>1. CASE k = [e EXCEPT !.kidnap_count = 1, !.kidnap_travelled = FALSE,
                             !.kidnap_settled = settled]
      <4>1. k \in Estimator BY <1>0, <2>1, <3>1, Zeros DEF Estimator
      <4> QED BY <1>0, <3>1, <4>1 DEF Estimator
    <3>2. CASE k = [e EXCEPT !.kidnap_count = e.kidnap_count + 1]
      <4>1. k \in Estimator BY <1>0, <2>4, <3>2 DEF Estimator
      <4> QED BY <1>0, <3>2, <4>1 DEF Estimator
    <3> QED BY <2>2, <3>1, <3>2
  <2> HIDE DEF k
  <2>7. CASE k.kidnap_count < conf.kidnap_fixes
    <3>1. Good(k) BY <2>6, <2>7 DEF Good
    <3> QED BY <2>3, <2>5, <2>6, <2>7, <3>1
  <2>8. CASE ~(k.kidnap_count < conf.kidnap_fixes)
    <3>1. CASE ~k.kidnap_settled /\ conf.reanchor /\ fix.close
      <4> DEFINE r == Reanchored(k)
      <4>1. KidnapCheck(e, fix) = r BY <2>5, <2>8, <3>1
      <4>2. r \in Estimator BY <2>6, Zeros DEF Reanchored, Estimator
      <4>3. /\ r.status = "TRACKING" /\ r.unseeded = FALSE /\ r.pose = e.pose
            /\ r.ticks_since_accept = 0 /\ r.kidnap_count = 0
        BY <2>6 DEF Reanchored, Estimator
      <4> HIDE DEF r
      <4>4. Good(r) BY <4>2, <4>3, Counts DEF Good
      <4> QED BY <4>1, <4>3, <4>4
    <3>2. CASE ~(~k.kidnap_settled /\ conf.reanchor /\ fix.close)
      <4> DEFINE s == Reseeded(k, k.kidnap_count)
                 r == [s EXCEPT !.kidnap_count = 0]
      <4>1. KidnapCheck(e, fix) = r BY <2>5, <2>8, <3>2
      <4>2. s \in Estimator /\ s.status = "SEEDING" /\ s.unseeded = FALSE
        BY <2>3, <2>4, <2>6, Zeros, ReseededGood
      <4> HIDE DEF s
      <4>3. r \in Estimator BY <4>2, Zeros DEF Estimator
      <4>4. r.status = "SEEDING" /\ r.kidnap_count = 0 BY <4>2 DEF Estimator
      <4> HIDE DEF r
      <4>5. Good(r) BY <4>3, <4>4, Counts DEF Good
      <4>6. conf.kidnap_fixes <= e.kidnap_count + 1
        BY <2>3, <2>6, <2>8, Counts
      <4> QED BY <1>2, <4>1, <4>4, <4>5, <4>6
    <3> QED BY <3>1, <3>2
  <2> QED BY <2>7, <2>8
<1> QED BY <1>1, <1>2, Counts

\* A rejected fix while lost: the robot goes on being lost, or is put down with
\* its fixes and its wheels at rest for the settle time
LEMMA RestGood ==
  ASSUME NEW e, Good(e), e.status = "LOST", NEW fix \in Fix
  PROVE LET r == RestCheck(e, fix)
        IN /\ Good(r) /\ r.kidnap_count = 0
           /\ r.status \in {"LOST", "SEEDING"}
           /\ r.status = "LOST" => r.unseeded = e.unseeded
           /\ r.status = "SEEDING" =>
                /\ e.still_ticks >= conf.kidnap_settle_ticks
                /\ r.rest_ticks >= conf.kidnap_settle_ticks
                /\ r.rest_ticks <= e.ticks_since_accept
<1>0. e \in Estimator /\ e.kidnap_count = 0 BY DEF Good
<1> DEFINE c == RestCounted(e, fix)
<1>1. CASE conf.kidnap_fixes = 0
  BY <1>0, <1>1 DEF RestCheck
<1>2. CASE conf.kidnap_fixes # 0
  <2>1. /\ e.rest_count \in 0 .. MaxCount /\ Count(e.rest_count) \in 0 .. MaxCount
        /\ e.rest_ticks \in Nat /\ e.ticks_since_accept \in Nat /\ e.still_ticks \in Nat
    BY <1>0, Counts DEF Estimator
  <2>2. /\ c \in Estimator
        /\ c.status = "LOST" /\ c.unseeded = e.unseeded /\ c.pose = e.pose
        /\ c.kidnap_count = 0 /\ c.still_ticks = e.still_ticks
        /\ c.ticks_since_accept = e.ticks_since_accept
        /\ c.rest_ticks <= e.ticks_since_accept
    <3>1. CASE e.rest_count = 0 \/ ~fix.resting
      <4>1. c = [e EXCEPT !.rest_count = 1, !.rest_ticks = 0]
        BY <3>1 DEF RestCounted
      <4>2. c \in Estimator BY <1>0, <4>1, Zeros DEF Estimator
      <4>3. c.rest_ticks = 0 BY <1>0, <4>1 DEF Estimator
      <4> QED BY <1>0, <2>1, <4>1, <4>2, <4>3 DEF Estimator
    <3>2. CASE ~(e.rest_count = 0 \/ ~fix.resting)
      <4>1. c = [e EXCEPT !.rest_count = Count(e.rest_count)]
        BY <3>2 DEF RestCounted
      <4>2. c \in Estimator BY <1>0, <2>1, <4>1 DEF Estimator
      <4>3. e.rest_ticks <= e.ticks_since_accept BY <2>1, <3>2 DEF Good
      <4> QED BY <1>0, <4>1, <4>2, <4>3 DEF Estimator
    <3> QED BY <3>1, <3>2
  <2> DEFINE waits == \/ c.rest_count < conf.kidnap_fixes
                      \/ c.rest_ticks < conf.kidnap_settle_ticks
                      \/ c.still_ticks = 0
                      \/ c.still_ticks < conf.kidnap_settle_ticks
             s == Reseeded(c, c.rest_count)
             r == [s EXCEPT !.rest_count = 0]
  <2>3. RestCheck(e, fix) = IF waits THEN c ELSE r BY <1>2 DEF RestCheck
  <2>4. /\ c.rest_ticks \in Nat /\ c.still_ticks \in Nat
        /\ c.rest_count \in 0 .. MaxCount
    BY <2>2 DEF Estimator
  <2> HIDE DEF c
  <2>5. CASE waits
    <3>1. Good(c) BY <2>2 DEF Good
    <3> QED BY <2>2, <2>3, <2>5, <3>1
  <2>6. CASE ~waits
    <3>1. /\ s \in Estimator /\ s.status = "SEEDING" /\ s.kidnap_count = 0
          /\ s.rest_ticks = c.rest_ticks
      BY <2>2, <2>4, ReseededGood
    <3> HIDE DEF s
    <3>2. r \in Estimator BY <3>1, Zeros DEF Estimator
    <3>3. /\ r.status = "SEEDING" /\ r.kidnap_count = 0
          /\ r.rest_ticks = c.rest_ticks
      BY <3>1 DEF Estimator
    <3>4. Good(r) BY <3>2, <3>3 DEF Good
    <3>5. /\ c.rest_ticks >= conf.kidnap_settle_ticks
          /\ c.still_ticks >= conf.kidnap_settle_ticks
      BY <2>4, <2>6, Counts
    <3> HIDE DEF r
    <3> QED BY <2>2, <2>3, <2>6, <3>3, <3>4, <3>5
  <2> QED BY <2>5, <2>6
<1> QED BY <1>1, <1>2

\* _lost_update
LEMMA LostGood ==
  ASSUME NEW e, Good(e), e.status = "LOST", NEW fix \in Fix
  PROVE LET r == LostUpdate(e, fix)
        IN /\ Good(r) /\ r.kidnap_count = 0
           /\ r.status \in {"LOST", "SEEDING", "TRACKING"}
           /\ r.status = "LOST" => r.unseeded = e.unseeded
           /\ r.status = "SEEDING" =>
                /\ e.still_ticks >= conf.kidnap_settle_ticks
                /\ r.rest_ticks >= conf.kidnap_settle_ticks
                /\ r.rest_ticks <= e.ticks_since_accept
<1> DEFINE c == ChainAdd(e, fix)
<1>1. LostUpdate(e, fix) = IF c.status = "TRACKING" THEN c ELSE RestCheck(c, fix)
  BY DEF LostUpdate
<1>2. \/ Chained(e, c)
      \/ Good(c) /\ c.status = "TRACKING" /\ c.kidnap_count = 0
  BY ChainAddGood
<1> HIDE DEF c
<1>3. CASE Good(c) /\ c.status = "TRACKING" /\ c.kidnap_count = 0
  BY <1>1, <1>3
<1>4. CASE Chained(e, c)
  <2>1. /\ c.status = "LOST" /\ c.unseeded = e.unseeded
        /\ c.still_ticks = e.still_ticks
        /\ c.ticks_since_accept = e.ticks_since_accept
    BY <1>4 DEF Chained
  <2>2. Good(c) BY <1>4, ChainedGood
  <2>3. LostUpdate(e, fix) = RestCheck(c, fix) BY <1>1, <2>1
  <2> QED BY <2>1, <2>2, <2>3, RestGood
<1> QED BY <1>2, <1>3, <1>4

\* db_pose_estimator_update
LEMMA UpdatedGood ==
  ASSUME NEW e, Good(e), NEW fix \in Fix
  PROVE LET u == Updated(e, fix)
        IN /\ Good(u)
           /\ \/ u.kidnap_count = 0
              \/ /\ e.status = "TRACKING" /\ ~fix.inside
                 /\ u.kidnap_count = 1 \/ u.kidnap_count <= e.kidnap_count + 1
           /\ e.status = "TRACKING" =>
                \/ u.status = "TRACKING"
                \/ /\ u.status = "SEEDING" /\ ~fix.inside
                   /\ conf.kidnap_fixes > 0
                   /\ conf.kidnap_fixes <= e.kidnap_count + 1
           /\ e.status = "SEEDING" =>
                \/ u.status \in {"SEEDING", "TRACKING"}
                \/ u.status = "LOST" /\ u.unseeded
           /\ e.status = "LOST" =>
                /\ u.status \in {"LOST", "SEEDING", "TRACKING"}
                /\ u.status = "LOST" => u.unseeded = e.unseeded
                /\ u.status = "SEEDING" =>
                     /\ e.still_ticks >= conf.kidnap_settle_ticks
                     /\ u.rest_ticks >= conf.kidnap_settle_ticks
                     /\ u.rest_ticks <= e.ticks_since_accept
<1> DEFINE u == Updated(e, fix)
<1>0. /\ e.status \in {"SEEDING", "TRACKING", "LOST"}
      /\ e.status = "TRACKING" => ~e.unseeded
      /\ e.status # "TRACKING" => e.kidnap_count = 0
  BY DEF Good, Estimator
<1>1. CASE e.status = "SEEDING"
  <2>1. u = ChainAdd(e, fix) BY <1>1 DEF Updated
  <2> HIDE DEF u
  <2>2. CASE Chained(e, u)
    <3>1. Good(u) BY <2>2, ChainedGood
    <3>2. u.status = "SEEDING" /\ u.kidnap_count = 0
      BY <1>0, <1>1, <2>2 DEF Chained
    <3> QED BY <1>1, <3>1, <3>2 DEF u
  <2>3. CASE ~Chained(e, u)
    <3>1. /\ Good(u) /\ u.kidnap_count = 0
          /\ u.status = "TRACKING" \/ (u.status = "LOST" /\ u.unseeded)
      BY <1>1, <2>1, <2>3, ChainAddGood
    <3> QED BY <1>1, <3>1 DEF u
  <2> QED BY <2>2, <2>3
<1>2. CASE e.status = "TRACKING"
  <2>1. CASE fix.inside
    <3>1. u = Accepted(e) BY <1>0, <1>2, <2>1 DEF Updated
    <3> QED BY <1>0, <1>2, <3>1, AcceptedGood
  <2>2. CASE ~fix.inside
    <3>1. u = KidnapCheck(e, fix) BY <1>0, <1>2, <2>2 DEF Updated
    <3> QED BY <1>2, <2>2, <3>1, KidnapGood
  <2> QED BY <2>1, <2>2
<1>3. CASE e.status = "LOST"
  <2>1. CASE ~e.unseeded /\ fix.inside
    <3>1. u = Accepted(e) BY <1>3, <2>1 DEF Updated
    <3> QED BY <1>3, <2>1, <3>1, AcceptedGood
  <2>2. CASE ~(~e.unseeded /\ fix.inside)
    <3>1. u = LostUpdate(e, fix) BY <1>3, <2>2 DEF Updated
    <3> QED BY <1>3, <3>1, LostGood
  <2> QED BY <2>1, <2>2
<1> QED BY <1>0, <1>1, <1>2, <1>3

\* db_pose_estimator_predict: the pose is kept, or lost once its last confirmation
\* is too old
LEMMA PredictedGood ==
  ASSUME NEW e, Good(e), NEW n \in Elapsed,
         NEW standing \in BOOLEAN, NEW travelled \in BOOLEAN
  PROVE LET p == Predicted(e, n, standing, travelled)
        IN /\ Good(p)
           /\ p.kidnap_count \in {0, e.kidnap_count}
           /\ p.unseeded = e.unseeded
           /\ p.status = e.status \/ (e.status = "TRACKING" /\ p.status = "LOST")
<1>0. e \in Estimator BY DEF Good
<1> DEFINE age == Saturated(e.ticks_since_accept, n)
           t == [e EXCEPT !.ticks_since_accept = age]
           lost == t.status = "TRACKING" /\ t.ticks_since_accept > conf.timeout_ticks
           l == IF lost THEN Lose(t) ELSE t
           rest == IF l.rest_count > 0 THEN Saturated(l.rest_ticks, n)
                   ELSE l.rest_ticks
           a == [l EXCEPT !.rest_ticks = rest]
           still == IF standing THEN Saturated(a.still_ticks, n) ELSE 0
           far == a.kidnap_travelled \/ (travelled /\ a.kidnap_count > 0)
           p == [a EXCEPT !.still_ticks = still, !.kidnap_travelled = far]
<1>1. Predicted(e, n, standing, travelled) = p BY DEF Predicted, Aged
<1>2. age \in 0 .. MaxTicks BY <1>0, Sums DEF Estimator
<1>3. /\ t \in Estimator
      /\ t.status = e.status /\ t.unseeded = e.unseeded /\ t.pose = e.pose
      /\ t.kidnap_count = e.kidnap_count /\ t.rest_count = e.rest_count
      /\ t.rest_ticks = e.rest_ticks /\ t.ticks_since_accept = age
  <2> HIDE DEF age
  <2>1. t \in Estimator BY <1>0, <1>2 DEF Estimator
  <2> QED BY <1>0, <2>1 DEF Estimator
<1> HIDE DEF t
<1>4. /\ l \in Estimator
      /\ l.unseeded = e.unseeded /\ l.pose = e.pose
      /\ l.ticks_since_accept = age
      /\ \/ /\ lost /\ e.status = "TRACKING" /\ l.status = "LOST"
            /\ l.kidnap_count = 0 /\ l.rest_count = 0
         \/ /\ ~lost /\ l.status = e.status /\ l.kidnap_count = e.kidnap_count
            /\ l.rest_count = e.rest_count /\ l.rest_ticks = e.rest_ticks
  BY <1>3, LoseGood
<1>5. l.status = "TRACKING" => age <= conf.timeout_ticks
  <2>1. age \in Nat BY <1>2, TicksAssumption
  <2> HIDE DEF age, l
  <2> QED BY <1>3, <1>4, <2>1, Counts
<1> HIDE DEF l, lost
<1>6. rest \in 0 .. MaxTicks BY <1>4, Sums DEF Estimator
<1>7. l.status = "LOST" /\ l.rest_count > 0 => rest <= age
  <2>1. SUFFICES ASSUME l.status = "LOST", l.rest_count > 0 PROVE rest <= age
    OBVIOUS
  <2>2. e.status = "LOST" /\ e.rest_count > 0 /\ l.rest_ticks = e.rest_ticks
    BY <1>4, <2>1
  <2>3. e.rest_ticks <= e.ticks_since_accept BY <2>2 DEF Good
  <2>4. e.rest_ticks \in 0 .. MaxTicks /\ e.ticks_since_accept \in 0 .. MaxTicks
    BY <1>0 DEF Estimator
  <2> QED BY <2>1, <2>2, <2>3, <2>4, Sums
<1> HIDE DEF rest, age
<1>8. /\ a \in Estimator
      /\ a.status = l.status /\ a.unseeded = l.unseeded /\ a.pose = l.pose
      /\ a.kidnap_count = l.kidnap_count /\ a.rest_count = l.rest_count
      /\ a.rest_ticks = rest /\ a.ticks_since_accept = age
  <2>1. a \in Estimator BY <1>4, <1>6 DEF Estimator
  <2> QED BY <1>4, <2>1 DEF Estimator
<1> HIDE DEF a
<1>9. still \in 0 .. MaxTicks BY <1>8, Sums, Zeros DEF Estimator
<1>10. far \in BOOLEAN BY <1>8 DEF Estimator
<1> HIDE DEF still, far
<1>11. /\ p \in Estimator
       /\ p.status = a.status /\ p.unseeded = a.unseeded /\ p.pose = a.pose
       /\ p.kidnap_count = a.kidnap_count /\ p.rest_count = a.rest_count
       /\ p.rest_ticks = a.rest_ticks
       /\ p.ticks_since_accept = a.ticks_since_accept
  <2>1. p \in Estimator BY <1>8, <1>9, <1>10 DEF Estimator
  <2> QED BY <1>8, <2>1 DEF Estimator
<1> HIDE DEF p
<1>12. /\ p.unseeded = e.unseeded /\ p.kidnap_count \in {0, e.kidnap_count}
       /\ p.status = e.status \/ (e.status = "TRACKING" /\ p.status = "LOST")
  BY <1>4, <1>8, <1>11
<1>13. Good(p)
  <2>1. p.status = "TRACKING" =>
          p.ticks_since_accept <= conf.timeout_ticks /\ ~p.unseeded
    BY <1>4, <1>5, <1>8, <1>11 DEF Good
  <2>2. p.status # "SEEDING" /\ ~p.unseeded => p.pose = "solved"
    BY <1>4, <1>8, <1>11 DEF Good
  <2>3. p.status # "TRACKING" => p.kidnap_count = 0
    BY <1>4, <1>8, <1>11 DEF Good
  <2>4. p.kidnap_count = 0 \/ p.kidnap_count < conf.kidnap_fixes
    BY <1>12 DEF Good
  <2>5. p.status = "LOST" /\ p.rest_count > 0 => p.rest_ticks <= p.ticks_since_accept
    BY <1>7, <1>8, <1>11
  <2> QED BY <1>11, <2>1, <2>2, <2>3, <2>4, <2>5 DEF Good
<1> QED BY <1>1, <1>12, <1>13

----------------------------------------------------------------------------
\* The invariant

LEMMA InitIInv == Init => IInv
<1>1. SUFFICES ASSUME Init PROVE IInv OBVIOUS
<1> DEFINE i == EstimatorInit
<1>2. i \in Estimator BY Zeros DEF EstimatorInit, Estimator
<1>3. /\ i.status = "SEEDING" /\ i.kidnap_count = 0 BY DEF EstimatorInit
<1>4. est = i /\ misses = 0 BY <1>1 DEF Init
<1> HIDE DEF i
<1> QED BY <1>2, <1>3, <1>4, Zeros DEF IInv, Good

LEMMA NextKeeps == IInv /\ [Next]_vars => IInv'
<1>1. SUFFICES ASSUME IInv, [Next]_vars PROVE IInv' OBVIOUS
<1>2. /\ Good(est) /\ misses \in 0 .. MaxCount /\ est.kidnap_count <= misses
      /\ est.kidnap_count \in 0 .. MaxCount /\ est \in Estimator
  BY <1>1 DEF IInv, Good, Estimator
<1>3. CASE Seed
  <2>1. est' = Solved(est) /\ misses' = 0 BY <1>3 DEF Seed
  <2> QED BY <1>2, <2>1, SolvedGood, Zeros DEF IInv
<1>4. ASSUME NEW n \in Elapsed, NEW standing \in BOOLEAN, NEW travelled \in BOOLEAN,
             Predict(n, standing, travelled)
      PROVE IInv'
  <2>1. est' = Predicted(est, n, standing, travelled) /\ misses' = misses
    BY <1>4 DEF Predict
  <2>2. Good(est') /\ est'.kidnap_count \in {0, est.kidnap_count}
    BY <1>2, <2>1, PredictedGood
  <2> QED BY <1>2, <2>1, <2>2, Counts DEF IInv
<1>5. ASSUME NEW fix \in Fix, Update(fix) PROVE IInv'
  <2>1. /\ est' = Updated(est, fix)
        /\ misses' = IF est.status = "TRACKING" /\ ~fix.inside THEN Count(misses)
                     ELSE 0
    BY <1>5 DEF Update
  <2>2. /\ Good(est')
        /\ \/ est'.kidnap_count = 0
           \/ /\ est.status = "TRACKING" /\ ~fix.inside
              /\ est'.kidnap_count = 1 \/ est'.kidnap_count <= est.kidnap_count + 1
    BY <1>2, <2>1, UpdatedGood
  <2>3. misses' \in 0 .. MaxCount BY <1>2, <2>1, Counts
  <2>4. est'.kidnap_count \in 0 .. MaxCount BY <2>2 DEF Good, Estimator
  <2>5. est'.kidnap_count <= misses'
    <3>1. CASE est'.kidnap_count = 0 BY <2>3, <3>1, Counts
    <3>2. CASE est'.kidnap_count # 0
      <4>1. misses' = Count(misses) BY <2>1, <2>2, <3>2
      <4>2. est'.kidnap_count <= misses + 1
        BY <1>2, <2>2, <2>4, <3>2, Counts
      <4> QED BY <1>2, <2>4, <4>1, <4>2, Counts
    <3> QED BY <3>1, <3>2
  <2> QED BY <2>2, <2>3, <2>5 DEF IInv
<1>6. CASE UNCHANGED vars BY <1>1, <1>6 DEF IInv, vars
<1> QED BY <1>1, <1>3, <1>4, <1>5, <1>6 DEF Next, Ticks, Fixes

\* The estimator stays Good through every call, and its row of rejected fixes is
\* no longer than the row since the pose was last confirmed.
THEOREM PoseInvariant == Spec => []IInv
BY InitIInv, NextKeeps, PTL DEF Spec

\* The type invariant of db_pose_estimator_t.
THEOREM PoseTypeCorrect == Spec => []TypeOK
<1>1. IInv => TypeOK BY DEF IInv, Good, TypeOK
<1> QED BY <1>1, PoseInvariant, PTL

\* _lose is reached before a tracked pose is older than timeout_ticks.
THEOREM TrackedCorrect == Spec => []TrackedRecently
<1>1. IInv => TrackedRecently BY DEF IInv, Good, TrackedRecently
<1> QED BY <1>1, PoseInvariant, PTL

\* _gate is only asked about a pose solved since the estimator was last SEEDING.
THEOREM GatedCorrect == Spec => []GatedOnSolvedPose
<1>1. IInv => GatedOnSolvedPose BY DEF IInv, Good, GatedOnSolvedPose
<1> QED BY <1>1, PoseInvariant, PTL

\* _kidnap_check reseeds after kidnap_fixes rejected fixes in a row.
THEOREM KidnapCorrect == Spec => KidnapAfterRow
<1> DEFINE A == est.status = "TRACKING" /\ est'.status = "SEEDING"
                  => conf.kidnap_fixes > 0 /\ misses' >= conf.kidnap_fixes
<1>1. IInv /\ [Next]_vars => [A]_vars
  <2>1. SUFFICES ASSUME IInv, Next, est.status = "TRACKING", est'.status = "SEEDING"
                 PROVE conf.kidnap_fixes > 0 /\ misses' >= conf.kidnap_fixes
    OBVIOUS
  <2>2. /\ Good(est) /\ misses \in 0 .. MaxCount /\ est.kidnap_count <= misses
        /\ est.kidnap_count \in Nat /\ est \in Estimator
    BY <2>1, Counts DEF IInv, Good, Estimator
  <2>3. CASE Seed BY <2>1, <2>2, <2>3, SolvedGood DEF Seed
  <2>4. ASSUME NEW n \in Elapsed, NEW standing \in BOOLEAN,
               NEW travelled \in BOOLEAN, Predict(n, standing, travelled)
        PROVE FALSE
    BY <2>1, <2>2, <2>4, PredictedGood DEF Predict
  <2>5. ASSUME NEW fix \in Fix, Update(fix)
        PROVE conf.kidnap_fixes > 0 /\ misses' >= conf.kidnap_fixes
    <3>1. /\ est' = Updated(est, fix)
          /\ misses' = IF est.status = "TRACKING" /\ ~fix.inside THEN Count(misses)
                       ELSE 0
      BY <2>5 DEF Update
    <3>2. /\ ~fix.inside /\ conf.kidnap_fixes > 0
          /\ conf.kidnap_fixes <= est.kidnap_count + 1
      BY <2>1, <2>2, <3>1, UpdatedGood
    <3>3. conf.kidnap_fixes \in 0 .. MaxCount /\ conf.kidnap_fixes <= misses + 1
      BY <2>2, <3>2, Counts
    <3>4. misses' = Count(misses) BY <2>1, <3>1, <3>2
    <3>5. Count(misses) \in Nat /\ conf.kidnap_fixes <= Count(misses)
      BY <2>2, <3>3, Counts
    <3> QED BY <3>2, <3>4, <3>5, Counts
  <2> QED BY <2>1, <2>3, <2>4, <2>5 DEF Next, Ticks, Fixes
<1> QED BY <1>1, PoseInvariant, PTL DEF Spec, KidnapAfterRow

\* _lost_rest_check puts a lost robot down after the settle time since its loss.
THEOREM PutDownCorrect == Spec => PutDownAtRest
<1> DEFINE R == /\ est.still_ticks >= conf.kidnap_settle_ticks
                /\ est.ticks_since_accept >= est'.rest_ticks
                /\ est'.rest_ticks >= conf.kidnap_settle_ticks
           A == est.status = "LOST" /\ est'.status = "SEEDING" => R
<1>1. IInv /\ [Next]_vars => [A]_vars
  <2>1. SUFFICES ASSUME IInv, Next, est.status = "LOST", est'.status = "SEEDING"
                 PROVE R
    OBVIOUS
  <2>2. Good(est) /\ est \in Estimator BY <2>1 DEF IInv, Good
  <2>3. CASE Seed BY <2>1, <2>2, <2>3, SolvedGood DEF Seed
  <2>4. ASSUME NEW n \in Elapsed, NEW standing \in BOOLEAN,
               NEW travelled \in BOOLEAN, Predict(n, standing, travelled)
        PROVE FALSE
    BY <2>1, <2>2, <2>4, PredictedGood DEF Predict
  <2>5. ASSUME NEW fix \in Fix, Update(fix) PROVE R
    <3>1. est' = Updated(est, fix) BY <2>5 DEF Update
    <3>2. /\ est.still_ticks >= conf.kidnap_settle_ticks
          /\ est'.rest_ticks >= conf.kidnap_settle_ticks
          /\ est'.rest_ticks <= est.ticks_since_accept
      BY <2>1, <2>2, <3>1, UpdatedGood
    <3>3. Good(est') BY <2>2, <3>1, UpdatedGood
    <3>4. est'.rest_ticks \in Int /\ est.ticks_since_accept \in Int
      BY <2>2, <3>3 DEF Good, Estimator
    <3> QED BY <3>2, <3>4
  <2> QED BY <2>1, <2>3, <2>4, <2>5 DEF Next, Ticks, Fixes
<1> QED BY <1>1, PoseInvariant, PTL DEF Spec, PutDownAtRest

----------------------------------------------------------------------------
\* The refinement

\* Every call changes the status its callers read the way PoseLifecycle promises.
THEOREM PoseImplemented == Spec => ImplementsPoseLifecycle
<1>1. Init => Life!Init
  BY DEF Init, EstimatorInit, Life!Init, Reported
<1>2. IInv /\ [Next]_vars => [Life!Next]_Reported
  <2>1. SUFFICES ASSUME IInv, [Next]_vars PROVE [Life!Next]_Reported OBVIOUS
  <2>2. /\ Good(est) /\ est \in Estimator
        /\ est.status \in {"SEEDING", "TRACKING", "LOST"}
    BY <2>1 DEF IInv, Good, Estimator
  <2>3. CASE Seed
    <3>1. Reported' = "TRACKING" BY <2>2, <2>3, SolvedGood DEF Seed, Reported
    <3> QED BY <3>1 DEF Life!Next
  <2>4. ASSUME NEW n \in Elapsed, NEW standing \in BOOLEAN,
               NEW travelled \in BOOLEAN, Predict(n, standing, travelled)
        PROVE Life!Next
    <3>1. /\ est'.unseeded = est.unseeded
          /\ \/ est'.status = est.status
             \/ est.status = "TRACKING" /\ est'.status = "LOST"
      BY <2>2, <2>4, PredictedGood DEF Predict
    <3>2. est.status = "TRACKING" => ~est.unseeded BY <2>2 DEF Good
    <3>3. Reported' \in Life!Predicted(Reported)
      BY <2>2, <3>1, <3>2 DEF Reported, Life!Predicted
    <3> QED BY <3>3 DEF Life!Next
  <2>5. ASSUME NEW fix \in Fix, Update(fix) PROVE Life!Next
    <3>1. est' = Updated(est, fix) BY <2>5 DEF Update
    <3>2. /\ est.status = "TRACKING" => est'.status \in {"TRACKING", "SEEDING"}
          /\ est.status = "SEEDING" =>
               \/ est'.status \in {"SEEDING", "TRACKING"}
               \/ est'.status = "LOST" /\ est'.unseeded
          /\ est.status = "LOST" =>
               \/ est'.status \in {"SEEDING", "TRACKING"}
               \/ est'.status = "LOST" /\ est'.unseeded = est.unseeded
      BY <2>2, <3>1, UpdatedGood
    <3>3. Reported' \in Life!Updated(Reported)
      BY <2>2, <3>2 DEF Reported, Life!Updated
    <3> QED BY <3>3 DEF Life!Next
  <2>6. CASE UNCHANGED vars BY <2>6 DEF vars, Reported
  <2> QED BY <2>1, <2>3, <2>4, <2>5, <2>6 DEF Next, Ticks, Fixes
<1> QED BY <1>1, <1>2, PoseInvariant, PTL DEF Spec, Life!Spec, ImplementsPoseLifecycle

----------------------------------------------------------------------------
\* A robot put down where its pose is not: what its ticks and fixes lower

\* What n has to go to a limit
Short(n, limit) == IF n < limit THEN limit - n ELSE 0

\* The rejected fixes the next one is added to, and whether their row can end in
\* a re-anchor: it began before the wheels had settled
Row(e) == IF e.kidnap_travelled THEN 0 ELSE e.kidnap_count

Unsettled(e) == Row(e) > 0 /\ ~e.kidnap_settled

\* Rejected fixes to go, once the wheels have settled
RowShort(e) ==
  conf.kidnap_fixes - Row(e) + (IF Unsettled(e) THEN conf.kidnap_fixes ELSE 0)

StillShort(e) == Short(e.still_ticks, conf.kidnap_settle_ticks)

TrackedShort(e) ==
  IF StillShort(e) > 0 THEN StillShort(e) + 2 * conf.kidnap_fixes ELSE RowShort(e)

\* A lost robot wants its wheels still for a tick at least, its fixes at rest for
\* the settle time, and enough of them
WantedStill ==
  IF conf.kidnap_settle_ticks = 0 THEN 1 ELSE conf.kidnap_settle_ticks

RestShort(e) ==
  IF e.rest_count = 0 THEN conf.kidnap_settle_ticks
  ELSE Short(e.rest_ticks, conf.kidnap_settle_ticks)

LostShort(e) ==
  Short(e.still_ticks, WantedStill) + RestShort(e)
    + Short(e.rest_count, conf.kidnap_fixes)

MostLost == WantedStill + conf.kidnap_settle_ticks + conf.kidnap_fixes

\* How many of the calls it waits for the robot is from SEEDING at most
Patience(e) ==
  CASE e.status = "SEEDING"  -> 0
    [] e.status = "LOST"     -> 1 + LostShort(e)
    [] e.status = "TRACKING" -> 1 + MostLost + TrackedShort(e)

\* A lost or tracking robot waits for a fix, or else for a tick
AwaitsFix(e) ==
  IF e.status = "TRACKING" THEN StillShort(e) = 0
  ELSE \/ e.rest_count < conf.kidnap_fixes
       \/ Short(e.still_ticks, WantedStill) + RestShort(e) = 0

Resting(fix) ==
  /\ fix.resting /\ fix.agrees /\ fix.consistent /\ ~fix.inside
  /\ fix.travel < conf.acquire

\* The kidnap check is on, and the counters reach its settle time
CanSettle ==
  conf.kidnap_fixes > 0 /\ WantedStill <= MaxTicks

Lowers(e, u, awaited) ==
  /\ Patience(u) \in Nat /\ Patience(u) <= Patience(e)
  /\ e.status # "SEEDING" /\ awaited => Patience(u) < Patience(e)
  /\ e.status # "SEEDING" /\ Patience(u) = Patience(e)
       => (AwaitsFix(u) <=> AwaitsFix(e))

\* No tick of a standing robot and no fix at rest sets it back, and each of the
\* kind it waits for brings it nearer to SEEDING.
PatienceFalls ==
  [][CanSettle => /\ StillTick => Lowers(est, est', ~AwaitsFix(est))
                  /\ RestingFix => Lowers(est, est', AwaitsFix(est))]_vars

LEMMA SettleTypes ==
  /\ conf.kidnap_fixes \in Nat /\ conf.kidnap_settle_ticks \in Nat
  /\ WantedStill \in Nat /\ WantedStill >= 1
  /\ WantedStill >= conf.kidnap_settle_ticks
  /\ MostLost \in Nat
BY Counts DEF WantedStill, MostLost

LEMMA ShortRange ==
  ASSUME NEW n \in Nat, NEW limit \in Nat
  PROVE /\ Short(n, limit) \in Nat /\ Short(n, limit) <= limit
        /\ Short(n, limit) = 0 <=> n >= limit
BY DEF Short

\* A tick brings a counter nearer to any limit it can reach
LEMMA ShortFalls ==
  ASSUME NEW t \in 0 .. MaxTicks, NEW n \in Elapsed,
         NEW limit \in Nat, limit <= MaxTicks
  PROVE /\ Short(Saturated(t, n), limit) <= Short(t, limit)
        /\ Short(t, limit) > 0 => Short(Saturated(t, n), limit) < Short(t, limit)
BY TicksAssumption DEF Short, Saturated

LEMMA ShortTypes ==
  ASSUME NEW e, Good(e), conf.kidnap_fixes > 0
  PROVE /\ StillShort(e) \in Nat /\ RestShort(e) \in Nat
        /\ Short(e.still_ticks, WantedStill) \in Nat
        /\ Short(e.rest_count, conf.kidnap_fixes) \in Nat
        /\ Row(e) \in Nat /\ Row(e) < conf.kidnap_fixes
        /\ RowShort(e) \in Nat /\ RowShort(e) >= 1
        /\ RowShort(e) <= 2 * conf.kidnap_fixes
        /\ LostShort(e) \in Nat /\ LostShort(e) <= MostLost
        /\ TrackedShort(e) \in Nat /\ TrackedShort(e) >= 1
<1>1. /\ e.still_ticks \in Nat /\ e.rest_ticks \in Nat /\ e.rest_count \in Nat
      /\ e.kidnap_count \in Nat
      /\ e.kidnap_count = 0 \/ e.kidnap_count < conf.kidnap_fixes
  BY Counts DEF Good, Estimator
<1>2. /\ StillShort(e) \in Nat
      /\ RestShort(e) \in Nat /\ RestShort(e) <= conf.kidnap_settle_ticks
      /\ Short(e.still_ticks, WantedStill) \in Nat
      /\ Short(e.still_ticks, WantedStill) <= WantedStill
      /\ Short(e.rest_count, conf.kidnap_fixes) \in Nat
      /\ Short(e.rest_count, conf.kidnap_fixes) <= conf.kidnap_fixes
  <2>1. \A t \in Nat, l \in Nat : Short(t, l) \in Nat /\ Short(t, l) <= l
    BY ShortRange
  <2>2. RestShort(e) \in Nat /\ RestShort(e) <= conf.kidnap_settle_ticks
    <3>1. RestShort(e) \in {conf.kidnap_settle_ticks,
                            Short(e.rest_ticks, conf.kidnap_settle_ticks)}
      BY DEF RestShort
    <3>2. /\ Short(e.rest_ticks, conf.kidnap_settle_ticks) \in Nat
          /\ Short(e.rest_ticks, conf.kidnap_settle_ticks) <= conf.kidnap_settle_ticks
      BY <1>1, <2>1, SettleTypes
    <3> QED BY <3>1, <3>2, SettleTypes
  <2> QED BY <1>1, <2>1, <2>2, SettleTypes DEF StillShort
<1>3. /\ Row(e) \in Nat /\ Row(e) < conf.kidnap_fixes
  BY <1>1, SettleTypes DEF Row
<1>4. /\ RowShort(e) \in Nat /\ RowShort(e) >= 1
      /\ RowShort(e) <= 2 * conf.kidnap_fixes
  <2>1. CASE Unsettled(e)
    <3>1. RowShort(e) = conf.kidnap_fixes - Row(e) + conf.kidnap_fixes
      BY <2>1 DEF RowShort
    <3> QED BY <1>3, <3>1, SettleTypes
  <2>2. CASE ~Unsettled(e)
    <3>1. RowShort(e) = conf.kidnap_fixes - Row(e) + 0 BY <2>2 DEF RowShort
    <3> QED BY <1>3, <3>1, SettleTypes
  <2> QED BY <2>1, <2>2
<1>5. LostShort(e) \in Nat /\ LostShort(e) <= MostLost
  BY <1>2, SettleTypes DEF LostShort, MostLost
<1>6. TrackedShort(e) \in Nat /\ TrackedShort(e) >= 1
  BY <1>2, <1>4, SettleTypes DEF TrackedShort
<1> QED BY <1>2, <1>3, <1>4, <1>5, <1>6

LEMMA PatienceRange ==
  ASSUME NEW e, Good(e), conf.kidnap_fixes > 0
  PROVE /\ Patience(e) \in Nat
        /\ Patience(e) = 0 <=> e.status = "SEEDING"
        /\ e.status = "SEEDING" => Patience(e) = 0
        /\ e.status = "LOST" => Patience(e) = 1 + LostShort(e)
        /\ e.status = "TRACKING" => Patience(e) = 1 + MostLost + TrackedShort(e)
<1>1. e.status \in {"SEEDING", "TRACKING", "LOST"} BY DEF Good, Estimator
<1>2. /\ e.status = "SEEDING" => Patience(e) = 0
      /\ e.status = "LOST" => Patience(e) = 1 + LostShort(e)
      /\ e.status = "TRACKING" => Patience(e) = 1 + MostLost + TrackedShort(e)
  BY DEF Patience
<1> QED BY <1>1, <1>2, ShortTypes, SettleTypes

\* What a tick of a standing robot does to what the check of a kidnap reads
LEMMA StillTickFields ==
  ASSUME NEW e, Good(e), NEW n \in Elapsed
  PROVE LET p == Predicted(e, n, TRUE, FALSE)
        IN \/ e.status = "TRACKING" /\ p.status = "LOST"
           \/ /\ p.status = e.status
              /\ p.kidnap_count = e.kidnap_count
              /\ p.kidnap_travelled = e.kidnap_travelled
              /\ p.kidnap_settled = e.kidnap_settled
              /\ p.rest_count = e.rest_count
              /\ p.rest_ticks = IF e.rest_count > 0 THEN Saturated(e.rest_ticks, n)
                                ELSE e.rest_ticks
              /\ p.still_ticks = Saturated(e.still_ticks, n)
<1> DEFINE p == Predicted(e, n, TRUE, FALSE)
           t == [e EXCEPT !.ticks_since_accept = Saturated(e.ticks_since_accept, n)]
           rest == IF t.rest_count > 0 THEN Saturated(t.rest_ticks, n)
                   ELSE t.rest_ticks
           a == [t EXCEPT !.rest_ticks = rest]
<1>1. e \in Estimator BY DEF Good
<1>2. CASE t.status = "TRACKING" /\ t.ticks_since_accept > conf.timeout_ticks
  <2>1. e.status = "TRACKING" BY <1>1, <1>2 DEF Estimator
  <2>2. p.status = "LOST"
    BY <1>1, <1>2 DEF Predicted, Aged, Lose, Estimator
  <2> QED BY <2>1, <2>2
<1>3. CASE ~(t.status = "TRACKING" /\ t.ticks_since_accept > conf.timeout_ticks)
  <2>1. p = [a EXCEPT !.still_ticks = Saturated(a.still_ticks, n),
                      !.kidnap_travelled = a.kidnap_travelled \/ FALSE]
    BY <1>3 DEF Predicted, Aged
  <2>2. /\ t.rest_count = e.rest_count /\ t.rest_ticks = e.rest_ticks
        /\ a.still_ticks = e.still_ticks /\ a.kidnap_travelled = e.kidnap_travelled
        /\ a.rest_ticks = rest /\ a.kidnap_count = e.kidnap_count
        /\ a.kidnap_settled = e.kidnap_settled /\ a.status = e.status
        /\ a.rest_count = e.rest_count
    BY <1>1 DEF Estimator
  <2>3. /\ p.status = a.status /\ p.kidnap_count = a.kidnap_count
        /\ p.kidnap_settled = a.kidnap_settled /\ p.rest_count = a.rest_count
        /\ p.rest_ticks = a.rest_ticks
        /\ p.still_ticks = Saturated(a.still_ticks, n)
    BY <1>1, <2>1 DEF Estimator
  <2>4. p.kidnap_travelled = e.kidnap_travelled
    <3>1. e.kidnap_travelled \in BOOLEAN BY <1>1 DEF Estimator
    <3>2. p.kidnap_travelled = (a.kidnap_travelled \/ FALSE)
      BY <1>1, <2>1 DEF Estimator
    <3> QED BY <2>2, <3>1, <3>2
  <2>5. p.rest_ticks = IF e.rest_count > 0 THEN Saturated(e.rest_ticks, n)
                       ELSE e.rest_ticks
    BY <2>2, <2>3
  <2>6. /\ p.status = e.status /\ p.kidnap_count = e.kidnap_count
        /\ p.kidnap_settled = e.kidnap_settled /\ p.rest_count = e.rest_count
        /\ p.still_ticks = Saturated(e.still_ticks, n)
    BY <2>2, <2>3
  <2> HIDE DEF p, t, a, rest
  <2> QED BY <2>4, <2>5, <2>6 DEF p
<1> QED BY <1>2, <1>3

\* A tick of a standing robot
LEMMA StillTickLowers ==
  ASSUME NEW e, Good(e), NEW n \in Elapsed, CanSettle
  PROVE /\ Good(Predicted(e, n, TRUE, FALSE))
        /\ Lowers(e, Predicted(e, n, TRUE, FALSE), ~AwaitsFix(e))
<1> DEFINE p == Predicted(e, n, TRUE, FALSE)
<1>1. /\ Good(p) /\ conf.kidnap_fixes > 0 /\ WantedStill <= MaxTicks
      /\ conf.kidnap_settle_ticks <= MaxTicks
  <2>1. MaxTicks \in Nat BY TicksAssumption
  <2>2. Good(p) BY PredictedGood
  <2> HIDE DEF p
  <2> QED BY <2>1, <2>2, SettleTypes DEF CanSettle
<1>2. \/ e.status = "TRACKING" /\ p.status = "LOST"
      \/ /\ p.status = e.status
         /\ p.kidnap_count = e.kidnap_count
         /\ p.kidnap_travelled = e.kidnap_travelled
         /\ p.kidnap_settled = e.kidnap_settled
         /\ p.rest_count = e.rest_count
         /\ p.rest_ticks = IF e.rest_count > 0 THEN Saturated(e.rest_ticks, n)
                           ELSE e.rest_ticks
         /\ p.still_ticks = Saturated(e.still_ticks, n)
  BY StillTickFields
<1> SUFFICES Lowers(e, p, ~AwaitsFix(e)) BY <1>1
<1> HIDE DEF p
<1>3. /\ e.still_ticks \in 0 .. MaxTicks /\ e.rest_ticks \in 0 .. MaxTicks
      /\ e.status \in {"SEEDING", "TRACKING", "LOST"}
  BY DEF Good, Estimator
<1>4. CASE e.status = "TRACKING" /\ p.status = "LOST"
  <2>1. Patience(p) \in Nat /\ Patience(p) < Patience(e)
    BY <1>1, <1>4, PatienceRange, ShortTypes, SettleTypes
  <2> QED BY <1>1, <2>1, PatienceRange DEF Lowers
<1>5. CASE /\ p.status = e.status
           /\ p.kidnap_count = e.kidnap_count
           /\ p.kidnap_travelled = e.kidnap_travelled
           /\ p.kidnap_settled = e.kidnap_settled
           /\ p.rest_count = e.rest_count
           /\ p.rest_ticks = IF e.rest_count > 0 THEN Saturated(e.rest_ticks, n)
                             ELSE e.rest_ticks
           /\ p.still_ticks = Saturated(e.still_ticks, n)
  <2>1. CASE e.status = "SEEDING"
    BY <1>1, <1>5, <2>1, PatienceRange DEF Lowers
  <2>2. CASE e.status = "TRACKING"
    <3>1. /\ StillShort(p) <= StillShort(e)
          /\ StillShort(e) > 0 => StillShort(p) < StillShort(e)
      BY <1>1, <1>3, <1>5, ShortFalls, SettleTypes DEF StillShort
    <3>2. RowShort(p) = RowShort(e) BY <1>5 DEF RowShort, Unsettled, Row
    <3>3. /\ TrackedShort(p) <= TrackedShort(e)
          /\ StillShort(e) > 0 => TrackedShort(p) < TrackedShort(e)
          /\ StillShort(e) = 0 => StillShort(p) = 0
      BY <1>1, <3>1, <3>2, ShortTypes, SettleTypes DEF TrackedShort
    <3>4. AwaitsFix(e) <=> StillShort(e) = 0 BY <2>2 DEF AwaitsFix
    <3>5. AwaitsFix(p) <=> StillShort(p) = 0 BY <1>5, <2>2 DEF AwaitsFix
    <3>6. /\ Patience(p) <= Patience(e) /\ Patience(p) \in Nat
          /\ StillShort(e) > 0 => Patience(p) < Patience(e)
      BY <1>1, <1>5, <2>2, <3>3, PatienceRange, ShortTypes, SettleTypes
    <3>7. StillShort(e) \in Nat /\ Patience(e) \in Nat
      BY <1>1, ShortTypes, PatienceRange
    <3> QED BY <3>3, <3>4, <3>5, <3>6, <3>7 DEF Lowers
  <2>3. CASE e.status = "LOST"
    <3> DEFINE s(x) == Short(x.still_ticks, WantedStill)
    <3>1. /\ s(p) <= s(e)
          /\ s(e) > 0 => s(p) < s(e)
      BY <1>1, <1>3, <1>5, ShortFalls, SettleTypes
    <3>2. /\ RestShort(p) <= RestShort(e)
          /\ e.rest_count # 0 /\ RestShort(e) > 0 => RestShort(p) < RestShort(e)
      <4>1. CASE e.rest_count = 0
        BY <1>5, <4>1, SettleTypes DEF RestShort
      <4>2. CASE e.rest_count # 0
        <5>1. e.rest_count > 0 BY <4>2, Counts DEF Good, Estimator
        <5> QED BY <1>1, <1>3, <1>5, <4>2, <5>1, ShortFalls, SettleTypes DEF RestShort
      <4> QED BY <4>1, <4>2
    <3>3. /\ s(p) \in Nat /\ s(e) \in Nat /\ RestShort(p) \in Nat /\ RestShort(e) \in Nat
          /\ Short(e.rest_count, conf.kidnap_fixes) \in Nat
      BY <1>1, ShortTypes
    <3>4. /\ LostShort(p) = s(p) + RestShort(p) + Short(e.rest_count, conf.kidnap_fixes)
          /\ LostShort(e) = s(e) + RestShort(e) + Short(e.rest_count, conf.kidnap_fixes)
      BY <1>5 DEF LostShort
    <3>5. /\ AwaitsFix(e) <=> e.rest_count < conf.kidnap_fixes \/ s(e) + RestShort(e) = 0
          /\ AwaitsFix(p) <=> e.rest_count < conf.kidnap_fixes \/ s(p) + RestShort(p) = 0
      BY <1>5, <2>3 DEF AwaitsFix
    <3> HIDE DEF s
    <3>6. /\ LostShort(p) <= LostShort(e)
          /\ ~AwaitsFix(e) => LostShort(p) < LostShort(e)
          /\ LostShort(p) = LostShort(e) => (AwaitsFix(p) <=> AwaitsFix(e))
      <4>1. LostShort(p) <= LostShort(e) BY <3>1, <3>2, <3>3, <3>4
      <4>2. LostShort(p) = LostShort(e) => s(p) + RestShort(p) = s(e) + RestShort(e)
        BY <3>3, <3>4
      <4>3. ASSUME ~AwaitsFix(e) PROVE LostShort(p) < LostShort(e)
        <5>1. e.rest_count # 0
          BY <1>1, <3>5, <4>3, SettleTypes
        <5>2. s(e) > 0 \/ RestShort(e) > 0 BY <3>3, <3>5, <4>3
        <5>3. s(p) < s(e) \/ RestShort(p) < RestShort(e) BY <3>1, <3>2, <5>1, <5>2
        <5> QED BY <3>1, <3>2, <3>3, <3>4, <5>3
      <4> QED BY <3>5, <4>1, <4>2, <4>3
    <3>7. /\ LostShort(p) \in Nat /\ LostShort(e) \in Nat
          /\ Patience(p) = 1 + LostShort(p) /\ Patience(e) = 1 + LostShort(e)
      BY <1>1, <1>5, <2>3, ShortTypes, PatienceRange
    <3> QED BY <3>6, <3>7 DEF Lowers
  <2> QED BY <1>3, <2>1, <2>2, <2>3
<1> QED BY <1>2, <1>4, <1>5

\* A fix at rest neither solves a pose nor breaks the chain
LEMMA RestingChain ==
  ASSUME NEW e \in Estimator, NEW fix \in Fix, Resting(fix)
  PROVE LET c == ChainAdd(e, fix)
        IN /\ c.status = e.status /\ c.unseeded = e.unseeded
           /\ c.kidnap_count = e.kidnap_count /\ c.still_ticks = e.still_ticks
           /\ c.rest_count = e.rest_count /\ c.rest_ticks = e.rest_ticks
<1> DEFINE odo == IF conf.free_spin /\ fix.still THEN e.free_spin_odo ELSE 0
           g == [e EXCEPT !.chain_count = Count(e.chain_count), !.free_spin_odo = odo]
<1>1. CASE e.chain_count = 0
  BY <1>1 DEF ChainAdd, ChainStart, Estimator
<1>2. CASE e.chain_count # 0
  <2>1. ChainAdd(e, fix) = ChainGrows(e, fix) BY <1>2 DEF ChainAdd, Resting
  <2>2. ChainGrows(e, fix) = g BY DEF ChainGrows, Resting
  <2> HIDE DEF odo
  <2> QED BY <2>1, <2>2 DEF Estimator
<1> QED BY <1>1, <1>2

\* A rejected fix while tracking adds to its row, starts a new one, re-anchors or
\* gives the pose up
LEMMA RejectedShort ==
  ASSUME NEW e, Good(e), e.status = "TRACKING", NEW fix \in Fix, Resting(fix),
         conf.kidnap_fixes > 0
  PROVE LET u == KidnapCheck(e, fix)
        IN \/ u.status = "SEEDING"
           \/ /\ u.status = "TRACKING" /\ u.still_ticks = e.still_ticks
              /\ StillShort(e) = 0 => RowShort(u) < RowShort(e)
<1>0. e \in Estimator BY DEF Good
<1> DEFINE k == KidnapCounted(e, fix)
           settled == e.still_ticks >= conf.kidnap_settle_ticks
<1>1. /\ e.still_ticks \in Nat /\ e.kidnap_count \in Nat
      /\ e.kidnap_travelled \in BOOLEAN /\ e.kidnap_settled \in BOOLEAN
      /\ e.kidnap_count = 0 \/ e.kidnap_count < conf.kidnap_fixes
      /\ settled \in BOOLEAN /\ e.kidnap_count + 1 \in 0 .. MaxCount
  <2>1. /\ e.still_ticks \in Nat /\ e.kidnap_count \in 0 .. MaxCount
        /\ e.kidnap_travelled \in BOOLEAN /\ e.kidnap_settled \in BOOLEAN
        /\ e.kidnap_count = 0 \/ e.kidnap_count < conf.kidnap_fixes
        /\ settled \in BOOLEAN
    BY <1>0 DEF Good, Estimator
  <2> HIDE DEF settled
  <2> QED BY <2>1, Counts
<1>2. StillShort(e) = 0 => settled
  BY <1>1, SettleTypes, ShortRange DEF StillShort
<1> HIDE DEF settled
<1>3. /\ k.status = "TRACKING" /\ k.still_ticks = e.still_ticks
      /\ \/ /\ Row(e) = 0 /\ k.kidnap_count = 1
            /\ k.kidnap_travelled = FALSE /\ k.kidnap_settled = settled
         \/ /\ Row(e) > 0 /\ k.kidnap_count = Row(e) + 1
            /\ k.kidnap_travelled = FALSE /\ k.kidnap_settled = e.kidnap_settled
      /\ k \in Estimator
  <2>1. CASE e.kidnap_count = 0 \/ e.kidnap_travelled
    <3>1. k = [e EXCEPT !.kidnap_count = 1, !.kidnap_travelled = FALSE,
                        !.kidnap_settled = settled]
      BY <2>1 DEF KidnapCounted, settled
    <3>2. Row(e) = 0 BY <2>1 DEF Row
    <3> HIDE DEF k
    <3>3. k \in Estimator BY <1>0, <1>1, <3>1, Zeros DEF Estimator
    <3> QED BY <1>0, <3>1, <3>2, <3>3 DEF Estimator
  <2>2. CASE ~(e.kidnap_count = 0 \/ e.kidnap_travelled)
    <3>1. k = [e EXCEPT !.kidnap_count = e.kidnap_count + 1]
      BY <2>2 DEF KidnapCounted, Resting
    <3>2. Row(e) = e.kidnap_count /\ Row(e) > 0 BY <1>1, <2>2 DEF Row
    <3>3. e.kidnap_travelled = FALSE BY <1>1, <2>2
    <3> HIDE DEF k
    <3>4. k \in Estimator BY <1>0, <1>1, <3>1 DEF Estimator
    <3> QED BY <1>0, <3>1, <3>2, <3>3, <3>4 DEF Estimator
  <2> QED BY <2>1, <2>2
<1>4. KidnapCheck(e, fix) =
        IF k.kidnap_count < conf.kidnap_fixes THEN k
        ELSE IF ~k.kidnap_settled /\ conf.reanchor /\ fix.close THEN Reanchored(k)
        ELSE [Reseeded(k, k.kidnap_count) EXCEPT !.kidnap_count = 0]
  BY SettleTypes DEF KidnapCheck
<1> HIDE DEF k
<1>5. /\ k.kidnap_count \in Nat /\ Row(e) \in Nat /\ Row(e) < conf.kidnap_fixes
      /\ k.kidnap_count <= Row(e) + 1 /\ conf.kidnap_fixes \in Nat
  BY <1>3, ShortTypes, SettleTypes
<1>6. RowShort(e) = IF Row(e) > 0 /\ ~e.kidnap_settled
                    THEN conf.kidnap_fixes - Row(e) + conf.kidnap_fixes
                    ELSE conf.kidnap_fixes - Row(e)
  BY <1>5 DEF RowShort, Unsettled
<1>7. CASE k.kidnap_count < conf.kidnap_fixes
  <2>1. Row(k) = k.kidnap_count /\ k.kidnap_count >= 1
    BY <1>3, <1>5 DEF Row
  <2>2. RowShort(k) = IF ~k.kidnap_settled
                      THEN conf.kidnap_fixes - Row(k) + conf.kidnap_fixes
                      ELSE conf.kidnap_fixes - Row(k)
    BY <1>5, <2>1 DEF RowShort, Unsettled
  <2>3. StillShort(e) = 0 => RowShort(k) < RowShort(e)
    <3> SUFFICES ASSUME StillShort(e) = 0 PROVE RowShort(k) < RowShort(e)
      OBVIOUS
    <3>1. CASE Row(e) = 0
      <4>1. k.kidnap_settled = settled /\ k.kidnap_count = 1 BY <1>3, <3>1
      <4>2. k.kidnap_settled BY <1>2, <4>1
      <4> QED BY <1>5, <1>6, <2>1, <2>2, <3>1, <4>1, <4>2
    <3>2. CASE Row(e) > 0
      <4>1. k.kidnap_settled = e.kidnap_settled /\ k.kidnap_count = Row(e) + 1
        BY <1>3, <3>2
      <4> QED BY <1>1, <1>5, <1>6, <2>1, <2>2, <3>2, <4>1
    <3> QED BY <1>5, <3>1, <3>2
  <2> QED BY <1>3, <1>4, <1>7, <2>3
<1>8. CASE k.kidnap_count >= conf.kidnap_fixes
  <2>1. CASE ~k.kidnap_settled /\ conf.reanchor /\ fix.close
    <3> DEFINE r == Reanchored(k)
    <3>1. KidnapCheck(e, fix) = r BY <1>4, <1>5, <1>8, <2>1
    <3>2. /\ r.status = "TRACKING" /\ r.still_ticks = e.still_ticks
          /\ r.kidnap_count = 0
      BY <1>3 DEF Reanchored, Estimator
    <3> HIDE DEF r
    <3>3. Row(r) = 0 BY <3>2 DEF Row
    <3>4. RowShort(r) = conf.kidnap_fixes BY <1>5, <3>3 DEF RowShort, Unsettled
    \* A row that began with the wheels settled cannot get here
    <3>5. StillShort(e) = 0 => Row(e) > 0 /\ ~e.kidnap_settled
      BY <1>2, <1>3, <1>5, <2>1
    <3>6. StillShort(e) = 0 => RowShort(r) < RowShort(e)
      BY <1>5, <1>6, <3>4, <3>5
    <3> QED BY <3>1, <3>2, <3>6
  <2>2. CASE ~(~k.kidnap_settled /\ conf.reanchor /\ fix.close)
    <3> DEFINE s == Reseeded(k, k.kidnap_count)
    <3>1. KidnapCheck(e, fix) = [s EXCEPT !.kidnap_count = 0]
      BY <1>4, <1>5, <1>8, <2>2
    <3>2. [s EXCEPT !.kidnap_count = 0].status = "SEEDING"
      BY <1>3 DEF Reseeded, Estimator
    <3> HIDE DEF s
    <3> QED BY <3>1, <3>2
  <2> QED BY <2>1, <2>2
<1> QED BY <1>5, <1>7, <1>8

\* A fix at rest while lost counts, or puts the robot down
LEMMA RestedShort ==
  ASSUME NEW e, Good(e), e.status = "LOST", NEW fix \in Fix, Resting(fix),
         conf.kidnap_fixes > 0
  PROVE LET u == RestCheck(e, fix)
        IN \/ u.status = "SEEDING"
           \/ /\ u.status = "LOST" /\ u.still_ticks = e.still_ticks
              /\ RestShort(u) = RestShort(e)
              /\ Short(u.rest_count, conf.kidnap_fixes)
                   <= Short(e.rest_count, conf.kidnap_fixes)
              /\ e.rest_count < conf.kidnap_fixes
                   => Short(u.rest_count, conf.kidnap_fixes)
                        < Short(e.rest_count, conf.kidnap_fixes)
              /\ Short(e.still_ticks, WantedStill) + RestShort(e) = 0
                   => u.rest_count < conf.kidnap_fixes
<1>0. e \in Estimator BY DEF Good
<1> DEFINE r == RestCounted(e, fix)
           waits == \/ r.rest_count < conf.kidnap_fixes
                    \/ r.rest_ticks < conf.kidnap_settle_ticks
                    \/ r.still_ticks = 0
                    \/ r.still_ticks < conf.kidnap_settle_ticks
           s == Reseeded(r, r.rest_count)
<1>1. /\ e.still_ticks \in Nat /\ e.rest_ticks \in Nat
      /\ e.rest_count \in 0 .. MaxCount
  BY <1>0, Counts DEF Estimator
<1>2. /\ r \in Estimator
      /\ r.status = "LOST" /\ r.still_ticks = e.still_ticks
      /\ \/ e.rest_count = 0 /\ r.rest_count = 1 /\ r.rest_ticks = 0
         \/ /\ e.rest_count > 0 /\ r.rest_count = Count(e.rest_count)
            /\ r.rest_ticks = e.rest_ticks
  <2>1. CASE e.rest_count = 0
    <3>1. r = [e EXCEPT !.rest_count = 1, !.rest_ticks = 0]
      BY <2>1 DEF RestCounted
    <3> HIDE DEF r
    <3>2. r \in Estimator BY <1>0, <3>1, Zeros DEF Estimator
    <3> QED BY <1>0, <2>1, <3>1, <3>2 DEF Estimator
  <2>2. CASE e.rest_count # 0
    <3>1. r = [e EXCEPT !.rest_count = Count(e.rest_count)]
      BY <2>2 DEF RestCounted, Resting
    <3>2. Count(e.rest_count) \in 0 .. MaxCount BY <1>1, Counts
    <3>3. e.rest_count > 0 BY <1>1, <2>2, Counts
    <3> HIDE DEF r
    <3>4. r \in Estimator BY <1>0, <3>1, <3>2 DEF Estimator
    <3> QED BY <1>0, <3>1, <3>3, <3>4 DEF Estimator
  <2> QED BY <2>1, <2>2
<1>3. RestCheck(e, fix) = IF waits THEN r ELSE [s EXCEPT !.rest_count = 0]
  BY SettleTypes DEF RestCheck
<1> HIDE DEF r
<1>4. /\ r.rest_count \in Nat /\ r.rest_ticks \in Nat /\ r.still_ticks \in Nat
  BY <1>2, Counts DEF Estimator
<1>5. CASE waits
  <2>1. RestShort(r) = RestShort(e)
    <3>1. CASE e.rest_count = 0
      <4>1. /\ RestShort(e) = conf.kidnap_settle_ticks
            /\ RestShort(r) = Short(0, conf.kidnap_settle_ticks)
        BY <1>2, <3>1 DEF RestShort
      <4> QED BY <4>1, SettleTypes DEF Short
    <3>2. CASE e.rest_count # 0
      <4>1. Count(e.rest_count) # 0 BY <1>1, <1>2, <3>2, Counts
      <4> QED BY <1>2, <3>2, <4>1 DEF RestShort
    <3> QED BY <3>1, <3>2
  <2>2. /\ Short(r.rest_count, conf.kidnap_fixes)
             <= Short(e.rest_count, conf.kidnap_fixes)
        /\ e.rest_count < conf.kidnap_fixes
             => Short(r.rest_count, conf.kidnap_fixes)
                  < Short(e.rest_count, conf.kidnap_fixes)
    <3>1. /\ e.rest_count \in Nat /\ r.rest_count >= e.rest_count
          /\ e.rest_count < conf.kidnap_fixes => r.rest_count >= e.rest_count + 1
      <4>1. e.rest_count < MaxCount => Count(e.rest_count) = e.rest_count + 1
        BY DEF Count
      <4>2. e.rest_count \in Nat /\ Count(e.rest_count) >= e.rest_count
        BY <1>1, Counts
      <4>3. CASE e.rest_count = 0 BY <1>2, <4>2, <4>3
      <4>4. CASE e.rest_count # 0
        BY <1>2, <4>1, <4>2, <4>4, Counts
      <4> QED BY <4>3, <4>4
    <3> QED BY <1>4, <3>1, SettleTypes DEF Short
  <2>3. Short(e.still_ticks, WantedStill) + RestShort(e) = 0
          => r.rest_count < conf.kidnap_fixes
    <3> SUFFICES ASSUME Short(e.still_ticks, WantedStill) + RestShort(e) = 0
                 PROVE r.rest_count < conf.kidnap_fixes
      OBVIOUS
    <3>1. Short(e.still_ticks, WantedStill) = 0 /\ RestShort(r) = 0
      BY <2>1, ShortTypes
    <3>2. e.still_ticks >= WantedStill BY <1>1, <3>1, SettleTypes, ShortRange
    <3>3. r.rest_count # 0
      BY <1>1, <1>2, <1>4, Counts
    <3>4. r.rest_ticks >= conf.kidnap_settle_ticks
      BY <1>4, <3>1, <3>3, SettleTypes, ShortRange DEF RestShort
    <3> QED BY <1>2, <1>4, <1>5, <3>2, <3>4, SettleTypes
  <2> QED BY <1>2, <1>3, <1>5, <2>1, <2>2, <2>3
<1>6. CASE ~waits
  <2>1. [s EXCEPT !.rest_count = 0].status = "SEEDING"
    BY <1>2 DEF Reseeded, Estimator
  <2> QED BY <1>3, <1>6, <2>1
<1> QED BY <1>5, <1>6

\* A fix at rest where the pose is not
LEMMA RestingFixLowers ==
  ASSUME NEW e, Good(e), NEW fix \in Fix, Resting(fix), CanSettle
  PROVE /\ Good(Updated(e, fix))
        /\ Lowers(e, Updated(e, fix), AwaitsFix(e))
<1> DEFINE u == Updated(e, fix)
<1>0. /\ e \in Estimator /\ conf.kidnap_fixes > 0
      /\ e.status \in {"SEEDING", "TRACKING", "LOST"}
  BY DEF Good, Estimator, CanSettle
<1>1. Good(u) BY UpdatedGood
<1> SUFFICES Lowers(e, u, AwaitsFix(e)) BY <1>1
<1> DEFINE c == ChainAdd(e, fix)
<1>2. /\ c.status = e.status /\ c.unseeded = e.unseeded
      /\ c.kidnap_count = e.kidnap_count /\ c.still_ticks = e.still_ticks
      /\ c.rest_count = e.rest_count /\ c.rest_ticks = e.rest_ticks
  BY <1>0, RestingChain
<1>3. CASE e.status = "SEEDING"
  <2>1. u.status = "SEEDING" BY <1>2, <1>3 DEF Updated
  <2> HIDE DEF u
  <2>2. Patience(u) = 0 /\ Patience(e) = 0 BY <1>0, <1>1, <1>3, <2>1, PatienceRange
  <2> QED BY <1>3, <2>2 DEF Lowers
<1>4. CASE e.status = "TRACKING"
  <2>1. u = KidnapCheck(e, fix) BY <1>4 DEF Updated, Good, Resting
  <2> HIDE DEF u
  <2>2. \/ u.status = "SEEDING"
        \/ /\ u.status = "TRACKING" /\ u.still_ticks = e.still_ticks
           /\ StillShort(e) = 0 => RowShort(u) < RowShort(e)
    BY <1>0, <1>4, <2>1, RejectedShort
  <2>3. /\ Patience(e) = 1 + MostLost + TrackedShort(e) /\ Patience(e) \in Nat
        /\ TrackedShort(e) \in Nat /\ MostLost \in Nat
    BY <1>0, <1>4, PatienceRange, ShortTypes, SettleTypes
  <2>4. CASE u.status = "SEEDING"
    <3>1. Patience(u) = 0 BY <1>0, <1>1, <2>4, PatienceRange
    <3> QED BY <2>3, <3>1 DEF Lowers
  <2>5. CASE /\ u.status = "TRACKING" /\ u.still_ticks = e.still_ticks
             /\ StillShort(e) = 0 => RowShort(u) < RowShort(e)
    <3>1. StillShort(u) = StillShort(e) BY <2>5 DEF StillShort
    <3>2. /\ AwaitsFix(e) <=> StillShort(e) = 0
          /\ AwaitsFix(u) <=> StillShort(e) = 0
      BY <1>4, <2>5, <3>1 DEF AwaitsFix
    <3>3. /\ Patience(u) = 1 + MostLost + TrackedShort(u) /\ Patience(u) \in Nat
          /\ TrackedShort(u) \in Nat /\ StillShort(e) \in Nat
          /\ RowShort(u) \in Nat /\ RowShort(e) \in Nat
      BY <1>0, <1>1, <2>5, PatienceRange, ShortTypes
    <3>4. /\ TrackedShort(u) <= TrackedShort(e)
          /\ StillShort(e) = 0 => TrackedShort(u) < TrackedShort(e)
      BY <2>5, <3>1, <3>3, SettleTypes DEF TrackedShort
    <3> QED BY <2>3, <3>2, <3>3, <3>4 DEF Lowers
  <2> QED BY <2>2, <2>4, <2>5
<1>5. CASE e.status = "LOST"
  <2>1. u = RestCheck(c, fix) BY <1>2, <1>5 DEF Updated, LostUpdate, Resting
  <2>2. Good(c)
    <3>1. CASE Chained(e, c) BY <3>1, ChainedGood
    <3>2. CASE ~Chained(e, c)
      <4>1. Good(c) BY <1>5, <3>2, ChainAddGood
      <4> QED BY <4>1
    <3> QED BY <3>1, <3>2
  <2> HIDE DEF u, c
  <2>3. /\ RestShort(c) = RestShort(e) /\ LostShort(c) = LostShort(e)
    BY <1>2 DEF LostShort, RestShort
  <2> DEFINE still == Short(e.still_ticks, WantedStill)
             count == Short(e.rest_count, conf.kidnap_fixes)
  <2>4. \/ u.status = "SEEDING"
        \/ /\ u.status = "LOST" /\ u.still_ticks = e.still_ticks
           /\ RestShort(u) = RestShort(e)
           /\ Short(u.rest_count, conf.kidnap_fixes) <= count
           /\ e.rest_count < conf.kidnap_fixes
                => Short(u.rest_count, conf.kidnap_fixes) < count
           /\ still + RestShort(e) = 0 => u.rest_count < conf.kidnap_fixes
    BY <1>0, <1>2, <1>5, <2>1, <2>2, <2>3, RestedShort
  <2>5. /\ Patience(e) = 1 + LostShort(e) /\ Patience(e) \in Nat
        /\ LostShort(e) = still + RestShort(e) + count
        /\ still \in Nat /\ RestShort(e) \in Nat /\ count \in Nat
    BY <1>0, <1>5, PatienceRange, ShortTypes DEF LostShort
  <2>6. CASE u.status = "SEEDING"
    <3>1. Patience(u) = 0 BY <1>0, <1>1, <2>6, PatienceRange
    <3> QED BY <2>5, <3>1 DEF Lowers
  <2>7. CASE u.status # "SEEDING"
    <3> DEFINE ucount == Short(u.rest_count, conf.kidnap_fixes)
    <3>1. /\ Patience(u) = 1 + LostShort(u) /\ Patience(u) \in Nat
          /\ LostShort(u) = still + RestShort(e) + ucount /\ ucount \in Nat
      BY <1>0, <1>1, <2>4, <2>7, PatienceRange, ShortTypes DEF LostShort
    <3>2. /\ u.rest_count \in Nat /\ e.rest_count \in Nat
      BY <1>0, <1>1, Counts DEF Good, Estimator
    <3>3. /\ AwaitsFix(e) <=> e.rest_count < conf.kidnap_fixes \/ still + RestShort(e) = 0
          /\ AwaitsFix(u) <=> u.rest_count < conf.kidnap_fixes \/ still + RestShort(e) = 0
      BY <1>5, <2>4, <2>7 DEF AwaitsFix
    <3>4. /\ count = 0 <=> ~(e.rest_count < conf.kidnap_fixes)
          /\ ucount = 0 <=> ~(u.rest_count < conf.kidnap_fixes)
      <4>1. \A t \in Nat, l \in Nat : Short(t, l) = 0 <=> t >= l BY ShortRange
      <4> QED BY <3>2, <4>1, SettleTypes
    <3> HIDE DEF still, count, ucount
    <3>5. ucount <= count /\ (AwaitsFix(e) => ucount < count)
      <4>1. ucount <= count /\ (e.rest_count < conf.kidnap_fixes => ucount < count)
        BY <2>4, <2>7 DEF ucount
      <4>2. CASE /\ still + RestShort(e) = 0
                 /\ ~(e.rest_count < conf.kidnap_fixes)
        <5>1. ucount # 0 /\ count = 0 BY <2>4, <2>7, <3>4, <4>2
        <5> QED BY <2>5, <3>1, <4>1, <5>1
      <4> QED BY <3>3, <4>1, <4>2
    <3>6. /\ Patience(u) <= Patience(e)
          /\ AwaitsFix(e) => Patience(u) < Patience(e)
          /\ Patience(u) = Patience(e) => ucount = count
      BY <2>5, <3>1, <3>5
    <3> QED BY <3>1, <3>3, <3>4, <3>6 DEF Lowers
  <2> QED BY <2>6, <2>7
<1> QED BY <1>0, <1>3, <1>4, <1>5

\* The ticks and fixes of a robot put down by hand never set its estimator back.
THEOREM PatienceFallsCorrect == Spec => PatienceFalls
<1> DEFINE Falls ==
      CanSettle => /\ StillTick => Lowers(est, est', ~AwaitsFix(est))
                   /\ RestingFix => Lowers(est, est', AwaitsFix(est))
<1>1. IInv /\ [Next]_vars => [Falls]_vars
  <2> SUFFICES ASSUME IInv, CanSettle
               PROVE /\ StillTick => Lowers(est, est', ~AwaitsFix(est))
                     /\ RestingFix => Lowers(est, est', AwaitsFix(est))
    OBVIOUS
  <2>1. Good(est) BY DEF IInv
  <2>2. ASSUME NEW n \in Elapsed, Predict(n, TRUE, FALSE)
        PROVE Lowers(est, est', ~AwaitsFix(est))
    <3>1. est' = Predicted(est, n, TRUE, FALSE) BY <2>2 DEF Predict
    <3> QED BY <2>1, <3>1, StillTickLowers
  <2>3. ASSUME NEW fix \in Fix, Resting(fix), Update(fix)
        PROVE Lowers(est, est', AwaitsFix(est))
    <3>1. est' = Updated(est, fix) BY <2>3 DEF Update
    <3> QED BY <2>1, <2>3, <3>1, RestingFixLowers
  <2> QED BY <2>2, <2>3 DEF StillTick, RestingFix, Resting
<1>2. Spec => [][Falls]_vars BY <1>1, PoseInvariant, PTL DEF Spec
<1> QED BY <1>2 DEF PatienceFalls

\* Induction over the numbers, and the least of a set of them
LEMMA LeastNat ==
  ASSUME NEW T \in SUBSET Nat, T # {}
  PROVE \E x \in T : \A y \in T : x <= y
<1> DEFINE R == OpToRel(<, Nat)
<1>1. IsWellFoundedOn(R, Nat) BY NatLessThanWellFounded
<1>2. \A x, y \in Nat : x < y => <<x, y>> \in R BY DEF OpToRel
<1> HIDE DEF R
<1>3. PICK x \in T : \A y \in T : ~ (<<y, x>> \in R) BY <1>1, WFMin
<1>4. ASSUME NEW y \in T PROVE x <= y
  <2>1. x \in Nat /\ y \in Nat /\ ~(y < x) BY <1>2, <1>3
  <2> QED BY <2>1
<1> QED BY <1>4

LEMMA AllNats ==
  ASSUME NEW T \in SUBSET Nat, 0 \in T, \A i \in T : i + 1 \in T
  PROVE T = Nat
<1> SUFFICES ASSUME NEW k \in Nat \ T PROVE FALSE OBVIOUS
<1>1. Nat \ T \in SUBSET Nat /\ Nat \ T # {} OBVIOUS
<1>2. PICK x \in Nat \ T : \A y \in Nat \ T : x <= y BY <1>1, LeastNat
<1>3. x \in Nat /\ x # 0 /\ x - 1 \in Nat OBVIOUS
<1>4. x - 1 \in T BY <1>2, <1>3
<1>5. (x - 1) + 1 \in T BY <1>4
<1> QED BY <1>3, <1>5

\* Any sequence of calls that ticks the estimator of a standing robot again and
\* again, and brings it fixes at rest outside the gate again and again, whatever
\* it knew before, ends in SEEDING for good.
THEOREM PutDownReseeds ==
  ASSUME CanSettle, NEW run \in [Nat -> Estimator], Good(run[0]),
         NEW ticks \in SUBSET Nat,
         \A i \in Nat : \E j \in ticks : i <= j,
         \A i \in Nat : \E j \in Nat \ ticks : i <= j,
         \A i \in ticks :
           \E n \in Elapsed : run[i + 1] = Predicted(run[i], n, TRUE, FALSE),
         \A i \in Nat \ ticks :
           \E fix \in Fix : Resting(fix) /\ run[i + 1] = Updated(run[i], fix)
  PROVE \E m \in Nat : \A k \in Nat : run[m + k].status = "SEEDING"
<1>0. conf.kidnap_fixes > 0 BY DEF CanSettle
<1>1. ASSUME NEW i \in Nat, Good(run[i])
      PROVE /\ Good(run[i + 1])
            /\ \E b \in {AwaitsFix(run[i]), ~AwaitsFix(run[i])} :
                 Lowers(run[i], run[i + 1], b)
            /\ i \in ticks => Lowers(run[i], run[i + 1], ~AwaitsFix(run[i]))
            /\ i \notin ticks => Lowers(run[i], run[i + 1], AwaitsFix(run[i]))
  <2>1. CASE i \in ticks
    <3>1. PICK n \in Elapsed : run[i + 1] = Predicted(run[i], n, TRUE, FALSE) BY <2>1
    <3> QED BY <1>1, <2>1, <3>1, StillTickLowers
  <2>2. CASE i \notin ticks
    <3>1. PICK fix \in Fix : Resting(fix) /\ run[i + 1] = Updated(run[i], fix)
      BY <2>2
    <3> QED BY <1>1, <2>2, <3>1, RestingFixLowers
  <2> QED BY <2>1, <2>2
<1>2. \A i \in Nat : Good(run[i])
  <2> DEFINE T == {i \in Nat : Good(run[i])}
  <2>1. T \in SUBSET Nat /\ 0 \in T OBVIOUS
  <2>2. \A i \in T : i + 1 \in T BY <1>1
  <2> HIDE DEF T
  <2>3. T = Nat BY <2>1, <2>2, AllNats
  <2> QED BY <2>3 DEF T
<1> DEFINE left == [i \in Nat |-> Patience(run[i])]
           fixed == [i \in Nat |-> IF AwaitsFix(run[i]) THEN 1 ELSE 0]
<1>3. /\ \A i \in Nat : /\ left[i] \in Nat /\ left[i + 1] <= left[i]
                        /\ left[i] = 0 <=> run[i].status = "SEEDING"
      /\ \A i \in Nat :
           left[i] # 0 /\ left[i + 1] = left[i]
             => /\ fixed[i + 1] = fixed[i]
                /\ i \in ticks => fixed[i] = 1
                /\ i \notin ticks => fixed[i] = 0
  <2> SUFFICES ASSUME NEW i \in Nat
               PROVE /\ left[i] \in Nat /\ left[i + 1] <= left[i]
                     /\ left[i] = 0 <=> run[i].status = "SEEDING"
                     /\ left[i] # 0 /\ left[i + 1] = left[i]
                          => /\ fixed[i + 1] = fixed[i]
                             /\ i \in ticks => fixed[i] = 1
                             /\ i \notin ticks => fixed[i] = 0
    OBVIOUS
  <2>1. i + 1 \in Nat /\ Good(run[i]) BY <1>2
  <2>2. /\ left[i] = Patience(run[i]) /\ left[i + 1] = Patience(run[i + 1])
        /\ fixed[i] = (IF AwaitsFix(run[i]) THEN 1 ELSE 0)
        /\ fixed[i + 1] = (IF AwaitsFix(run[i + 1]) THEN 1 ELSE 0)
    BY <2>1
  <2> HIDE DEF left, fixed
  <2>3. left[i] \in Nat /\ (left[i] = 0 <=> run[i].status = "SEEDING")
    BY <1>0, <2>1, <2>2, PatienceRange
  <2>4. CASE i \in ticks
    <3>1. Lowers(run[i], run[i + 1], ~AwaitsFix(run[i])) BY <1>1, <2>1, <2>4
    <3> QED BY <2>2, <2>3, <2>4, <3>1 DEF Lowers
  <2>5. CASE i \notin ticks
    <3>1. Lowers(run[i], run[i + 1], AwaitsFix(run[i])) BY <1>1, <2>1, <2>5
    <3> QED BY <2>2, <2>3, <2>5, <3>1 DEF Lowers
  <2> QED BY <2>4, <2>5
<1> HIDE DEF left, fixed
<1>4. PICK m \in Nat : \A i \in Nat : left[m] <= left[i]
  <2> DEFINE T == {left[i] : i \in Nat}
  <2>1. T \in SUBSET Nat /\ T # {} BY <1>3
  <2> HIDE DEF T
  <2>2. PICK x \in T : \A y \in T : x <= y BY <2>1, LeastNat
  <2> QED BY <2>2 DEF T
\* From there on the estimator gets no nearer, and so waits for one kind of call
<1>5. \A k \in Nat : left[m + k] = left[m]
  <2> DEFINE T == {k \in Nat : left[m + k] = left[m]}
  <2>1. T \in SUBSET Nat /\ 0 \in T OBVIOUS
  <2>2. ASSUME NEW k \in T PROVE k + 1 \in T
    <3>1. m + k \in Nat /\ (m + k) + 1 = m + (k + 1) /\ (m + k) + 1 \in Nat OBVIOUS
    <3>2. /\ left[(m + k) + 1] <= left[m + k] /\ left[m] <= left[(m + k) + 1]
          /\ left[m + k] = left[m] /\ left[m] \in Nat /\ left[(m + k) + 1] \in Nat
      BY <1>3, <1>4, <3>1
    <3>3. left[(m + k) + 1] = left[m] BY <3>2
    <3> QED BY <3>1, <3>3
  <2> HIDE DEF T
  <2>3. T = Nat BY <2>1, <2>2, AllNats
  <2> QED BY <2>3 DEF T
<1>6. ASSUME left[m] # 0 PROVE FALSE
  <2>1. \A k \in Nat : fixed[m + k] = fixed[m]
    <3> DEFINE T == {k \in Nat : fixed[m + k] = fixed[m]}
    <3>1. T \in SUBSET Nat /\ 0 \in T OBVIOUS
    <3>2. ASSUME NEW k \in T PROVE k + 1 \in T
      <4>1. m + k \in Nat /\ (m + k) + 1 = m + (k + 1) /\ k + 1 \in Nat OBVIOUS
      <4>2. left[m + k] # 0 /\ left[(m + k) + 1] = left[m + k] BY <1>5, <1>6, <4>1
      <4>3. fixed[(m + k) + 1] = fixed[m + k] BY <1>3, <4>1, <4>2
      <4> QED BY <4>1, <4>3
    <3> HIDE DEF T
    <3>3. T = Nat BY <3>1, <3>2, AllNats
    <3> QED BY <3>3 DEF T
  <2>2. ASSUME NEW j \in Nat, m <= j
        PROVE /\ left[j] # 0 /\ left[j + 1] = left[j] /\ fixed[j] = fixed[m]
    <3>1. /\ j - m \in Nat /\ m + (j - m) = j
          /\ (j - m) + 1 \in Nat /\ m + ((j - m) + 1) = j + 1
      BY <2>2
    <3> QED BY <1>5, <1>6, <2>1, <3>1
  <2>3. PICK t \in ticks : m <= t OBVIOUS
  <2>4. PICK f \in Nat \ ticks : m <= f OBVIOUS
  <2>5. fixed[t] = 1 /\ fixed[t] = fixed[m] BY <1>3, <2>2, <2>3
  <2>6. fixed[f] = 0 /\ fixed[f] = fixed[m] BY <1>3, <2>2, <2>4
  <2> QED BY <2>5, <2>6
<1>7. \A k \in Nat : run[m + k].status = "SEEDING"
  <2> SUFFICES ASSUME NEW k \in Nat PROVE run[m + k].status = "SEEDING"
    OBVIOUS
  <2>1. m + k \in Nat /\ left[m + k] = 0 BY <1>5, <1>6
  <2> QED BY <1>3, <2>1
<1> QED BY <1>7
=============================================================================
