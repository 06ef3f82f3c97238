------------------------- MODULE SteeringOpsProofs -------------------------
(***************************************************************************)
(* Lemmas about the operators of SteeringOps: what every call of           *)
(* db_steering returns, for every value of the limits.                     *)
(***************************************************************************)
EXTENDS SteeringOps, WellFoundedInduction, TLAPS

\* What holds of the record at any point of a call, its timer perhaps run out
Base(s) == s \in SteeringState /\ Agrees(s) /\ Fits(s) /\ Restored(s) /\ Fresh(s)

\* What holds of the record between two calls
Good(s) == Base(s) /\ InTime(s) /\ Progressing(s)

\* What a call finds while a batch runs
Live(s) == Base(s) /\ Progressing(s) /\ Active(s)

\* What a step may return: a command, and the brake at rest and only there
GoodResult(r) ==
  /\ r \in Results
  /\ Good(r.s)
  /\ r.s.state # "IDLE"
  /\ r.s.state \in AtRest <=> r.out = "brake"
  /\ r.out # "none"

\* t is s but for the fields no invariant speaks of
Same(s, t) ==
  /\ t \in SteeringState
  /\ t.state = s.state /\ t.state_ticks = s.state_ticks
  /\ t.completion = s.completion /\ t.fail = s.fail
  /\ t.path = s.path /\ t.index = s.index
  /\ t.retries = s.retries /\ t.settle_count = s.settle_count
  /\ t.progress_ticks = s.progress_ticks

----------------------------------------------------------------------------
\* Helpers

\* The limit of a timed state is never negative
LEMMA LimitNat == \A state \in Timed : Limit(state) \in Nat
BY ConfAssumption DEF Timed, Limit

\* The invariants carry over to a record that is the same to them
LEMMA SameLive ==
  ASSUME NEW s, NEW t, Same(s, t)
  PROVE /\ Good(s) => Good(t)
        /\ Live(s) => Live(t)
BY DEF Same, Good, Live, Base, Agrees, Fits, Restored, Fresh, InTime,
       Progressing, Active, IsPose, IsPrecise, IsLast

\* Entering a state keeps the record well formed
LEMMA EnterType ==
  ASSUME NEW s \in SteeringState, NEW state \in State
  PROVE Enter(s, state) \in SteeringState
<1> DEFINE spinning == s.spinning /\ state = s.state
           resting == s.resting /\ state = s.state
<1>1. spinning \in BOOLEAN /\ resting \in BOOLEAN
  OBVIOUS
<1>2. Enter(s, state) = [s EXCEPT !.state = state, !.state_ticks = 0,
                                  !.spinning = spinning, !.resting = resting]
  BY DEF Enter
<1> HIDE DEF spinning, resting
<1> DEFINE t == [s EXCEPT !.state = state, !.state_ticks = 0]
<1>3. t \in SteeringState BY DEF SteeringState
<1>4. Enter(s, state) = [t EXCEPT !.spinning = spinning, !.resting = resting]
  BY <1>2
<1> HIDE DEF t
<1> QED BY <1>1, <1>3, <1>4 DEF SteeringState

\* A record between two calls of a running batch is one a call may find
LEMMA GoodLive ==
  ASSUME NEW s
  PROVE /\ Good(s) /\ Active(s) => Live(s)
        /\ Live(s) /\ InTime(s) => Good(s)
BY DEF Good, Live

\* Halting the wheels changes nothing the invariants speak of
LEMMA HaltSame ==
  ASSUME NEW s \in SteeringState
  PROVE Same(s, Halt(s))
BY DEF Same, Halt, SteeringState

\* A good record and a command make a result a step may return
LEMMA ResultGood ==
  ASSUME NEW s, Good(s), s.state # "IDLE",
         NEW out \in Command \ {"none"}, s.state \in AtRest <=> out = "brake"
  PROVE GoodResult(Result(s, out))
BY DEF GoodResult, Result, Results, Good, Base

LEMMA HaltedGood ==
  ASSUME NEW s, Good(s), s.state # "IDLE"
  PROVE /\ s.state \in AtRest => GoodResult(Braked(s))
        /\ s.state \notin AtRest => GoodResult(Coasted(s))
<1> DEFINE h == Halt(s)
<1>1. Good(h) /\ h.state = s.state
  BY HaltSame, SameLive DEF Good, Base, Same
<1>2. Braked(s) = Result(h, "brake") /\ Coasted(s) = Result(h, "coast")
  BY DEF Braked, Coasted
<1> HIDE DEF h
<1> QED BY <1>1, <1>2, ResultGood DEF Command

\* A state entered by a running batch, if it is one of the current point
LEMMA EnterGood ==
  ASSUME NEW s, Live(s),
         NEW state \in State \ {"IDLE", "ARRIVED", "FAILED"},
         state \in Moving \cup {"RECOVER"} => s.retries = 0,
         state = "FINAL_TURN" => IsPose(s),
         state \in {"SETTLE", "NUDGE"} => IsPrecise(s),
         state = "SETTLE" => s.settle_count = 0
  PROVE /\ Good(Enter(s, state))
        /\ Live(Enter(s, state))
        /\ Enter(s, state).state = state
        /\ Enter(s, state).state_ticks = 0
        /\ Enter(s, state).path = s.path
        /\ Enter(s, state).index = s.index
        /\ Enter(s, state).retries = s.retries
        /\ Enter(s, state).progress_ticks = s.progress_ticks
<1> DEFINE e == Enter(s, state)
<1>0. s \in SteeringState BY DEF Live, Base
<1>1. e \in SteeringState
  BY <1>0, EnterType
<1>2. /\ e.state = state
      /\ e.state_ticks = 0
      /\ e.completion = s.completion
      /\ e.fail = s.fail
      /\ e.path = s.path
      /\ e.index = s.index
      /\ e.retries = s.retries
      /\ e.settle_count = s.settle_count
      /\ e.progress_ticks = s.progress_ticks
  BY <1>0 DEF Enter, SteeringState
<1> HIDE DEF e
<1>3. IsPose(e) = IsPose(s) /\ IsPrecise(e) = IsPrecise(s)
  BY <1>2 DEF IsPose, IsPrecise, IsLast
<1>4. Live(e)
  BY <1>1, <1>2, <1>3
     DEF Live, Base, Agrees, Fits, Restored, Fresh, Progressing, Active, State
<1>5. InTime(e)
  BY <1>2, LimitNat DEF InTime
<1> QED BY <1>2, <1>4, <1>5, GoodLive DEF e

----------------------------------------------------------------------------
\* The ways a batch ends or settles

LEMMA FailGood ==
  ASSUME NEW s, Base(s), NEW reason \in FailReason \ {"NONE"}
  PROVE GoodResult(Braked(Fail(s, reason)))
<1> DEFINE f == Fail(s, reason)
<1>0. s \in SteeringState BY DEF Base
<1>1. f \in SteeringState
  <2>1. Enter(s, "FAILED") \in SteeringState BY <1>0, EnterType DEF State
  <2> QED BY <2>1 DEF Fail, SteeringState, Completion
<1>2. /\ f.state = "FAILED"
      /\ f.fail = reason
      /\ f.completion = "FAILED"
      /\ f.retries = s.retries
  BY <1>0 DEF Fail, Enter, SteeringState
<1> HIDE DEF f
<1>3. Good(f)
  BY <1>1, <1>2 DEF Good, Base, Agrees, Fits, Restored, Fresh, InTime,
     Progressing, Active, Timed, Moving
<1> QED BY <1>2, <1>3, HaltedGood DEF AtRest, f

LEMMA ArriveGood ==
  ASSUME NEW s, Live(s)
  PROVE GoodResult(Arrive(s))
<1> DEFINE f == [Enter(s, "ARRIVED") EXCEPT !.index = s.path.count,
                                            !.completion = "ARRIVED"]
<1>0. s \in SteeringState BY DEF Live, Base
<1>1. f \in SteeringState
  <2>1. Enter(s, "ARRIVED") \in SteeringState BY <1>0, EnterType DEF State
  <2>2. s.path.count \in 0 .. MaxPoints BY <1>0 DEF SteeringState, Path
  <2> QED BY <2>1, <2>2 DEF SteeringState, Completion
<1>2. /\ f.state = "ARRIVED"
      /\ f.fail = s.fail
      /\ f.completion = "ARRIVED"
      /\ f.retries = s.retries
      /\ f.index = f.path.count
  BY <1>0 DEF Enter, SteeringState
<1>3. Arrive(s) = Braked(f)
  BY DEF Arrive
<1> HIDE DEF f
<1>4. Good(f)
  BY <1>1, <1>2 DEF Good, Live, Base, Agrees, Fits, Restored, Fresh, InTime,
     Progressing, Active, Timed, Moving
<1> QED BY <1>2, <1>3, <1>4, HaltedGood DEF AtRest

LEMMA SettleGood ==
  ASSUME NEW s, Live(s), s.retries = 0, IsPrecise(s)
  PROVE GoodResult(Settle(s))
<1> DEFINE f == [Enter(s, "SETTLE") EXCEPT !.settle_count = 0]
<1> DEFINE t == [s EXCEPT !.settle_count = 0]
<1>0. s \in SteeringState BY DEF Live, Base
<1>1. /\ t \in SteeringState
      /\ t.state = s.state /\ t.state_ticks = s.state_ticks
      /\ t.completion = s.completion /\ t.fail = s.fail
      /\ t.path = s.path /\ t.index = s.index /\ t.retries = s.retries
      /\ t.settle_count = 0 /\ t.progress_ticks = s.progress_ticks
  BY <1>0 DEF SteeringState
<1>2. f = Enter(t, "SETTLE")
  BY <1>0 DEF Enter, SteeringState
<1>3. Settle(s) = Braked(f)
  BY DEF Settle
<1> HIDE DEF t, f
<1>4. Live(t) /\ IsPrecise(t)
  BY <1>1 DEF Live, Base, Agrees, Fits, Restored, Fresh, Progressing, Active,
     IsPose, IsPrecise, IsLast
<1>5. Good(f) /\ f.state = "SETTLE"
  BY <1>1, <1>2, <1>4, EnterGood DEF State
<1> QED BY <1>3, <1>5, HaltedGood DEF AtRest

----------------------------------------------------------------------------
\* _move

LEMMA FinalTurnGood ==
  ASSUME NEW s, Live(s), s.state = "FINAL_TURN"
  PROVE \A r \in FinalTurn(s) : GoodResult(r)
<1> DEFINE t == [s EXCEPT !.v = 0, !.turning = TRUE]
<1>0. s \in SteeringState BY DEF Live, Base
<1>1. GoodResult(Arrive(s)) BY ArriveGood
<1>2. GoodResult(Braked(Fail(s, "TURN"))) BY FailGood DEF Live, FailReason
<1>3. ASSUME ~(s.state_ticks > conf.turn_ticks)
      PROVE GoodResult(Result(t, "turn"))
  <2>1. Good(s)
    BY <1>0, <1>3, ConfAssumption, GoodLive DEF InTime, Limit, SteeringState
  <2>2. Same(s, t)
    BY <1>0 DEF Same, SteeringState
  <2> HIDE DEF t
  <2>3. Good(t) /\ t.state = "FINAL_TURN"
    BY <2>1, <2>2, SameLive DEF Same
  <2> QED BY <2>3, ResultGood DEF Command, AtRest
<1> QED BY <1>1, <1>2, <1>3 DEF FinalTurn, When

\* Taking on the next point starts its progress anew; after a pose, in ALIGN
LEMMA AdvanceLive ==
  ASSUME NEW s, Live(s), s.state \in {"ALIGN", "DRIVE", "FINAL_TURN"},
         NEW i \in s.index .. s.path.count - 1
  PROVE /\ Live(AdvanceTo(s, i))
        /\ AdvanceTo(s, i).state \in {"ALIGN", "DRIVE", "FINAL_TURN"}
        /\ AdvanceTo(s, i).path = s.path
<1>0. s \in SteeringState /\ s.retries = 0
  BY DEF Live, Base, Restored, Moving
<1>1. CASE i = s.index
  BY <1>1 DEF AdvanceTo
<1>2. CASE i # s.index
  <2> DEFINE passed == \E j \in s.index .. i - 1 : j \in s.path.poses
  <2> DEFINE e == IF passed THEN Enter(s, "ALIGN") ELSE s
  <2> DEFINE a == AdvanceTo(s, i)
  <2>0. s.index \in Nat /\ s.path.count \in Nat /\ s.path.count <= MaxPoints
    BY <1>0, BoundsAssumption DEF SteeringState, Path
  <2>1. /\ Live(e)
        /\ e.path = s.path /\ e.index = s.index /\ e.retries = 0
        /\ e.state = IF passed THEN "ALIGN" ELSE s.state
    BY <1>0, EnterGood DEF State
  <2>2. e.state \in {"ALIGN", "DRIVE"}
    <3>1. CASE passed BY <3>1, <2>1
    <3>2. CASE ~passed
      <4>1. s.index \in s.index .. i - 1 BY <1>2, <2>0
      <4>2. s.index \notin s.path.poses BY <3>2, <4>1
      <4>3. s.state # "FINAL_TURN" BY <4>2 DEF Live, Base, Fits, IsPose
      <4> QED BY <2>1, <3>2, <4>3
    <3> QED BY <3>1, <3>2
  <2>3. a = ResetProgress([e EXCEPT !.index = i])
    BY <1>2 DEF AdvanceTo
  <2> HIDE DEF e, a, passed
  <2>4. e \in SteeringState BY <2>1 DEF Live, Base
  <2>5. a \in SteeringState
    <3>1. i \in 0 .. MaxPoints /\ Infinity \in 0 .. Infinity
      BY <2>0, BoundsAssumption DEF Infinity
    <3> QED BY <2>3, <2>4, <3>1 DEF ResetProgress, SteeringState
  <2>6. /\ a.state = e.state /\ a.state_ticks = e.state_ticks
        /\ a.completion = e.completion /\ a.fail = e.fail
        /\ a.path = e.path /\ a.index = i /\ a.retries = e.retries
        /\ a.settle_count = e.settle_count /\ a.progress_ticks = 0
    BY <2>3, <2>4 DEF ResetProgress, SteeringState
  <2>7. Live(a)
    BY <2>0, <2>1, <2>2, <2>5, <2>6, ConfAssumption
       DEF Live, Base, Agrees, Fits, Restored, Fresh, Progressing, Active
  <2> QED BY <2>1, <2>2, <2>6, <2>7 DEF a
<1> QED BY <1>1, <1>2

LEMMA ReachedGood ==
  ASSUME NEW s, Live(s), s.state \in {"ALIGN", "DRIVE"}
  PROVE \A r \in Reached(s) : GoodResult(r)
<1>0. s.retries = 0 BY DEF Live, Base, Restored, Moving
<1>1. IsPrecise(s) => GoodResult(Settle(s)) BY <1>0, SettleGood
<1>2. GoodResult(Arrive(s)) BY ArriveGood
<1>3. IsPose(s) => \A r \in FinalTurn(Enter(s, "FINAL_TURN")) : GoodResult(r)
  BY <1>0, EnterGood, FinalTurnGood DEF State
<1> QED BY <1>1, <1>2, <1>3 DEF Reached, When

LEMMA SteerGood ==
  ASSUME NEW s, Live(s), s.state \in {"ALIGN", "DRIVE"}
  PROVE \A r \in Steer(s) : GoodResult(r)
<1>0. s \in SteeringState BY DEF Live, Base
<1>1. CASE s.state = "DRIVE"
  <2>1. Good(s) BY <1>1, GoodLive DEF InTime, Timed
  <2>2. ASSUME NEW v \in {-1, 0, 1}
        PROVE GoodResult(Result([s EXCEPT !.v = v, !.turning = FALSE], "drive"))
    <3> DEFINE t == [s EXCEPT !.v = v, !.turning = FALSE]
    <3>1. Same(s, t) BY <1>0 DEF Same, SteeringState
    <3> HIDE DEF t
    <3>2. Good(t) /\ t.state = "DRIVE" BY <1>1, <2>1, <3>1, SameLive DEF Same
    <3>3. GoodResult(Result(t, "drive")) BY <3>2, ResultGood DEF Command, AtRest
    <3> QED BY <3>3 DEF t
  <2> QED BY <1>1, <2>2 DEF Steer
<1>2. CASE s.state = "ALIGN" /\ s.state_ticks > conf.turn_ticks
  BY <1>2, FailGood DEF Steer, Live, FailReason
<1>3. CASE s.state = "ALIGN" /\ ~(s.state_ticks > conf.turn_ticks)
  <2> DEFINE t == [s EXCEPT !.v = 0, !.turning = TRUE]
  <2>1. Good(s)
    BY <1>0, <1>3, ConfAssumption, GoodLive DEF InTime, Limit, SteeringState
  <2>2. Same(s, t) BY <1>0 DEF Same, SteeringState
  <2>3. Steer(s) = {Result(t, "turn")} BY <1>3 DEF Steer
  <2> HIDE DEF t
  <2>4. Good(t) /\ t.state = "ALIGN" BY <1>3, <2>1, <2>2, SameLive DEF Same
  <2> QED BY <2>3, <2>4, ResultGood DEF Command, AtRest
<1> QED BY <1>1, <1>2, <1>3

\* Short of the point: the progress timer, then the heading error, then the turn
LEMMA ApproachGood ==
  ASSUME NEW s, Live(s), s.state \in {"ALIGN", "DRIVE"}, NEW n \in Nat
  PROVE \A r \in Approach(s, n) : GoodResult(r)
<1>0. s \in SteeringState /\ s.retries = 0
  BY DEF Live, Base, Restored, Moving
<1>1. ASSUME NEW p \in Closer(s) \cup NotCloser(s, n)
      PROVE Base(p) /\ Active(p) /\ p.state = s.state /\ p.retries = 0
  <2>1. /\ p \in SteeringState
        /\ p.state = s.state /\ p.state_ticks = s.state_ticks
        /\ p.completion = s.completion /\ p.fail = s.fail
        /\ p.path = s.path /\ p.index = s.index /\ p.retries = s.retries
        /\ p.settle_count = s.settle_count
    <3>1. CASE p \in Closer(s)
      <4>1. PICK l \in 0 .. s.best - 1 :
              p = [s EXCEPT !.best = l, !.progress_ticks = 0]
        BY <3>1 DEF Closer
      <4>2. l \in 0 .. Infinity
        BY <1>0, BoundsAssumption DEF SteeringState, Infinity
      <4> QED BY <1>0, <4>1, <4>2 DEF SteeringState
    <3>2. CASE p \in NotCloser(s, n)
      BY <1>0, <3>2 DEF NotCloser, When, SteeringState
    <3> QED BY <3>1, <3>2
  <2> QED
    BY <1>0, <2>1 DEF Live, Base, Agrees, Fits, Restored, Fresh, Active,
       IsPose, IsPrecise, IsLast
<1>2. ASSUME NEW p \in Closer(s) \cup NotCloser(s, n),
             p.progress_ticks > conf.progress_ticks
      PROVE GoodResult(Braked(Fail(p, "PROGRESS")))
  BY <1>1, FailGood DEF FailReason
<1>3. ASSUME NEW p \in Closer(s) \cup NotCloser(s, n),
             ~(p.progress_ticks > conf.progress_ticks),
             NEW b \in Bearing(p)
      PROVE \A r \in Steer(b) : GoodResult(r)
  <2>1. Live(p)
    BY <1>1, <1>3, ConfAssumption DEF Live, Base, Progressing, SteeringState
  <2>2. Live(b) /\ b.state \in {"ALIGN", "DRIVE"}
    BY <1>1, <2>1, EnterGood DEF Bearing, State
  <2> QED BY <2>2, SteerGood
<1> QED BY <1>2, <1>3 DEF Approach

LEMMA MoveGood ==
  ASSUME NEW s, Live(s), s.state \in {"ALIGN", "DRIVE", "FINAL_TURN"}, NEW n \in Nat
  PROVE \A r \in Move(s, n) : GoodResult(r)
<1> DEFINE t == [s EXCEPT !.has_last = TRUE]
<1>1. Same(s, t) BY DEF Same, Live, Base, SteeringState
<1>2. \A r \in Move(s, n) :
        \E i \in s.index .. s.path.count - 1 : r \in MoveAt(AdvanceTo(t, i), n)
  BY DEF Move
<1> HIDE DEF t
<1>3. /\ Live(t)
      /\ t.state = s.state /\ t.path = s.path /\ t.index = s.index
  BY <1>1, SameLive DEF Same
<1>4. ASSUME NEW i \in s.index .. s.path.count - 1
      PROVE \A r \in MoveAt(AdvanceTo(t, i), n) : GoodResult(r)
  <2> DEFINE a == AdvanceTo(t, i)
  <2>1. Live(a) /\ a.state \in {"ALIGN", "DRIVE", "FINAL_TURN"}
    BY <1>3, AdvanceLive
  <2> HIDE DEF a
  <2>2. \A r \in MoveAt(a, n) : GoodResult(r)
    BY <2>1, FinalTurnGood, ReachedGood, ApproachGood DEF MoveAt
  <2> QED BY <2>2 DEF a
<1> QED BY <1>2, <1>4

----------------------------------------------------------------------------
\* The states that do not move along the path

LEMMA RetryGood ==
  ASSUME NEW s, Live(s), NEW resting \in BOOLEAN
  PROVE GoodResult(NoHeadingRetry(s, resting))
<1>0. s \in SteeringState BY DEF Live, Base
<1>1. CASE s.retries >= conf.no_heading_retries
  <2>1. GoodResult(Braked(Fail(s, "NO_HEADING")))
    BY FailGood DEF Live, FailReason
  <2> QED BY <1>1, <2>1 DEF NoHeadingRetry
<1>2. CASE ~(s.retries >= conf.no_heading_retries)
  <2> DEFINE e == Enter(s, "HOLD")
  <2> DEFINE h == [e EXCEPT !.retries = @ + 1, !.resting = resting]
  <2>1. NoHeadingRetry(s, resting) = Braked(h) BY <1>2 DEF NoHeadingRetry
  <2>2. Good(e) /\ e.state = "HOLD" /\ e.retries = s.retries
    BY EnterGood DEF State, Moving
  <2> HIDE DEF e
  <2>3. e \in SteeringState BY <2>2 DEF Good, Base
  <2>4. h \in SteeringState
    <3>1. e.retries + 1 \in Nat BY <2>3 DEF SteeringState
    <3> QED BY <2>3, <3>1 DEF SteeringState
  <2>5. /\ h.state = "HOLD" /\ h.state_ticks = e.state_ticks
        /\ h.completion = e.completion /\ h.fail = e.fail
        /\ h.path = e.path /\ h.index = e.index /\ h.retries = s.retries + 1
        /\ h.progress_ticks = e.progress_ticks
    BY <2>2, <2>3 DEF SteeringState
  <2> HIDE DEF h
  <2>6. s.retries + 1 <= conf.no_heading_retries
    BY <1>0, <1>2, ConfAssumption DEF SteeringState
  <2>7. Good(h)
    BY <2>2, <2>4, <2>5, <2>6 DEF Good, Base, Agrees, Fits, Restored, Fresh,
       InTime, Progressing, Active, Moving
  <2> QED BY <2>1, <2>5, <2>7, HaltedGood DEF AtRest
<1> QED BY <1>1, <1>2

LEMMA HeadingLostGood ==
  ASSUME NEW s, Live(s), s.retries = 0
  PROVE \A r \in HeadingLost(s) : GoodResult(r)
<1>1. GoodResult(Coasted(Enter(s, "NO_HEADING")))
  BY EnterGood, HaltedGood DEF State, Moving, AtRest
<1>2. GoodResult(Result([Enter(s, "RECOVER") EXCEPT !.turning = FALSE], "straight"))
  <2> DEFINE e == Enter(s, "RECOVER")
  <2> DEFINE t == [e EXCEPT !.turning = FALSE]
  <2>1. Good(e) /\ e.state = "RECOVER" BY EnterGood DEF State
  <2> HIDE DEF e
  <2>2. Same(e, t) BY <2>1 DEF Same, Good, Base, SteeringState
  <2> HIDE DEF t
  <2>3. Good(t) /\ t.state = "RECOVER" BY <2>1, <2>2, SameLive DEF Same
  <2>4. GoodResult(Result(t, "straight")) BY <2>3, ResultGood DEF Command, AtRest
  <2> QED BY <2>4 DEF t, e
<1> QED BY <1>1, <1>2 DEF HeadingLost, When

LEMMA SettleCheckGood ==
  ASSUME NEW s, Live(s), s.retries = 0, IsPrecise(s)
  PROVE \A r \in SettleCheck(s) : GoodResult(r)
<1>1. GoodResult(Arrive(s)) BY ArriveGood
<1>2. GoodResult(Braked(Fail(s, "SETTLE"))) BY FailGood DEF Live, FailReason
<1>3. ASSUME NEW v \in {-1, 0, 1}
      PROVE GoodResult(Result([Enter(s, "NUDGE") EXCEPT !.nudges = @ + 1, !.v = v],
                              "nudge"))
  <2> DEFINE e == Enter(s, "NUDGE")
  <2> DEFINE t == [e EXCEPT !.nudges = @ + 1, !.v = v]
  <2>1. Good(e) /\ e.state = "NUDGE" BY EnterGood DEF State
  <2> HIDE DEF e
  <2>2. Same(e, t)
    <3>1. e \in SteeringState BY <2>1 DEF Good, Base
    <3>2. e.nudges + 1 \in Nat BY <3>1 DEF SteeringState
    <3>3. t \in SteeringState BY <3>1, <3>2 DEF SteeringState
    <3> QED BY <3>1, <3>3 DEF Same, SteeringState
  <2> HIDE DEF t
  <2>3. Good(t) /\ t.state = "NUDGE" BY <2>1, <2>2, SameLive DEF Same
  <2>4. GoodResult(Result(t, "nudge")) BY <2>3, ResultGood DEF Command, AtRest
  <2> QED BY <2>4 DEF t, e
<1> QED BY <1>1, <1>2, <1>3 DEF SettleCheck

\* ALIGN with its progress and its retries anew, from HOLD, RECOVER or a spin
LEMMA RestartLive ==
  ASSUME NEW s, Live(s)
  PROVE LET e == Enter(s, "ALIGN")
            h == [e EXCEPT !.retries = 0]
            w == [e EXCEPT !.retries = 0, !.spinning = FALSE]
        IN /\ Live(ResetProgress(h)) /\ ResetProgress(h).state = "ALIGN"
           /\ Live(w) /\ w.state = "ALIGN"
           /\ s.retries = 0 => /\ Live(ResetProgress(e))
                               /\ ResetProgress(e).state = "ALIGN"
<1> DEFINE t == [s EXCEPT !.retries = 0]
<1>0. s \in SteeringState BY DEF Live, Base
<1>1. /\ t \in SteeringState
      /\ t.state = s.state /\ t.state_ticks = s.state_ticks
      /\ t.completion = s.completion /\ t.fail = s.fail
      /\ t.path = s.path /\ t.index = s.index /\ t.retries = 0
      /\ t.settle_count = s.settle_count /\ t.progress_ticks = s.progress_ticks
  BY <1>0 DEF SteeringState
<1>2. [Enter(s, "ALIGN") EXCEPT !.retries = 0] = Enter(t, "ALIGN")
  BY <1>0 DEF Enter, SteeringState
<1> HIDE DEF t
<1>3. Live(t)
  BY <1>1, ConfAssumption DEF Live, Base, Agrees, Fits, Restored, Fresh,
     Progressing, Active, IsPose, IsPrecise, IsLast
<1>4. ASSUME NEW e, Live(e), e.state = "ALIGN"
      PROVE Live(ResetProgress(e)) /\ ResetProgress(e).state = "ALIGN"
  <2> DEFINE p == ResetProgress(e)
  <2>0. e \in SteeringState BY <1>4 DEF Live, Base
  <2>1. Infinity \in 0 .. Infinity BY BoundsAssumption DEF Infinity
  <2>2. p \in SteeringState BY <2>0, <2>1 DEF ResetProgress, SteeringState
  <2>3. /\ p.state = e.state /\ p.state_ticks = e.state_ticks
        /\ p.completion = e.completion /\ p.fail = e.fail
        /\ p.path = e.path /\ p.index = e.index /\ p.retries = e.retries
        /\ p.settle_count = e.settle_count /\ p.progress_ticks = 0
    BY <2>0 DEF ResetProgress, SteeringState
  <2> HIDE DEF p
  <2>4. Live(p)
    BY <1>4, <2>2, <2>3, ConfAssumption DEF Live, Base, Agrees, Fits, Restored,
       Fresh, Progressing, Active, IsPose, IsPrecise, IsLast
  <2> QED BY <1>4, <2>3, <2>4 DEF p
<1>5. Live(Enter(t, "ALIGN")) /\ Enter(t, "ALIGN").state = "ALIGN"
  BY <1>1, <1>3, EnterGood DEF State
<1>6. s.retries = 0 => Live(Enter(s, "ALIGN")) /\ Enter(s, "ALIGN").state = "ALIGN"
  BY EnterGood DEF State
<1>7. LET w == [Enter(s, "ALIGN") EXCEPT !.retries = 0, !.spinning = FALSE]
      IN Live(w) /\ w.state = "ALIGN"
  <2> DEFINE e == Enter(t, "ALIGN")
  <2> DEFINE w == [e EXCEPT !.spinning = FALSE]
  <2>1. [Enter(s, "ALIGN") EXCEPT !.retries = 0, !.spinning = FALSE] = w
    BY <1>2
  <2> HIDE DEF e
  <2>2. Same(e, w) BY <1>5 DEF e, Same, Live, Base, SteeringState
  <2> HIDE DEF w
  <2>3. Live(w) /\ w.state = "ALIGN" BY <1>5, <2>2, SameLive DEF e, Same
  <2> QED BY <2>1, <2>3
<1> QED BY <1>2, <1>4, <1>5, <1>6, <1>7

LEMMA StepHoldGood ==
  ASSUME NEW s, Live(s), s.state = "HOLD", NEW pose \in Pose, NEW n \in Nat
  PROVE \A r \in StepHold(s, pose, n) : GoodResult(r)
<1>0. s \in SteeringState BY DEF Live, Base
<1>1. CASE pose = "SEEDING"
  <2>1. CASE s.resting /\ s.state_ticks < conf.no_heading_rest_ticks
    <3>1. Good(s)
      BY <1>0, <2>1, ConfAssumption, GoodLive DEF InTime, Limit, SteeringState
    <3> QED BY <1>1, <2>1, <3>1, HaltedGood DEF StepHold, AtRest
  <2>2. CASE ~(s.resting /\ s.state_ticks < conf.no_heading_rest_ticks)
    <3>1. GoodResult(Coasted(Enter(s, "NO_HEADING")))
      BY EnterGood, HaltedGood DEF State, Moving, AtRest
    <3> QED BY <1>1, <2>2, <3>1 DEF StepHold
  <2> QED BY <2>1, <2>2
<1>2. CASE pose = "TRACKING"
  BY <1>2, RestartLive, MoveGood DEF StepHold
<1>3. CASE pose \notin {"SEEDING", "TRACKING"}
  <2>1. CASE s.state_ticks > conf.hold_ticks
    <3>1. GoodResult(Braked(Fail(s, "HOLD"))) BY FailGood DEF Live, FailReason
    <3> QED BY <1>3, <2>1, <3>1 DEF StepHold
  <2>2. CASE ~(s.state_ticks > conf.hold_ticks)
    <3>1. Good(s)
      BY <1>0, <2>2, ConfAssumption, GoodLive DEF InTime, Limit, SteeringState
    <3> QED BY <1>3, <2>2, <3>1, HaltedGood DEF StepHold, AtRest
  <2> QED BY <2>1, <2>2
<1> QED BY <1>1, <1>2, <1>3

LEMMA StepRecoverGood ==
  ASSUME NEW s, Live(s), s.state = "RECOVER", NEW pose \in Pose, NEW n \in Nat
  PROVE \A r \in StepRecover(s, pose, n) : GoodResult(r)
<1>0. s \in SteeringState /\ s.retries = 0 BY DEF Live, Base, Restored
<1>1. CASE pose = "TRACKING"
  BY <1>0, <1>1, RestartLive, MoveGood DEF StepRecover
<1>2. CASE pose = "SEEDING" /\ s.state_ticks >= conf.recover_ticks
  <2>1. GoodResult(Braked(Fail(s, "HEADING_LOST"))) BY FailGood DEF Live, FailReason
  <2> QED BY <1>2, <2>1 DEF StepRecover
<1>3. CASE pose = "SEEDING" /\ ~(s.state_ticks >= conf.recover_ticks)
  <2>1. Good(s)
    BY <1>0, <1>3, ConfAssumption, GoodLive DEF InTime, Limit, SteeringState
  <2> QED BY <1>3, <2>1, ResultGood DEF StepRecover, Command, AtRest
<1>4. CASE pose \notin {"SEEDING", "TRACKING"}
  <2>1. GoodResult(Braked(Enter(s, "HOLD")))
    BY EnterGood, HaltedGood DEF State, Moving, AtRest
  <2> QED BY <1>4, <2>1 DEF StepRecover
<1> QED BY <1>1, <1>2, <1>3, <1>4

LEMMA StepNoHeadingGood ==
  ASSUME NEW s, Live(s), s.state = "NO_HEADING", NEW pose \in Pose, NEW n \in Nat
  PROVE \A r \in StepNoHeading(s, pose, n) : GoodResult(r)
<1>0. s \in SteeringState BY DEF Live, Base
<1> DEFINE t == [s EXCEPT !.spinning = TRUE, !.v = 0, !.turning = TRUE]
<1>1. \A r \in Move([Enter(s, "ALIGN") EXCEPT !.retries = 0, !.spinning = FALSE], n) :
        GoodResult(r)
  BY RestartLive, MoveGood
<1>2. GoodResult(NoHeadingRetry(s, FALSE)) /\ GoodResult(NoHeadingRetry(s, TRUE))
  BY RetryGood
<1>3. ASSUME ~(s.state_ticks > conf.no_heading_ticks)
      PROVE GoodResult(Result(t, "spin"))
  <2>1. Good(s)
    BY <1>0, <1>3, ConfAssumption, GoodLive DEF InTime, Limit, SteeringState
  <2>2. Same(s, t) BY <1>0 DEF Same, SteeringState
  <2> HIDE DEF t
  <2>3. Good(t) /\ t.state = "NO_HEADING" BY <2>1, <2>2, SameLive DEF Same
  <2> QED BY <2>3, ResultGood DEF Command, AtRest
<1> QED BY <1>1, <1>2, <1>3 DEF StepNoHeading

LEMMA StepMovingGood ==
  ASSUME NEW s, Live(s), s.state \in Moving, NEW pose \in Pose, NEW n \in Nat
  PROVE \A r \in StepMoving(s, pose, n) : GoodResult(r)
<1>0. s \in SteeringState /\ s.retries = 0 BY DEF Live, Base, Restored
<1>1. \A r \in HeadingLost(s) : GoodResult(r) BY <1>0, HeadingLostGood
<1>2. GoodResult(Braked(Enter(s, "HOLD")))
  BY EnterGood, HaltedGood DEF State, Moving, AtRest
<1>3. ASSUME s.state = "SETTLE" PROVE \A r \in StepSettle(s) : GoodResult(r)
  <2>1. IsPrecise(s) BY <1>3 DEF Live, Base, Fits
  <2>2. \A r \in SettleCheck(s) : GoodResult(r) BY <1>0, <2>1, SettleCheckGood
  <2>3. GoodResult(Braked(Fail(s, "SETTLE"))) BY FailGood DEF Live, FailReason
  <2>4. ~(s.state_ticks > conf.settle_ticks) => GoodResult(Braked(s))
    <3>1. ~(s.state_ticks > conf.settle_ticks) => Good(s)
      BY <1>0, <1>3, ConfAssumption, GoodLive DEF InTime, Limit, SteeringState
    <3> QED BY <1>3, <3>1, HaltedGood DEF AtRest
  <2> QED BY <2>2, <2>3, <2>4 DEF StepSettle
<1>4. ASSUME s.state = "NUDGE" PROVE \A r \in StepNudge(s) : GoodResult(r)
  <2>1. GoodResult(Settle(s)) BY <1>0, <1>4, SettleGood DEF Live, Base, Fits
  <2>2. ~(s.state_ticks > conf.nudge_ticks) => GoodResult(Result(s, "nudge"))
    <3>1. ~(s.state_ticks > conf.nudge_ticks) => Good(s)
      BY <1>0, <1>4, ConfAssumption, GoodLive DEF InTime, Limit, SteeringState
    <3> QED BY <1>4, <3>1, ResultGood DEF Command, AtRest
  <2> QED BY <2>1, <2>2 DEF StepNudge
<1>5. ASSUME s.state \notin {"SETTLE", "NUDGE"} PROVE \A r \in Move(s, n) : GoodResult(r)
  BY <1>5, MoveGood DEF Moving
<1>6. CASE pose = "SEEDING" BY <1>1, <1>6 DEF StepMoving
<1>7. CASE IsLost(pose) BY <1>2, <1>7 DEF StepMoving, IsLost
<1>8. CASE pose = "TRACKING"
  BY <1>3, <1>4, <1>5, <1>8 DEF StepMoving, IsLost
<1> QED BY <1>6, <1>7, <1>8 DEF Pose, IsLost

----------------------------------------------------------------------------
\* The calls

\* A robot that has no batch is asked to brake where it arrived or gave up and
\* left to coast elsewhere; a step changes nothing of how its batch ended.
IdleResult(s, r) ==
  /\ r \in Results
  /\ Good(r.s)
  /\ r.s.state = s.state /\ r.s.completion = s.completion /\ r.s.fail = s.fail
  /\ r.out = IF s.state \in AtRest THEN "brake" ELSE "coast"

LEMMA LaterGood ==
  ASSUME NEW s, Good(s), NEW n \in Nat
  PROVE /\ Base(Later(s, n)) /\ Progressing(Later(s, n))
        /\ ~Active(s) => Good(Later(s, n))
        /\ Later(s, n).state = s.state
        /\ Later(s, n).completion = s.completion
        /\ Later(s, n).fail = s.fail
        /\ Later(s, n).retries = s.retries
        /\ Later(s, n).path = s.path /\ Later(s, n).index = s.index
        /\ Later(s, n).settle_count = s.settle_count
<1> DEFINE l == Later(s, n)
<1>0. s \in SteeringState BY DEF Good, Base
<1>1. CASE s.state \in Timed
  <2>1. s.state_ticks + n \in Nat /\ s.state_ticks + n >= s.state_ticks
    BY <1>0 DEF SteeringState
  <2>2. l = [s EXCEPT !.state_ticks = @ + n] BY <1>1 DEF Later
  <2>3. l \in SteeringState BY <1>0, <2>1, <2>2 DEF SteeringState
  <2>4. /\ l.state = s.state /\ l.state_ticks = s.state_ticks + n
        /\ l.completion = s.completion /\ l.fail = s.fail
        /\ l.path = s.path /\ l.index = s.index /\ l.retries = s.retries
        /\ l.settle_count = s.settle_count /\ l.progress_ticks = s.progress_ticks
    BY <1>0, <2>2 DEF SteeringState
  <2> HIDE DEF l
  <2>5. Fresh(l)
    BY <1>0, <2>1, <2>4, ConfAssumption DEF Good, Base, Fresh, SteeringState
  <2>6. Base(l) /\ Progressing(l)
    BY <2>3, <2>4, <2>5 DEF Good, Base, Agrees, Fits, Restored, Progressing,
       Active, IsPose, IsPrecise, IsLast
  <2>7. Active(s) BY <1>1 DEF Active, Timed
  <2> QED BY <2>4, <2>6, <2>7 DEF l
<1>2. CASE s.state \notin Timed
  BY <1>2 DEF Later, Good
<1> QED BY <1>1, <1>2

\* db_steering_step, whatever the pose and the time since the last one
LEMMA StepGood ==
  ASSUME NEW s, Good(s), NEW pose \in Pose, NEW n \in Nat
  PROVE /\ Active(s) => \A r \in Step(s, pose, n) : GoodResult(r)
        /\ ~Active(s) => \A r \in Step(s, pose, n) : IdleResult(s, r)
<1> DEFINE l == Later(s, n)
<1>0. l.state = s.state /\ Base(l) /\ Progressing(l) BY LaterGood
<1>1. CASE ~Active(s)
  <2>1. Good(l) /\ l.completion = s.completion /\ l.fail = s.fail
    BY <1>1, LaterGood
  <2> DEFINE h == Halt(l)
  <2>2. Step(s, pose, n) =
          {IF s.state = "IDLE" THEN Result(h, "coast") ELSE Result(h, "brake")}
    BY <1>0, <1>1 DEF Step, Braked, Coasted, Active
  <2> HIDE DEF l
  <2>3. Same(l, h) BY <2>1, HaltSame DEF Good, Base
  <2> HIDE DEF h
  <2>4. /\ Good(h) /\ h \in SteeringState /\ h.state = s.state
        /\ h.completion = s.completion /\ h.fail = s.fail
    BY <1>0, <2>1, <2>3, SameLive DEF Same
  <2> QED BY <1>1, <2>2, <2>4 DEF IdleResult, Result, Results, Command, AtRest, Active
<1>2. CASE Active(s)
  <2>1. Live(l) BY <1>0, <1>2 DEF Live, Active
  <2>2. GoodResult(Braked(Fail(l, "NO_HEADING")))
    BY <1>0, FailGood DEF FailReason
  <2>3. CASE pose = "FREE_SPIN"
    BY <1>0, <1>2, <2>2, <2>3 DEF Step, Active
  <2>4. CASE pose # "FREE_SPIN"
    <3>1. l.state \in {"HOLD", "RECOVER", "NO_HEADING"} \cup Moving
      BY <1>0, <1>2, <2>1 DEF Live, Base, SteeringState, State, Moving, Active
    <3>2. Step(s, pose, n) =
            IF l.state = "HOLD" THEN StepHold(l, pose, n)
            ELSE IF l.state = "RECOVER" THEN StepRecover(l, pose, n)
            ELSE IF l.state = "NO_HEADING" THEN StepNoHeading(l, pose, n)
            ELSE StepMoving(l, pose, n)
      BY <1>0, <1>2, <2>4 DEF Step, Active
    <3> HIDE DEF l
    <3> QED
      BY <1>2, <2>1, <3>1, <3>2, StepHoldGood, StepRecoverGood,
         StepNoHeadingGood, StepMovingGood
  <2> QED BY <2>3, <2>4
<1> QED BY <1>1, <1>2

\* db_steering_poll changes nothing but to brake, and keeps the batch running
LEMMA PollGood ==
  ASSUME NEW s, Good(s), NEW pose \in Pose
  PROVE \A r \in Poll(s, pose) :
          /\ r \in Results
          /\ Good(r.s)
          /\ r.s.completion = s.completion
          /\ \/ r = Result(s, "none")
             \/ /\ r.out = "brake"
                /\ Active(s)
                /\ r.s.state \in {"SETTLE", "FINAL_TURN"}
<1>0. s \in SteeringState BY DEF Good, Base
<1>1. Result(s, "none") \in Results BY <1>0 DEF Result, Results, Command
<1>2. ASSUME s.state \in {"DRIVE", "NUDGE"}, IsPrecise(s)
      PROVE /\ GoodResult(Settle(s)) /\ Settle(s).out = "brake"
            /\ Settle(s).s.state = "SETTLE"
            /\ Settle(s).s.completion = s.completion /\ Active(s)
  <2>1. Active(s) /\ s.retries = 0
    BY <1>2 DEF Active, Good, Base, Restored, Moving
  <2>2. Live(s) BY <2>1, GoodLive
  <2>3. GoodResult(Settle(s)) BY <1>2, <2>1, <2>2, SettleGood
  <2>4. Settle(s).s = Halt([Enter(s, "SETTLE") EXCEPT !.settle_count = 0])
    BY DEF Settle, Braked, Result
  <2>5. Settle(s).s.state = "SETTLE" /\ Settle(s).s.completion = s.completion
    BY <1>0, <2>4 DEF Enter, Halt, SteeringState
  <2>6. Settle(s).out = "brake" BY DEF Settle, Braked, Result
  <2> QED BY <2>1, <2>3, <2>5, <2>6
<1>3. ASSUME s.state = "FINAL_TURN"
      PROVE /\ Braked(s) \in Results /\ Good(Braked(s).s) /\ Braked(s).out = "brake"
            /\ Braked(s).s.state = "FINAL_TURN"
            /\ Braked(s).s.completion = s.completion /\ Active(s)
  <2> DEFINE h == Halt(s)
  <2>1. Same(s, h) BY <1>0, HaltSame
  <2>2. Braked(s) = Result(h, "brake") BY DEF Braked
  <2> HIDE DEF h
  <2>3. Good(h) /\ h \in SteeringState /\ h.state = "FINAL_TURN"
        /\ h.completion = s.completion
    BY <1>3, <2>1, SameLive DEF Same
  <2> QED BY <1>3, <2>2, <2>3 DEF Result, Results, Command, Active
<1>4. s.state = "NUDGE" => IsPrecise(s) BY DEF Good, Base, Fits
<1>5. \A r \in Poll(s, pose) :
        \/ r = Result(s, "none")
        \/ s.state = "DRIVE" /\ IsPrecise(s) /\ r = Settle(s)
        \/ s.state = "FINAL_TURN" /\ r = Braked(s)
        \/ s.state = "NUDGE" /\ r = Settle(s)
  BY DEF Poll, When
<1> QED
  BY <1>1, <1>2, <1>3, <1>4, <1>5 DEF GoodResult, Result

\* db_steering_stop
LEMMA StopGood ==
  ASSUME NEW s, Good(s)
  PROVE /\ Good(Stop(s))
        /\ Stop(s).state = "IDLE"
        /\ Stop(s).completion = IF Active(s) THEN "ABORTED" ELSE s.completion
<1> DEFINE t == Stop(s)
<1>0. s \in SteeringState BY DEF Good, Base
<1>1. t \in SteeringState
  <2>1. Enter(s, "IDLE") \in SteeringState BY <1>0, EnterType DEF State
  <2> QED BY <2>1 DEF Stop, SteeringState, Completion
<1>2. /\ t.state = "IDLE" /\ t.retries = s.retries /\ t.fail = s.fail
      /\ t.completion = IF Active(s) THEN "ABORTED" ELSE s.completion
  BY <1>0 DEF Stop, Enter, SteeringState
<1> HIDE DEF t
<1>3. Good(t)
  BY <1>1, <1>2 DEF Good, Base, Agrees, Fits, Restored, Fresh, InTime,
     Progressing, Active, Timed, Moving
<1> QED BY <1>2, <1>3 DEF t

\* The points db_steering_set_path keeps, of a path that is not empty
LEMMA ClampedPath ==
  ASSUME NEW path \in [count : Nat, poses : SUBSET Nat, precise : BOOLEAN]
  PROVE /\ Clamped(path) \in Path
        /\ path.count > 0 => Clamped(path).count > 0
<1>1. path.poses \cap 0 .. MaxPoints - 1 \in SUBSET (0 .. MaxPoints - 1)
  OBVIOUS
<1>2. /\ (IF path.count > MaxPoints THEN MaxPoints ELSE path.count) \in 0 .. MaxPoints
      /\ path.count > 0 =>
           (IF path.count > MaxPoints THEN MaxPoints ELSE path.count) > 0
  BY BoundsAssumption
<1> QED BY <1>1, <1>2 DEF Clamped, Path

\* db_steering_set_path: a batch of points starts IN_PROGRESS at the first
LEMMA SetPathGood ==
  ASSUME NEW s, Good(s), NEW path \in [count : Nat, poses : SUBSET Nat, precise : BOOLEAN],
         path.count > 0
  PROVE LET t == SetPath(s, path)
        IN /\ Good(t) /\ Active(t)
           /\ t.completion = "IN_PROGRESS" /\ t.index = 0 /\ t.fail = "NONE"
           /\ t.state \in {"DRIVE", "NO_HEADING", "ALIGN"}
<1>0. s \in SteeringState BY DEF Good, Base
<1> DEFINE c == Clamped(path)
<1> DEFINE m == [s EXCEPT !.path = c, !.index = 0, !.nudges = 0, !.retries = 0,
                          !.fail = "NONE", !.completion = "IN_PROGRESS"]
<1> DEFINE start == StartState(s.state)
<1> DEFINE p == ResetProgress(m)
<1> DEFINE t == Enter(p, start)
<1>1. SetPath(s, path) = t BY DEF SetPath
<1>2. c \in Path /\ c.count > 0 BY ClampedPath
<1>3. start \in {"DRIVE", "NO_HEADING", "ALIGN"} BY DEF StartState
<1> HIDE DEF c, start
<1>4. /\ 0 \in 0 .. MaxPoints /\ Infinity \in 0 .. Infinity
  BY BoundsAssumption DEF Infinity
<1>5. m \in SteeringState
  BY <1>0, <1>2, <1>4 DEF SteeringState, Completion, FailReason
<1>6. /\ m.path = c /\ m.index = 0 /\ m.retries = 0 /\ m.fail = "NONE"
      /\ m.completion = "IN_PROGRESS"
  BY <1>0 DEF SteeringState
<1> HIDE DEF m
<1>7. p \in SteeringState BY <1>4, <1>5 DEF ResetProgress, SteeringState
<1>8. /\ p.path = c /\ p.index = 0 /\ p.retries = 0 /\ p.fail = "NONE"
      /\ p.completion = "IN_PROGRESS" /\ p.progress_ticks = 0
  BY <1>5, <1>6 DEF ResetProgress, SteeringState
<1> HIDE DEF p
<1>9. t \in SteeringState
  <2>1. start \in State BY <1>3 DEF State
  <2> HIDE DEF t
  <2>2. Enter(p, start) \in SteeringState BY <1>7, <2>1, EnterType
  <2> QED BY <2>2 DEF t
<1>10. /\ t.path = c /\ t.index = 0 /\ t.retries = 0 /\ t.fail = "NONE"
       /\ t.completion = "IN_PROGRESS" /\ t.progress_ticks = 0
       /\ t.state = start /\ t.state_ticks = 0
  BY <1>7, <1>8 DEF Enter, SteeringState
<1> HIDE DEF t
<1>11. Good(t) /\ Active(t)
  <2>1. InTime(t) BY <1>10, LimitNat DEF InTime
  <2>2. Agrees(t) /\ Fits(t) /\ Fresh(t) /\ Active(t)
    BY <1>2, <1>3, <1>10 DEF Agrees, Fits, Fresh, Active
  <2>3. Restored(t) /\ Progressing(t)
    BY <1>10, ConfAssumption DEF Restored, Progressing
  <2> QED BY <1>9, <2>1, <2>2, <2>3 DEF Good, Base
<1> QED BY <1>1, <1>3, <1>10, <1>11

\* db_steering_fix counts and does nothing else
LEMMA FixGood ==
  ASSUME NEW s, Good(s)
  PROVE /\ Good(Fix(s))
        /\ Fix(s).state = s.state /\ Fix(s).completion = s.completion
<1>0. s \in SteeringState BY DEF Good, Base
<1>1. CASE s.state # "SETTLE" \/ s.state_ticks < conf.settle_skip_ticks
  BY <1>1 DEF Fix
<1>2. CASE s.state = "SETTLE" /\ ~(s.state_ticks < conf.settle_skip_ticks)
  <2> DEFINE t == Fix(s)
  <2> DEFINE k == IF s.settle_count < conf.settle_fixes
                  THEN s.settle_count + 1 ELSE s.settle_count
  <2>1. t = [s EXCEPT !.settle_count = k] BY <1>2 DEF Fix
  <2>2. k \in Nat BY <1>0 DEF SteeringState
  <2> HIDE DEF k, t
  <2>3. t \in SteeringState BY <1>0, <2>1, <2>2 DEF SteeringState
  <2>4. /\ t.state = s.state /\ t.state_ticks = s.state_ticks
        /\ t.completion = s.completion /\ t.fail = s.fail
        /\ t.path = s.path /\ t.index = s.index /\ t.retries = s.retries
        /\ t.progress_ticks = s.progress_ticks
    BY <1>0, <2>1 DEF SteeringState
  <2>5. Good(t)
    BY <1>2, <2>3, <2>4 DEF Good, Base, Agrees, Fits, Restored, Fresh, InTime,
       Progressing, Active, IsPose, IsPrecise, IsLast
  <2> QED BY <2>4, <2>5 DEF t
<1> QED BY <1>1, <1>2

----------------------------------------------------------------------------
\* What a step commands on a pose it does not track

LEMMA StepBlind ==
  ASSUME NEW s, NEW pose \in Pose, NEW n \in Nat
  PROVE \A r \in Step(s, pose, n) :
          /\ IsLost(pose) => r.out \in {"brake", "coast"}
          /\ r.out \in {"turn", "drive", "nudge"} => pose = "TRACKING"
<1> DEFINE l == Later(s, n)
<1> DEFINE Blind(r) == /\ IsLost(pose) => r.out \in {"brake", "coast"}
                       /\ r.out \in {"turn", "drive", "nudge"} => pose = "TRACKING"
<1>1. CASE pose = "TRACKING" BY <1>1 DEF IsLost
<1>2. CASE pose # "TRACKING"
  <2>1. \A t : Blind(Braked(t)) /\ Blind(Coasted(t))
    BY DEF Braked, Coasted, Result
  <2>2. \A r \in StepHold(l, pose, n) : Blind(r)
    BY <1>2, <2>1 DEF StepHold
  <2>3. \A r \in StepRecover(l, pose, n) : Blind(r)
    BY <1>2, <2>1 DEF StepRecover, Result, IsLost, Pose
  <2>4. \A r \in StepNoHeading(l, pose, n) : Blind(r)
    BY <1>2, <2>1 DEF StepNoHeading, NoHeadingRetry, Result
  <2>5. \A r \in StepMoving(l, pose, n) : Blind(r)
    BY <1>2, <2>1 DEF StepMoving, HeadingLost, When, Result, IsLost, Pose
  <2> HIDE DEF l, Blind
  <2>6. \A r \in Step(s, pose, n) : Blind(r)
    BY <2>1, <2>2, <2>3, <2>4, <2>5 DEF Step, l
  <2> QED BY <2>6 DEF Blind
<1> QED BY <1>1, <1>2

----------------------------------------------------------------------------
\* How a precise batch arrives

\* A batch that asks for the precise arrival at its last point
AsksPrecise(s) == s.path.precise /\ s.path.count - 1 \notin s.path.poses

LEMMA LastPoint ==
  ASSUME NEW s, Live(s), IsLast(s)
  PROVE s.index = s.path.count - 1
BY DEF Live, Base, Fits, IsLast, SteeringState, Path

\* The state a failed or a halted robot is in
LEMMA HaltedState ==
  ASSUME NEW s \in SteeringState
  PROVE /\ Braked(s).s.state = s.state
        /\ \A reason \in FailReason : Braked(Fail(s, reason)).s.state = "FAILED"
<1>1. Halt(s).state = s.state BY DEF Halt, SteeringState
<1>2. \A reason \in FailReason : Halt(Fail(s, reason)).state = "FAILED"
  BY DEF Halt, Fail, Enter, SteeringState
<1> QED BY <1>1, <1>2 DEF Braked, Result

LEMMA FinalTurnPrecise ==
  ASSUME NEW s, Live(s), s.state = "FINAL_TURN", AsksPrecise(s)
  PROVE \A r \in FinalTurn(s) : r.s.state # "ARRIVED"
<1>0. s \in SteeringState BY DEF Live, Base
<1>1. ~IsLast(s)
  BY LastPoint DEF Live, Base, Fits, IsPose, AsksPrecise
<1>2. [s EXCEPT !.v = 0, !.turning = TRUE].state = "FINAL_TURN"
  BY <1>0 DEF SteeringState
<1>3. Result([s EXCEPT !.v = 0, !.turning = TRUE], "turn").s.state # "ARRIVED"
  BY <1>2 DEF Result
<1>4. Braked(Fail(s, "TURN")).s.state # "ARRIVED"
  BY <1>0, HaltedState DEF FailReason
<1>5. \A r \in FinalTurn(s) :
        \/ r = Braked(Fail(s, "TURN"))
        \/ r = Result([s EXCEPT !.v = 0, !.turning = TRUE], "turn")
  BY <1>1 DEF FinalTurn, When
<1> QED BY <1>3, <1>4, <1>5

LEMMA ApproachPrecise ==
  ASSUME NEW s, Live(s), s.state \in {"ALIGN", "DRIVE"}, NEW n \in Nat
  PROVE \A r \in Approach(s, n) : r.s.state # "ARRIVED"
<1>1. ASSUME NEW r \in Approach(s, n), r.s.state = "ARRIVED"
      PROVE FALSE
  <2>1. GoodResult(r) /\ r.s.completion = "ARRIVED"
    BY <1>1, ApproachGood DEF GoodResult, Good, Base, Agrees
  <2>2. s \in SteeringState /\ s.completion = "IN_PROGRESS"
    BY DEF Live, Base, Agrees
  <2>3. PICK p \in Closer(s) \cup NotCloser(s, n) :
          \/ r = Braked(Fail(p, "PROGRESS"))
          \/ \E b \in Bearing(p) : r \in Steer(b)
    BY <1>1 DEF Approach
  <2>4. p \in SteeringState /\ p.completion = "IN_PROGRESS"
    <3>1. CASE p \in Closer(s)
      <4>1. PICK l \in 0 .. s.best - 1 :
              p = [s EXCEPT !.best = l, !.progress_ticks = 0]
        BY <3>1 DEF Closer
      <4>2. l \in 0 .. Infinity
        BY <2>2, BoundsAssumption DEF SteeringState, Infinity
      <4> QED BY <2>2, <4>1, <4>2 DEF SteeringState
    <3>2. CASE p \in NotCloser(s, n)
      BY <2>2, <3>2 DEF NotCloser, When, SteeringState
    <3> QED BY <3>1, <3>2
  <2>5. r # Braked(Fail(p, "PROGRESS"))
    BY <1>1, <2>4, HaltedState DEF FailReason
  <2>6. PICK b \in Bearing(p) : r \in Steer(b) BY <2>3, <2>5
  <2>7. b \in SteeringState /\ b.completion = "IN_PROGRESS"
    <3>1. \/ b = p
          \/ b = Enter(p, "ALIGN")
          \/ b = Enter(p, "DRIVE")
      BY <2>6 DEF Bearing
    <3>2. \A x \in State : /\ Enter(p, x) \in SteeringState
                          /\ Enter(p, x).completion = "IN_PROGRESS"
      <4>1. \A x \in State : Enter(p, x) \in SteeringState
        BY <2>4, EnterType
      <4>2. \A x \in State : Enter(p, x).completion = p.completion
        BY <2>4 DEF Enter, SteeringState
      <4> QED BY <2>4, <4>1, <4>2
    <3> QED BY <2>4, <3>1, <3>2 DEF State
  <2>8. CASE b.state = "DRIVE"
    <3>1. PICK v \in {-1, 0, 1} :
            r = Result([b EXCEPT !.v = v, !.turning = FALSE], "drive")
      BY <2>6, <2>8 DEF Steer
    <3>2. r.s.completion = "IN_PROGRESS"
      BY <2>7, <3>1 DEF Result, SteeringState
    <3> QED BY <2>1, <3>2
  <2>9. CASE b.state # "DRIVE"
    <3>1. \/ r = Braked(Fail(b, "TURN"))
          \/ r = Result([b EXCEPT !.v = 0, !.turning = TRUE], "turn")
      <4>1. CASE b.state_ticks > conf.turn_ticks
        BY <2>6, <2>9, <4>1 DEF Steer
      <4>2. CASE ~(b.state_ticks > conf.turn_ticks)
        BY <2>6, <2>9, <4>2 DEF Steer
      <4> QED BY <4>1, <4>2
    <3>2. r = Braked(Fail(b, "TURN")) => r.s.state = "FAILED"
      BY <2>7, HaltedState DEF FailReason
    <3>3. r = Result([b EXCEPT !.v = 0, !.turning = TRUE], "turn")
            => r.s.completion = "IN_PROGRESS"
      <4> DEFINE c == [b EXCEPT !.v = 0, !.turning = TRUE]
      <4>1. c.completion = "IN_PROGRESS" BY <2>7 DEF SteeringState
      <4> HIDE DEF c
      <4>2. r = Result(c, "turn") => r.s.completion = "IN_PROGRESS"
        BY <4>1 DEF Result
      <4> QED BY <4>2 DEF c
    <3> QED BY <1>1, <2>1, <3>1, <3>2, <3>3
  <2> QED BY <2>8, <2>9
<1> QED BY <1>1

\* Driving never arrives at a precise point by itself
LEMMA MovePrecise ==
  ASSUME NEW s, Live(s), s.state \in {"ALIGN", "DRIVE", "FINAL_TURN"},
         AsksPrecise(s), NEW n \in Nat
  PROVE \A r \in Move(s, n) : r.s.state # "ARRIVED"
<1> DEFINE t == [s EXCEPT !.has_last = TRUE]
<1>1. Same(s, t) BY DEF Same, Live, Base, SteeringState
<1>2. \A r \in Move(s, n) :
        \E i \in s.index .. s.path.count - 1 : r \in MoveAt(AdvanceTo(t, i), n)
  BY DEF Move
<1> HIDE DEF t
<1>3. /\ Live(t)
      /\ t.state = s.state /\ t.path = s.path /\ t.index = s.index
  BY <1>1, SameLive DEF Same
<1>4. ASSUME NEW i \in s.index .. s.path.count - 1
      PROVE \A r \in MoveAt(AdvanceTo(t, i), n) : r.s.state # "ARRIVED"
  <2> DEFINE a == AdvanceTo(t, i)
  <2>1. /\ Live(a) /\ a.state \in {"ALIGN", "DRIVE", "FINAL_TURN"}
        /\ a.path = s.path
    BY <1>3, AdvanceLive
  <2> HIDE DEF a
  <2>2. AsksPrecise(a) BY <2>1 DEF AsksPrecise
  <2>3. a.state = "FINAL_TURN" => \A r \in FinalTurn(a) : r.s.state # "ARRIVED"
    BY <2>1, <2>2, FinalTurnPrecise
  <2>4. ASSUME a.state \in {"ALIGN", "DRIVE"}
        PROVE \A r \in Reached(a) : r.s.state # "ARRIVED"
    <3> DEFINE e == Enter(a, "FINAL_TURN")
    <3>0. a.retries = 0 /\ a \in SteeringState
      BY <2>1, <2>4 DEF Live, Base, Restored, Moving
    <3>1. CASE IsPrecise(a)
      <4>1. Settle(a).s.state = "SETTLE"
        BY <3>0 DEF Settle, Braked, Halt, Result, Enter, SteeringState
      <4> QED BY <3>1, <4>1 DEF Reached, When
    <3>2. CASE ~IsPrecise(a) /\ IsPose(a)
      <4>1. Live(e) /\ e.state = "FINAL_TURN" /\ e.path = a.path
        BY <2>1, <3>0, <3>2, EnterGood DEF State
      <4>2. AsksPrecise(e) BY <2>2, <4>1 DEF AsksPrecise
      <4> HIDE DEF e
      <4>3. \A r \in FinalTurn(e) : r.s.state # "ARRIVED"
        BY <4>1, <4>2, FinalTurnPrecise
      <4> QED BY <3>2, <4>3 DEF Reached, e
    <3>3. CASE ~IsPrecise(a) /\ ~IsPose(a)
      <4>1. ~IsLast(a) BY <2>2, <3>3 DEF IsPrecise, AsksPrecise
      <4> QED BY <3>3, <4>1 DEF Reached, When
    <3> QED BY <3>1, <3>2, <3>3
  <2>5. \A r \in MoveAt(a, n) : r.s.state # "ARRIVED"
    BY <2>1, <2>3, <2>4, ApproachPrecise DEF MoveAt
  <2> QED BY <2>5 DEF a
<1> QED BY <1>2, <1>4

\* Where a step that does not drive may end: not in ARRIVED
LEMMA EnteredState ==
  ASSUME NEW s \in SteeringState, NEW x \in State
  PROVE /\ Braked(Enter(s, x)).s.state = x
        /\ Coasted(Enter(s, x)).s.state = x
        /\ Result([Enter(s, x) EXCEPT !.turning = FALSE], "straight").s.state = x
        /\ Settle(s).s.state = "SETTLE"
        /\ \A b \in BOOLEAN : NoHeadingRetry(s, b).s.state \in {"FAILED", "HOLD"}
<1> DEFINE e == Enter(s, x)
<1>1. e \in SteeringState /\ e.state = x BY DEF Enter, SteeringState
<1> HIDE DEF e
<1>2. Halt(e).state = x BY <1>1 DEF Halt, SteeringState
<1>3. Braked(e).s.state = x /\ Coasted(e).s.state = x
  BY <1>2 DEF Braked, Coasted, Result
<1>4. [e EXCEPT !.turning = FALSE].state = x BY <1>1 DEF SteeringState
<1>5. Result([e EXCEPT !.turning = FALSE], "straight").s.state = x
  BY <1>4 DEF Result
<1>6. Settle(s).s.state = "SETTLE"
  BY DEF Settle, Braked, Halt, Result, Enter, SteeringState
<1>7. ASSUME NEW b \in BOOLEAN
      PROVE NoHeadingRetry(s, b).s.state \in {"FAILED", "HOLD"}
  <2> DEFINE h == [Enter(s, "HOLD") EXCEPT !.retries = @ + 1, !.resting = b]
  <2>1. h.state = "HOLD" BY DEF Enter, SteeringState
  <2>2. Halt(h).state = h.state
    BY DEF Halt, Enter, SteeringState
  <2> HIDE DEF h
  <2>3. Braked(h).s.state = "HOLD" BY <2>1, <2>2 DEF Braked, Result
  <2>4. Braked(Fail(s, "NO_HEADING")).s.state = "FAILED"
    BY HaltedState DEF FailReason
  <2>5. NoHeadingRetry(s, b) = Braked(Fail(s, "NO_HEADING"))
        \/ NoHeadingRetry(s, b) = Braked(h)
    BY DEF NoHeadingRetry, h
  <2> QED BY <2>3, <2>4, <2>5
<1> QED BY <1>3, <1>5, <1>6, <1>7 DEF e

\* A step out of HOLD, RECOVER or a spin drives from ALIGN on the same points
LEMMA RestartPath ==
  ASSUME NEW s \in SteeringState
  PROVE /\ ResetProgress([Enter(s, "ALIGN") EXCEPT !.retries = 0]).path = s.path
        /\ [Enter(s, "ALIGN") EXCEPT !.retries = 0, !.spinning = FALSE].path = s.path
        /\ ResetProgress(Enter(s, "ALIGN")).path = s.path
BY DEF ResetProgress, Enter, SteeringState

\* A batch that asks for the precise arrival arrives out of SETTLE only, on
\* conf.settle_fixes fixes
LEMMA StepPrecise ==
  ASSUME NEW s, Good(s), AsksPrecise(s), s.state # "ARRIVED",
         NEW pose \in Pose, NEW n \in Nat
  PROVE \A r \in Step(s, pose, n) :
          r.s.state = "ARRIVED"
            => s.state = "SETTLE" /\ s.settle_count >= conf.settle_fixes
<1> DEFINE l == Later(s, n)
<1> DEFINE Short(r) == r.s.state # "ARRIVED"
<1>0. /\ Base(l) /\ Progressing(l) /\ l.state = s.state /\ l.path = s.path
      /\ l.settle_count = s.settle_count
  BY LaterGood
<1> HIDE DEF l
<1>1. l \in SteeringState /\ AsksPrecise(l) BY <1>0 DEF Base, AsksPrecise
<1>2. \A x \in FailReason : Short(Braked(Fail(l, x))) BY <1>1, HaltedState
<1>3. Short(Braked(l)) BY <1>0, <1>1, HaltedState
<1>4. \A x \in State \ {"ARRIVED"} :
        /\ Short(Braked(Enter(l, x))) /\ Short(Coasted(Enter(l, x)))
        /\ Short(Result([Enter(l, x) EXCEPT !.turning = FALSE], "straight"))
  BY <1>1, EnteredState
<1>5. Short(Settle(l)) BY <1>1, EnteredState DEF State
<1>6. Short(NoHeadingRetry(l, TRUE)) /\ Short(NoHeadingRetry(l, FALSE))
  BY <1>1, EnteredState DEF State
<1>7. Short(Result(l, "straight")) /\ Short(Result(l, "nudge"))
  BY <1>0 DEF Result
<1>8. Short(Result([l EXCEPT !.spinning = TRUE, !.v = 0, !.turning = TRUE], "spin"))
  <2>1. [l EXCEPT !.spinning = TRUE, !.v = 0, !.turning = TRUE].state = l.state
    BY <1>1 DEF SteeringState
  <2> QED BY <1>0, <2>1 DEF Result
<1>9. ASSUME Active(l)
      PROVE /\ \A r \in Move(ResetProgress([Enter(l, "ALIGN") EXCEPT !.retries = 0]), n) :
                 Short(r)
            /\ \A r \in Move([Enter(l, "ALIGN") EXCEPT !.retries = 0, !.spinning = FALSE], n) :
                 Short(r)
            /\ l.retries = 0 =>
                 \A r \in Move(ResetProgress(Enter(l, "ALIGN")), n) : Short(r)
            /\ l.state \in {"ALIGN", "DRIVE", "FINAL_TURN"} =>
                 \A r \in Move(l, n) : Short(r)
  <2>1. Live(l) BY <1>0, <1>9 DEF Live
  <2> DEFINE a == ResetProgress([Enter(l, "ALIGN") EXCEPT !.retries = 0])
  <2> DEFINE b == [Enter(l, "ALIGN") EXCEPT !.retries = 0, !.spinning = FALSE]
  <2> DEFINE c == ResetProgress(Enter(l, "ALIGN"))
  <2>2. /\ Live(a) /\ a.state = "ALIGN" /\ Live(b) /\ b.state = "ALIGN"
        /\ l.retries = 0 => Live(c) /\ c.state = "ALIGN"
    BY <2>1, RestartLive
  <2>3. AsksPrecise(a) /\ AsksPrecise(b) /\ AsksPrecise(c)
    BY <1>1, RestartPath DEF AsksPrecise
  <2> HIDE DEF a, b, c
  <2>4. /\ \A r \in Move(a, n) : Short(r)
        /\ \A r \in Move(b, n) : Short(r)
        /\ l.retries = 0 => \A r \in Move(c, n) : Short(r)
        /\ l.state \in {"ALIGN", "DRIVE", "FINAL_TURN"} =>
             \A r \in Move(l, n) : Short(r)
    BY <1>1, <2>1, <2>2, <2>3, MovePrecise
  <2> QED BY <2>4 DEF a, b, c
<1>10. l.state \in Moving \cup {"RECOVER"} => l.retries = 0
  BY <1>0 DEF Base, Restored
<1> HIDE DEF Short
<1>11. ASSUME Active(l)
       PROVE /\ \A r \in StepHold(l, pose, n) : Short(r)
             /\ l.state = "RECOVER" => \A r \in StepRecover(l, pose, n) : Short(r)
             /\ \A r \in StepNoHeading(l, pose, n) : Short(r)
             /\ \A r \in HeadingLost(l) : Short(r)
             /\ \A r \in StepNudge(l) : Short(r)
  <2>1. \A r \in StepHold(l, pose, n) : Short(r)
    BY <1>2, <1>3, <1>4, <1>9, <1>11 DEF StepHold, FailReason, State
  <2>2. l.state = "RECOVER" => \A r \in StepRecover(l, pose, n) : Short(r)
    BY <1>2, <1>4, <1>7, <1>9, <1>10, <1>11 DEF StepRecover, FailReason, State
  <2>3. \A r \in StepNoHeading(l, pose, n) : Short(r)
    BY <1>6, <1>8, <1>9, <1>11 DEF StepNoHeading
  <2>4. \A r \in HeadingLost(l) : Short(r)
    BY <1>4 DEF HeadingLost, When, State
  <2>5. \A r \in StepNudge(l) : Short(r) BY <1>5, <1>7 DEF StepNudge
  <2> QED BY <2>1, <2>2, <2>3, <2>4, <2>5
<1>12. ASSUME l.settle_count < conf.settle_fixes
       PROVE \A r \in StepSettle(l) : Short(r)
  <2>1. ~(l.settle_count >= conf.settle_fixes)
    BY <1>1, <1>12, ConfAssumption DEF SteeringState
  <2> QED BY <1>2, <1>3, <2>1 DEF StepSettle, FailReason
<1>13. ASSUME l.state \in Moving,
              ~(l.state = "SETTLE" /\ l.settle_count >= conf.settle_fixes)
       PROVE \A r \in StepMoving(l, pose, n) : Short(r)
  <2>1. Active(l) BY <1>13 DEF Active, Moving
  <2>2. Short(Braked(Enter(l, "HOLD"))) BY <1>4 DEF State
  <2>3. l.state = "SETTLE" => \A r \in StepSettle(l) : Short(r)
    BY <1>1, <1>12, <1>13, ConfAssumption DEF SteeringState
  <2>4. l.state \notin {"SETTLE", "NUDGE"} => \A r \in Move(l, n) : Short(r)
    BY <1>9, <1>13, <2>1 DEF Moving
  <2> QED BY <1>11, <2>1, <2>2, <2>3, <2>4 DEF StepMoving
<1>14. ASSUME ~(l.state = "SETTLE" /\ l.settle_count >= conf.settle_fixes)
       PROVE \A r \in Step(s, pose, n) : Short(r)
  <2>1. CASE ~Active(l)
    <3>1. l.state \in {"IDLE", "FAILED"}
      BY <1>0, <2>1 DEF Active
    <3>2. Short(Coasted(l))
      BY <1>0, <1>3 DEF Short, Braked, Coasted, Result
    <3> QED BY <1>3, <2>1, <3>1, <3>2 DEF Step, l
  <2>2. CASE Active(l)
    <3>1. l.state \in {"HOLD", "RECOVER", "NO_HEADING"} \cup Moving
      BY <1>1, <2>2 DEF SteeringState, State, Moving, Active
    <3>2. Short(Braked(Fail(l, "NO_HEADING"))) BY <1>2 DEF FailReason
    <3>3. Step(s, pose, n) =
            IF pose = "FREE_SPIN" THEN {Braked(Fail(l, "NO_HEADING"))}
            ELSE IF l.state = "HOLD" THEN StepHold(l, pose, n)
            ELSE IF l.state = "RECOVER" THEN StepRecover(l, pose, n)
            ELSE IF l.state = "NO_HEADING" THEN StepNoHeading(l, pose, n)
            ELSE StepMoving(l, pose, n)
      BY <2>2 DEF Step, l, Active
    <3> QED BY <1>11, <1>13, <1>14, <2>2, <3>1, <3>2, <3>3
  <2> QED BY <2>1, <2>2
<1> QED BY <1>0, <1>14 DEF Short

----------------------------------------------------------------------------
\* Why a batch ends: a rank that every step on an unchanged pose lowers

\* What is left of a limit
Left(limit, used) == IF used <= limit THEN limit + 1 - used ELSE 0

Points(s) == Left(s.path.count, s.index)

\* How far the state is from the end on this pose.  No step leads back.
Phase(s, pose) ==
  CASE pose = "TRACKING" ->
         (CASE s.state = "NO_HEADING"          -> 4
            [] s.state \in {"HOLD", "RECOVER"} -> 3
            [] s.state \in {"ALIGN", "DRIVE"}  -> 2
            [] OTHER                           -> 1)
    [] pose = "SEEDING" -> IF s.state \in Moving THEN 1 ELSE 0
    [] OTHER            -> IF s.state = "HOLD" THEN 0 ELSE 1

\* The spins left, the nudges left, or the distance still to come closer by
Budget(s) ==
  IF s.state \in {"NO_HEADING", "HOLD", "RECOVER"}
  THEN Left(conf.no_heading_retries, s.retries)
  ELSE IF s.state \in {"SETTLE", "NUDGE"} THEN Left(conf.settle_nudges, s.nudges)
  ELSE s.best

\* The time left to come closer.  HOLD comes before the spin it rests for, a
\* nudge before the settling that judges it.
Part(s) ==
  IF s.state \in {"ALIGN", "DRIVE"} THEN Left(conf.progress_ticks, s.progress_ticks)
  ELSE IF s.state \in {"HOLD", "NUDGE"} THEN 1 ELSE 0

\* The time left in the state
Time(s) == IF s.state \in Timed THEN Left(Limit(s.state), s.state_ticks) ELSE 0

Rank(s, pose) == <<Points(s), Phase(s, pose), Budget(s), Part(s), Time(s)>>

\* The rank falls before its last place is looked at
Drops(s, t, pose) ==
  \/ Points(t) < Points(s)
  \/ /\ Points(t) = Points(s)
     /\ \/ Phase(t, pose) < Phase(s, pose)
        \/ /\ Phase(t, pose) = Phase(s, pose)
           /\ \/ Budget(t) < Budget(s)
              \/ Budget(t) = Budget(s) /\ Part(t) < Part(s)

\* What the rank reads of the record but for its state and the timer
Unspent(s, t) ==
  /\ t.path = s.path /\ t.index = s.index
  /\ t.retries = s.retries /\ t.nudges = s.nudges
  /\ t.best = s.best /\ t.progress_ticks = s.progress_ticks

\* t is s, with time left
Stays(s, t) ==
  /\ Unspent(s, t)
  /\ t.state = s.state /\ t.state_ticks = s.state_ticks
  /\ s.state \in Timed /\ s.state_ticks <= Limit(s.state)

\* How a step goes on: not at all, further down, or in time
GoesOn(s, t, pose) == ~Active(t) \/ Drops(s, t, pose) \/ Stays(s, t)

LEMMA LeftFalls ==
  ASSUME NEW limit \in Nat, NEW used \in Nat
  PROVE /\ Left(limit, used) \in Nat
        /\ \A more \in Nat : used < more /\ more <= limit
                               => Left(limit, more) < Left(limit, used)
        /\ used < limit => Left(limit, used + 1) < Left(limit, used)
BY DEF Left

LEMMA RankType ==
  ASSUME NEW s \in SteeringState, NEW pose \in Pose
  PROVE /\ Points(s) \in Nat /\ Phase(s, pose) \in Nat /\ Budget(s) \in Nat
        /\ Part(s) \in Nat /\ Time(s) \in Nat
<1>0. /\ s.path.count \in Nat /\ s.index \in Nat /\ s.retries \in Nat
      /\ s.nudges \in Nat /\ s.best \in Nat /\ s.progress_ticks \in Nat
      /\ s.state_ticks \in Nat /\ s.state \in State
  BY BoundsAssumption DEF SteeringState, Path, Infinity
<1>1. /\ conf.no_heading_retries \in Nat /\ conf.settle_nudges \in Nat
      /\ conf.progress_ticks \in Nat
  BY ConfAssumption
<1>2. Points(s) \in Nat BY <1>0, LeftFalls DEF Points
<1>3. Phase(s, pose) \in Nat BY <1>0 DEF Phase, Pose, State
<1>4. Budget(s) \in Nat BY <1>0, <1>1, LeftFalls DEF Budget
<1>5. Part(s) \in Nat BY <1>0, <1>1, LeftFalls DEF Part
<1>6. Time(s) \in Nat BY <1>0, LimitNat, LeftFalls DEF Time
<1> QED BY <1>2, <1>3, <1>4, <1>5, <1>6

\* What the helpers leave alone
LEMMA EnterKept ==
  ASSUME NEW s \in SteeringState, NEW x \in State
  PROVE Unspent(s, Enter(s, x)) /\ Enter(s, x).state = x
BY DEF Unspent, Enter, SteeringState

LEMMA HaltKept ==
  ASSUME NEW s \in SteeringState
  PROVE /\ Unspent(s, Halt(s)) /\ Halt(s).state = s.state
        /\ Halt(s).state_ticks = s.state_ticks
BY DEF Unspent, Halt, SteeringState

LEMMA OverInactive ==
  ASSUME NEW s \in SteeringState
  PROVE /\ \A reason \in FailReason : ~Active(Braked(Fail(s, reason)).s)
        /\ ~Active(Arrive(s).s)
<1>1. \A reason \in FailReason : ~Active(Braked(Fail(s, reason)).s)
  BY HaltedState DEF Active
<1>2. Arrive(s).s.state = "ARRIVED"
  BY DEF Arrive, Braked, Halt, Result, Enter, SteeringState
<1> QED BY <1>1, <1>2 DEF Active

LEMMA SettleKept ==
  ASSUME NEW s \in SteeringState
  PROVE Unspent(s, Settle(s).s) /\ Settle(s).s.state = "SETTLE"
<1> DEFINE e == [Enter(s, "SETTLE") EXCEPT !.settle_count = 0]
<1>1. e \in SteeringState /\ Unspent(s, e) /\ e.state = "SETTLE"
  <2>1. Enter(s, "SETTLE") \in SteeringState BY EnterType DEF State
  <2>2. Unspent(s, Enter(s, "SETTLE")) /\ Enter(s, "SETTLE").state = "SETTLE"
    BY EnterKept DEF State
  <2> QED BY <2>1, <2>2 DEF Unspent, SteeringState
<1>2. Settle(s).s = Halt(e) BY DEF Settle, Braked, Result
<1> HIDE DEF e
<1> QED BY <1>1, <1>2, HaltKept DEF Unspent


\* A final turn is over, or goes on in time
LEMMA FinalTurnFalls ==
  ASSUME NEW s \in SteeringState, s.state = "FINAL_TURN", NEW r \in FinalTurn(s)
  PROVE ~Active(r.s) \/ Stays(s, r.s)
<1> DEFINE t == [s EXCEPT !.v = 0, !.turning = TRUE]
<1>1. ~Active(Arrive(s).s) /\ ~Active(Braked(Fail(s, "TURN")).s)
  BY OverInactive DEF FailReason
<1>2. Unspent(s, t) /\ t.state = s.state /\ t.state_ticks = s.state_ticks
  BY DEF Unspent, SteeringState
<1>3. \/ r = Arrive(s) \/ r = Braked(Fail(s, "TURN"))
      \/ r = Result(t, "turn") /\ ~(s.state_ticks > conf.turn_ticks)
  BY DEF FinalTurn, When
<1> HIDE DEF t
<1>4. ASSUME r = Result(t, "turn"), ~(s.state_ticks > conf.turn_ticks)
      PROVE Stays(s, r.s)
  <2>1. s.state_ticks <= Limit(s.state) /\ s.state \in Timed
    BY <1>4, ConfAssumption DEF Limit, Timed, SteeringState
  <2>2. r.s = t BY <1>4 DEF Result
  <2> QED BY <1>2, <2>1, <2>2 DEF Stays
<1> QED BY <1>1, <1>3, <1>4

\* Within the threshold of a point a step goes on to settle or to turn
LEMMA ReachedFalls ==
  ASSUME NEW s \in SteeringState, s.state \in {"ALIGN", "DRIVE"}, NEW r \in Reached(s)
  PROVE \/ ~Active(r.s)
        \/ Unspent(s, r.s) /\ r.s.state \in {"SETTLE", "FINAL_TURN"}
<1> DEFINE e == Enter(s, "FINAL_TURN")
<1>1. r = Settle(s) \/ r = Arrive(s) \/ r \in FinalTurn(e)
  BY DEF Reached, When
<1>2. e \in SteeringState /\ Unspent(s, e) /\ e.state = "FINAL_TURN"
  BY EnterType, EnterKept DEF State
<1> HIDE DEF e
<1>3. CASE r \in FinalTurn(e)
  <2>1. ~Active(r.s) \/ Stays(e, r.s) BY <1>2, <1>3, FinalTurnFalls
  <2> QED BY <1>2, <2>1 DEF Stays, Unspent
<1> QED BY <1>1, <1>3, SettleKept, OverInactive

LEMMA SteerKept ==
  ASSUME NEW s \in SteeringState, s.state \in {"ALIGN", "DRIVE"}, NEW r \in Steer(s)
  PROVE ~Active(r.s) \/ (Unspent(s, r.s) /\ r.s.state = s.state)
<1>1. ~Active(Braked(Fail(s, "TURN")).s) BY OverInactive DEF FailReason
<1>2. CASE r = Result([s EXCEPT !.v = 0, !.turning = TRUE], "turn")
  <2> DEFINE t == [s EXCEPT !.v = 0, !.turning = TRUE]
  <2>1. Unspent(s, t) /\ t.state = s.state BY DEF Unspent, SteeringState
  <2> HIDE DEF t
  <2>2. r.s = t BY <1>2 DEF Result, t
  <2> QED BY <2>1, <2>2
<1>3. ASSUME NEW v \in {-1, 0, 1}, r = Result([s EXCEPT !.v = v, !.turning = FALSE], "drive")
      PROVE Unspent(s, r.s) /\ r.s.state = s.state
  <2> DEFINE t == [s EXCEPT !.v = v, !.turning = FALSE]
  <2>1. Unspent(s, t) /\ t.state = s.state BY DEF Unspent, SteeringState
  <2> HIDE DEF t
  <2>2. r.s = t BY <1>3 DEF Result, t
  <2> QED BY <2>1, <2>2
<1>4. \/ r = Braked(Fail(s, "TURN"))
      \/ r = Result([s EXCEPT !.v = 0, !.turning = TRUE], "turn")
      \/ \E v \in {-1, 0, 1} : r = Result([s EXCEPT !.v = v, !.turning = FALSE], "drive")
  BY DEF Steer
<1> QED BY <1>1, <1>2, <1>3, <1>4

\* Short of the point a step comes closer, or has less time left to
LEMMA ApproachFalls ==
  ASSUME NEW s \in SteeringState, s.state \in {"ALIGN", "DRIVE"},
         NEW n \in Nat \ {0}, NEW r \in Approach(s, n)
  PROVE \/ ~Active(r.s)
        \/ /\ r.s.path = s.path /\ r.s.index = s.index
           /\ r.s.state \in {"ALIGN", "DRIVE"}
           /\ Budget(r.s) < Budget(s) \/ (Budget(r.s) = Budget(s) /\ Part(r.s) < Part(s))
<1>1. PICK p \in Closer(s) \cup NotCloser(s, n) :
        IF p.progress_ticks > conf.progress_ticks
        THEN r = Braked(Fail(p, "PROGRESS")) ELSE \E b \in Bearing(p) : r \in Steer(b)
  BY DEF Approach
<1>2. /\ p \in SteeringState /\ p.state = s.state
      /\ p.path = s.path /\ p.index = s.index
      /\ \/ p.best < s.best
         \/ p.best = s.best /\ p.progress_ticks = s.progress_ticks + n
  <2>1. CASE p \in Closer(s)
    <3>1. PICK l \in 0 .. s.best - 1 :
            p = [s EXCEPT !.best = l, !.progress_ticks = 0]
      BY <2>1 DEF Closer
    <3>2. l \in 0 .. Infinity /\ l < s.best
      BY BoundsAssumption DEF SteeringState, Infinity
    <3> QED BY <3>1, <3>2 DEF SteeringState
  <2>2. CASE p \in NotCloser(s, n)
    <3>1. p = [s EXCEPT !.progress_ticks = @ + n] BY <2>2 DEF NotCloser, When
    <3> QED BY <3>1 DEF SteeringState
  <2> QED BY <2>1, <2>2
<1>3. CASE p.progress_ticks > conf.progress_ticks
  BY <1>1, <1>2, <1>3, OverInactive DEF FailReason
<1>4. CASE ~(p.progress_ticks > conf.progress_ticks)
  <2>1. PICK b \in Bearing(p) : r \in Steer(b) BY <1>1, <1>4
  <2>2. b \in SteeringState /\ Unspent(p, b) /\ b.state \in {"ALIGN", "DRIVE"}
    <3>1. b = p \/ b = Enter(p, "ALIGN") \/ b = Enter(p, "DRIVE")
      BY <2>1 DEF Bearing
    <3>2. Unspent(p, p) BY DEF Unspent
    <3>3. \A x \in State : /\ Enter(p, x) \in SteeringState
                          /\ Unspent(p, Enter(p, x)) /\ Enter(p, x).state = x
      BY <1>2, EnterType, EnterKept
    <3> QED BY <1>2, <3>1, <3>2, <3>3 DEF State
  <2>3. ~Active(r.s) \/ (Unspent(b, r.s) /\ r.s.state = b.state)
    BY <2>1, <2>2, SteerKept
  <2>4. ASSUME Active(r.s)
        PROVE /\ r.s.path = s.path /\ r.s.index = s.index
              /\ r.s.state \in {"ALIGN", "DRIVE"}
              /\ r.s.best = p.best /\ r.s.progress_ticks = p.progress_ticks
    BY <1>2, <2>2, <2>3, <2>4 DEF Unspent
  <2>5. ASSUME Active(r.s)
        PROVE Budget(r.s) < Budget(s) \/ (Budget(r.s) = Budget(s) /\ Part(r.s) < Part(s))
    <3>1. Budget(r.s) = p.best /\ Budget(s) = s.best
      BY <2>4, <2>5 DEF Budget
    <3>2. /\ Part(r.s) = Left(conf.progress_ticks, p.progress_ticks)
          /\ Part(s) = Left(conf.progress_ticks, s.progress_ticks)
      BY <2>4, <2>5 DEF Part
    <3>3. CASE p.best < s.best
      <4>1. p.best \in Int /\ s.best \in Int
        BY <1>2, BoundsAssumption DEF SteeringState, Infinity
      <4> QED BY <3>1, <3>3, <4>1
    <3>4. CASE p.best = s.best /\ p.progress_ticks = s.progress_ticks + n
      <4>1. /\ conf.progress_ticks \in Nat /\ s.progress_ticks \in Nat
            /\ p.progress_ticks \in Nat
        BY <1>2, ConfAssumption DEF SteeringState
      <4>2. s.progress_ticks < p.progress_ticks /\ p.progress_ticks <= conf.progress_ticks
        BY <1>4, <3>4, <4>1
      <4>3. Left(conf.progress_ticks, p.progress_ticks)
              < Left(conf.progress_ticks, s.progress_ticks)
        BY <4>1, <4>2, LeftFalls
      <4> QED BY <3>1, <3>2, <3>4, <4>3
    <3> QED BY <1>2, <3>3, <3>4
  <2> QED BY <2>4, <2>5
<1> QED BY <1>3, <1>4

\* A robot that drives: it ends, passes a point, or goes on at the same one
LEMMA MoveAtFalls ==
  ASSUME NEW s \in SteeringState, s.state \in {"ALIGN", "DRIVE", "FINAL_TURN"},
         NEW n \in Nat \ {0}, NEW r \in MoveAt(s, n)
  PROVE \/ ~Active(r.s)
        \/ /\ r.s.path = s.path /\ r.s.index = s.index
           /\ r.s.state \in {"ALIGN", "DRIVE", "FINAL_TURN", "SETTLE"}
           /\ Drops(s, r.s, "TRACKING") \/ Stays(s, r.s)
<1>1. CASE s.state = "FINAL_TURN"
  <2>1. ~Active(r.s) \/ Stays(s, r.s)
    BY <1>1, FinalTurnFalls DEF MoveAt
  <2> QED BY <1>1, <2>1 DEF Stays, Unspent
<1>2. CASE s.state \in {"ALIGN", "DRIVE"}
  <2>1. Phase(s, "TRACKING") = 2 BY <1>2 DEF Phase
  <2>2. CASE r \in Reached(s)
    <3>1. \/ ~Active(r.s)
          \/ Unspent(s, r.s) /\ r.s.state \in {"SETTLE", "FINAL_TURN"}
      BY <1>2, <2>2, ReachedFalls
    <3>2. r.s.state \in {"SETTLE", "FINAL_TURN"} => Phase(r.s, "TRACKING") = 1
      BY DEF Phase
    <3>3. Unspent(s, r.s) => Points(r.s) = Points(s) BY DEF Unspent, Points
    <3> QED BY <2>1, <3>1, <3>2, <3>3 DEF Drops, Unspent
  <2>3. CASE r \in Approach(s, n)
    <3>1. \/ ~Active(r.s)
          \/ /\ r.s.path = s.path /\ r.s.index = s.index
             /\ r.s.state \in {"ALIGN", "DRIVE"}
             /\ Budget(r.s) < Budget(s) \/ (Budget(r.s) = Budget(s) /\ Part(r.s) < Part(s))
      BY <1>2, <2>3, ApproachFalls
    <3>2. r.s.state \in {"ALIGN", "DRIVE"} => Phase(r.s, "TRACKING") = 2
      BY DEF Phase
    <3>3. r.s.path = s.path /\ r.s.index = s.index => Points(r.s) = Points(s)
      BY DEF Points
    <3> QED BY <2>1, <3>1, <3>2, <3>3 DEF Drops
  <2> QED BY <1>2, <2>2, <2>3 DEF MoveAt
<1> QED BY <1>1, <1>2

LEMMA MoveFalls ==
  ASSUME NEW s, Live(s), s.state \in {"ALIGN", "DRIVE", "FINAL_TURN"},
         NEW n \in Nat \ {0}, NEW r \in Move(s, n)
  PROVE \/ ~Active(r.s)
        \/ /\ r.s.state \in {"ALIGN", "DRIVE", "FINAL_TURN", "SETTLE"}
           /\ Points(r.s) <= Points(s)
           /\ Drops(s, r.s, "TRACKING") \/ Stays(s, r.s)
<1> DEFINE t == [s EXCEPT !.has_last = TRUE]
<1>0. s \in SteeringState BY DEF Live, Base
<1>1. PICK i \in s.index .. s.path.count - 1 : r \in MoveAt(AdvanceTo(t, i), n)
  BY DEF Move
<1>2. Same(s, t) /\ Unspent(s, t) BY <1>0 DEF Same, Unspent, SteeringState
<1> HIDE DEF t
<1>3. Live(t) /\ t.state = s.state /\ t.path = s.path /\ t.index = s.index
  BY <1>2, SameLive DEF Same
<1> DEFINE a == AdvanceTo(t, i)
<1>4. /\ Live(a) /\ a \in SteeringState
      /\ a.state \in {"ALIGN", "DRIVE", "FINAL_TURN"} /\ a.path = s.path
  BY <1>3, AdvanceLive DEF Live, Base
<1>5. r \in MoveAt(a, n) BY <1>1
<1>6. a.index = i /\ (i = s.index => a = t)
  <2>1. CASE i = s.index BY <1>3, <2>1 DEF AdvanceTo
  <2>2. CASE i # s.index
    <3> DEFINE e == IF \E j \in t.index .. i - 1 : j \in t.path.poses
                    THEN Enter(t, "ALIGN") ELSE t
    <3>1. a = ResetProgress([e EXCEPT !.index = i])
      BY <1>3, <2>2 DEF AdvanceTo
    <3>2. e \in SteeringState
      BY <1>3, EnterType DEF Live, Base, State
    <3> HIDE DEF e, a
    <3>3. a.index = i BY <3>1, <3>2 DEF ResetProgress, SteeringState
    <3> QED BY <2>2, <3>3
  <2> QED BY <2>1, <2>2
<1> HIDE DEF a
<1>7. \/ ~Active(r.s)
      \/ /\ r.s.path = a.path /\ r.s.index = a.index
         /\ r.s.state \in {"ALIGN", "DRIVE", "FINAL_TURN", "SETTLE"}
         /\ Drops(a, r.s, "TRACKING") \/ Stays(a, r.s)
  BY <1>4, <1>5, MoveAtFalls
<1>8. /\ s.index \in Nat /\ s.path.count \in Nat
      /\ i \in Nat /\ i >= s.index /\ i < s.path.count
  BY <1>0, BoundsAssumption DEF SteeringState, Path
<1>9. CASE i = s.index
  <2>1. /\ Points(a) = Points(s) /\ Phase(a, "TRACKING") = Phase(s, "TRACKING")
        /\ Budget(a) = Budget(s) /\ Part(a) = Part(s)
    BY <1>2, <1>3, <1>6, <1>9 DEF Points, Phase, Budget, Part, Unspent
  <2>2. Drops(a, r.s, "TRACKING") => Drops(s, r.s, "TRACKING")
    BY <2>1 DEF Drops
  <2>3. Stays(a, r.s) => Stays(s, r.s)
    BY <1>2, <1>3, <1>6, <1>9 DEF Stays, Unspent, Same
  <2>4. Points(s) \in Nat BY <1>8, LeftFalls DEF Points
  <2>5. Active(r.s) => Points(r.s) = Points(s)
    BY <1>4, <1>6, <1>7, <1>9 DEF Points
  <2> QED BY <1>7, <2>2, <2>3, <2>4, <2>5
<1>10. CASE i # s.index
  <2>1. Left(s.path.count, i) < Left(s.path.count, s.index)
    <3>1. /\ i > s.index /\ i <= s.path.count BY <1>8, <1>10
    <3>2. \A limit, used, more \in Nat :
            used < more /\ more <= limit => Left(limit, more) < Left(limit, used)
      BY LeftFalls
    <3> QED BY <1>8, <3>1, <3>2
  <2>2. Active(r.s) => Points(r.s) < Points(s)
    BY <1>4, <1>6, <1>7, <2>1 DEF Points
  <2>3. Points(s) \in Nat /\ (Active(r.s) => Points(r.s) \in Nat)
    BY <1>4, <1>6, <1>7, <1>8, LeftFalls DEF Points
  <2> QED BY <1>7, <2>2, <2>3 DEF Drops
<1> QED BY <1>9, <1>10


LEMMA KeptPoints ==
  ASSUME NEW s, NEW t, Unspent(s, t)
  PROVE Points(t) = Points(s)
BY DEF Unspent, Points

\* A spin that failed costs a retry
LEMMA RetryFalls ==
  ASSUME NEW s \in SteeringState, s.state = "NO_HEADING", NEW resting \in BOOLEAN
  PROVE LET t == NoHeadingRetry(s, resting).s
        IN \/ ~Active(t)
           \/ /\ t.state = "HOLD" /\ Points(t) = Points(s) /\ Budget(t) < Budget(s)
<1> DEFINE t == NoHeadingRetry(s, resting).s
<1>1. CASE s.retries >= conf.no_heading_retries
  BY <1>1, OverInactive DEF NoHeadingRetry, FailReason
<1>2. CASE ~(s.retries >= conf.no_heading_retries)
  <2> DEFINE e == Enter(s, "HOLD")
             h == [e EXCEPT !.retries = @ + 1, !.resting = resting]
  <2>1. e \in SteeringState /\ Unspent(s, e) /\ e.state = "HOLD"
    BY EnterType, EnterKept DEF State
  <2>2. t = Halt(h) BY <1>2 DEF NoHeadingRetry, Braked, Result
  <2> HIDE DEF e
  <2>3. /\ h \in SteeringState /\ h.state = "HOLD" /\ h.path = e.path
        /\ h.index = e.index /\ h.retries = e.retries + 1
    <3>1. e.retries + 1 \in Nat BY <2>1 DEF SteeringState
    <3> QED BY <2>1, <3>1 DEF SteeringState
  <2> HIDE DEF h, t
  <2>4. /\ t.state = "HOLD" /\ t.path = s.path /\ t.index = s.index
        /\ t.retries = s.retries + 1
    BY <2>1, <2>2, <2>3, HaltKept DEF Unspent
  <2>5. /\ Budget(t) = Left(conf.no_heading_retries, s.retries + 1)
        /\ Budget(s) = Left(conf.no_heading_retries, s.retries)
    BY <2>4 DEF Budget
  <2>6. /\ conf.no_heading_retries \in Nat /\ s.retries \in Nat
        /\ s.retries < conf.no_heading_retries
    BY <1>2, ConfAssumption DEF SteeringState
  <2>7. Budget(t) < Budget(s) BY <2>5, <2>6, LeftFalls
  <2> QED BY <2>4, <2>7 DEF Points, t
<1> QED BY <1>1, <1>2

\* Out of a state without a heading the robot drives on, at the same point
LEMMA RestartFalls ==
  ASSUME NEW s, Live(s), s.state \in {"NO_HEADING", "HOLD", "RECOVER"},
         NEW e, Live(e), e.state = "ALIGN", e.path = s.path, e.index = s.index,
         NEW n \in Nat \ {0}, NEW r \in Move(e, n)
  PROVE GoesOn(s, r.s, "TRACKING")
<1>1. \/ ~Active(r.s)
      \/ /\ r.s.state \in {"ALIGN", "DRIVE", "FINAL_TURN", "SETTLE"}
         /\ Points(r.s) <= Points(e)
         /\ Drops(e, r.s, "TRACKING") \/ Stays(e, r.s)
  BY MoveFalls
<1>2. Points(e) = Points(s) /\ Points(s) \in Nat
  BY RankType DEF Points, Live, Base, Pose
<1>3. Phase(s, "TRACKING") \in {3, 4} BY DEF Phase
<1>4. r.s.state \in {"ALIGN", "DRIVE", "FINAL_TURN", "SETTLE"}
        => Phase(r.s, "TRACKING") \in {1, 2}
  BY DEF Phase
<1>5. Active(r.s) => Points(r.s) \in Nat
  <2>1. Active(r.s) => Drops(e, r.s, "TRACKING") \/ Stays(e, r.s) BY <1>1
  <2> QED BY <1>1, MoveGood, RankType DEF GoodResult, Results, Pose
<1> QED BY <1>1, <1>2, <1>3, <1>4, <1>5 DEF GoesOn, Drops

LEMMA RestartSame ==
  ASSUME NEW s \in SteeringState
  PROVE LET e == Enter(s, "ALIGN")
            h == ResetProgress([e EXCEPT !.retries = 0])
            w == [e EXCEPT !.retries = 0, !.spinning = FALSE]
            p == ResetProgress(e)
        IN /\ h.path = s.path /\ h.index = s.index
           /\ w.path = s.path /\ w.index = s.index
           /\ p.path = s.path /\ p.index = s.index
BY DEF ResetProgress, Enter, SteeringState

LEMMA StepHoldFalls ==
  ASSUME NEW s, Live(s), s.state = "HOLD", NEW pose \in Pose,
         NEW n \in Nat \ {0}, NEW r \in StepHold(s, pose, n)
  PROVE GoesOn(s, r.s, pose)
<1>0. s \in SteeringState BY DEF Live, Base
<1>1. CASE pose = "SEEDING"
  <2>1. CASE s.resting /\ s.state_ticks < conf.no_heading_rest_ticks
    <3>1. s.state_ticks <= Limit("HOLD")
      BY <1>0, <2>1, ConfAssumption DEF Limit, SteeringState
    <3>2. r.s = Halt(s) BY <1>1, <2>1 DEF StepHold, Braked, Result
    <3> QED BY <1>0, <3>1, <3>2, HaltKept DEF GoesOn, Stays, Unspent, Timed
  <2>2. CASE ~(s.resting /\ s.state_ticks < conf.no_heading_rest_ticks)
    <3> DEFINE e == Enter(s, "NO_HEADING")
    <3>1. r.s = Halt(e) BY <1>1, <2>2 DEF StepHold, Coasted, Result
    <3>2. e \in SteeringState /\ Unspent(s, e) /\ e.state = "NO_HEADING"
      BY <1>0, EnterType, EnterKept DEF State
    <3> HIDE DEF e
    <3>3. Unspent(s, r.s) /\ r.s.state = "NO_HEADING"
      BY <3>1, <3>2, HaltKept DEF Unspent
    <3>4. Points(r.s) = Points(s) BY <3>3, KeptPoints
    <3>5. /\ Phase(r.s, pose) = 0 /\ Phase(s, pose) = 0
          /\ Part(r.s) = 0 /\ Part(s) = 1
      BY <1>1, <3>3 DEF Phase, Part, Moving
    <3>6. Budget(r.s) = Budget(s) BY <3>3 DEF Budget, Unspent
    <3> QED BY <3>4, <3>5, <3>6 DEF GoesOn, Drops
  <2> QED BY <2>1, <2>2
<1>2. CASE pose = "TRACKING"
  <2> DEFINE e == ResetProgress([Enter(s, "ALIGN") EXCEPT !.retries = 0])
  <2>1. Live(e) /\ e.state = "ALIGN" BY RestartLive
  <2>2. e.path = s.path /\ e.index = s.index BY <1>0, RestartSame
  <2>3. r \in Move(e, n) BY <1>2 DEF StepHold
  <2> HIDE DEF e
  <2> QED BY <1>2, <2>1, <2>2, <2>3, RestartFalls
<1>3. CASE pose \notin {"SEEDING", "TRACKING"}
  <2>1. r = Braked(IF s.state_ticks > conf.hold_ticks THEN Fail(s, "HOLD") ELSE s)
    BY <1>3 DEF StepHold
  <2>2. CASE s.state_ticks > conf.hold_ticks
    BY <1>0, <2>1, <2>2, OverInactive DEF GoesOn, FailReason
  <2>3. CASE ~(s.state_ticks > conf.hold_ticks)
    <3>1. s.state_ticks <= Limit("HOLD")
      BY <1>0, <2>3, ConfAssumption DEF Limit, SteeringState
    <3>2. r.s = Halt(s) BY <2>1, <2>3 DEF Braked, Result
    <3> QED BY <1>0, <3>1, <3>2, HaltKept DEF GoesOn, Stays, Unspent, Timed
  <2> QED BY <2>2, <2>3
<1> QED BY <1>1, <1>2, <1>3

\* Braked in HOLD out of a state that lost its pose
LEMMA HeldFalls ==
  ASSUME NEW s \in SteeringState, s.state # "HOLD", NEW pose, IsLost(pose)
  PROVE GoesOn(s, Braked(Enter(s, "HOLD")).s, pose)
<1> DEFINE e == Enter(s, "HOLD")
<1>1. e \in SteeringState /\ Unspent(s, e) /\ e.state = "HOLD"
  BY EnterType, EnterKept DEF State
<1>2. Braked(e).s = Halt(e) BY DEF Braked, Result
<1> HIDE DEF e
<1>3. Unspent(s, Halt(e)) /\ Halt(e).state = "HOLD" BY <1>1, HaltKept DEF Unspent
<1>4. Points(Halt(e)) = Points(s) BY <1>3, KeptPoints
<1>5. Phase(Halt(e), pose) = 0 /\ Phase(s, pose) = 1
  BY <1>3 DEF Phase, IsLost
<1> QED BY <1>2, <1>4, <1>5 DEF GoesOn, Drops, e

LEMMA StepRecoverFalls ==
  ASSUME NEW s, Live(s), s.state = "RECOVER", NEW pose \in Pose,
         NEW n \in Nat \ {0}, NEW r \in StepRecover(s, pose, n)
  PROVE GoesOn(s, r.s, pose)
<1>0. s \in SteeringState /\ s.retries = 0 BY DEF Live, Base, Restored
<1>1. CASE pose = "TRACKING"
  <2> DEFINE e == ResetProgress(Enter(s, "ALIGN"))
  <2>1. Live(e) /\ e.state = "ALIGN" BY <1>0, RestartLive
  <2>2. e.path = s.path /\ e.index = s.index BY <1>0, RestartSame
  <2>3. r \in Move(e, n) BY <1>1 DEF StepRecover
  <2> HIDE DEF e
  <2> QED BY <1>1, <2>1, <2>2, <2>3, RestartFalls
<1>2. CASE pose = "SEEDING" /\ s.state_ticks >= conf.recover_ticks
  <2>1. r = Braked(Fail(s, "HEADING_LOST")) BY <1>2 DEF StepRecover
  <2> QED BY <1>0, <2>1, OverInactive DEF GoesOn, FailReason
<1>3. CASE pose = "SEEDING" /\ ~(s.state_ticks >= conf.recover_ticks)
  <2>1. s.state_ticks <= Limit("RECOVER")
    BY <1>0, <1>3, ConfAssumption DEF Limit, SteeringState
  <2>2. r.s = s BY <1>3 DEF StepRecover, Result
  <2> QED BY <2>1, <2>2 DEF GoesOn, Stays, Unspent, Timed
<1>4. CASE pose \notin {"SEEDING", "TRACKING"}
  <2>1. r = Braked(Enter(s, "HOLD")) BY <1>4 DEF StepRecover
  <2> QED BY <1>0, <1>4, <2>1, HeldFalls DEF IsLost, Pose
<1> QED BY <1>1, <1>2, <1>3, <1>4

LEMMA StepNoHeadingFalls ==
  ASSUME NEW s, Live(s), s.state = "NO_HEADING", NEW pose \in Pose,
         NEW n \in Nat \ {0}, NEW r \in StepNoHeading(s, pose, n)
  PROVE GoesOn(s, r.s, pose)
<1>0. s \in SteeringState BY DEF Live, Base
<1>1. CASE pose = "TRACKING" /\ (~s.spinning \/ s.state_ticks >= conf.no_heading_turn_ticks)
  <2> DEFINE e == [Enter(s, "ALIGN") EXCEPT !.retries = 0, !.spinning = FALSE]
  <2>1. Live(e) /\ e.state = "ALIGN" BY RestartLive
  <2>2. e.path = s.path /\ e.index = s.index BY <1>0, RestartSame
  <2>3. r \in Move(e, n) BY <1>1 DEF StepNoHeading
  <2> HIDE DEF e
  <2> QED BY <1>1, <2>1, <2>2, <2>3, RestartFalls
<1>2. CASE \E resting \in BOOLEAN : r = NoHeadingRetry(s, resting)
  <2>1. PICK resting \in BOOLEAN : r = NoHeadingRetry(s, resting) BY <1>2
  <2>2. \/ ~Active(r.s)
        \/ r.s.state = "HOLD" /\ Points(r.s) = Points(s) /\ Budget(r.s) < Budget(s)
    BY <1>0, <2>1, RetryFalls
  <2>3. ASSUME r.s.state = "HOLD"
        PROVE Phase(r.s, pose) < Phase(s, pose) \/ Phase(r.s, pose) = Phase(s, pose)
    BY <2>3 DEF Phase, Pose, Moving
  <2> QED BY <2>2, <2>3 DEF GoesOn, Drops
<1>3. CASE /\ ~(s.state_ticks > conf.no_heading_ticks)
           /\ r = Result([s EXCEPT !.spinning = TRUE, !.v = 0, !.turning = TRUE], "spin")
  <2> DEFINE t == [s EXCEPT !.spinning = TRUE, !.v = 0, !.turning = TRUE]
  <2>1. Unspent(s, t) /\ t.state = s.state /\ t.state_ticks = s.state_ticks
    BY <1>0 DEF Unspent, SteeringState
  <2>2. r.s = t BY <1>3 DEF Result
  <2> HIDE DEF t
  <2>3. s.state_ticks <= Limit("NO_HEADING")
    BY <1>0, <1>3, ConfAssumption DEF Limit, SteeringState
  <2> QED BY <2>1, <2>2, <2>3 DEF GoesOn, Stays, Timed
<1> QED BY <1>1, <1>2, <1>3 DEF StepNoHeading


\* SETTLE ends, goes on in time or spends a nudge, and NUDGE leads back to it
LEMMA SettlingFalls ==
  ASSUME NEW s, Live(s), s.state \in {"SETTLE", "NUDGE"}, NEW pose \in Pose, NEW r,
         r \in IF s.state = "SETTLE" THEN StepSettle(s) ELSE StepNudge(s)
  PROVE GoesOn(s, r.s, pose)
<1>0. s \in SteeringState BY DEF Live, Base
<1>1. CASE s.state = "NUDGE" /\ s.state_ticks > conf.nudge_ticks
  <2>1. r = Settle(s) BY <1>1 DEF StepNudge
  <2>2. Unspent(s, r.s) /\ r.s.state = "SETTLE" BY <1>0, <2>1, SettleKept
  <2>3. /\ Phase(r.s, pose) = Phase(s, pose) /\ Budget(r.s) = Budget(s)
        /\ Part(r.s) = 0 /\ Part(s) = 1
    BY <1>1, <2>2 DEF Phase, Pose, Budget, Part, Unspent, Moving
  <2> QED BY <2>2, <2>3, KeptPoints DEF GoesOn, Drops
<1>2. CASE s.state = "NUDGE" /\ ~(s.state_ticks > conf.nudge_ticks)
  <2>1. s.state_ticks <= Limit("NUDGE")
    BY <1>0, <1>2, ConfAssumption DEF Limit, SteeringState
  <2>2. r.s = s BY <1>2 DEF StepNudge, Result
  <2> QED BY <1>2, <2>1, <2>2 DEF GoesOn, Stays, Unspent, Timed
<1>3. CASE s.state = "SETTLE" /\ s.settle_count >= conf.settle_fixes
  <2>1. \/ r = Arrive(s) \/ r = Braked(Fail(s, "SETTLE"))
        \/ /\ ~(s.nudges >= conf.settle_nudges)
           /\ \E v \in {-1, 0, 1} :
                r = Result([Enter(s, "NUDGE") EXCEPT !.nudges = @ + 1, !.v = v], "nudge")
    BY <1>3 DEF StepSettle, SettleCheck
  <2>2. ASSUME NEW v \in {-1, 0, 1}, ~(s.nudges >= conf.settle_nudges),
               r = Result([Enter(s, "NUDGE") EXCEPT !.nudges = @ + 1, !.v = v], "nudge")
        PROVE Drops(s, r.s, pose)
    <3> DEFINE e == Enter(s, "NUDGE")
               t == [e EXCEPT !.nudges = @ + 1, !.v = v]
    <3>1. e \in SteeringState /\ Unspent(s, e) /\ e.state = "NUDGE"
      BY <1>0, EnterType, EnterKept DEF State
    <3>2. r.s = t BY <2>2 DEF Result
    <3> HIDE DEF e
    <3>3. /\ t.state = "NUDGE" /\ t.path = e.path /\ t.index = e.index
          /\ t.nudges = e.nudges + 1
      BY <3>1 DEF SteeringState
    <3> HIDE DEF t
    <3>4. /\ r.s.state = "NUDGE" /\ r.s.path = s.path /\ r.s.index = s.index
          /\ r.s.nudges = s.nudges + 1
      BY <3>1, <3>2, <3>3 DEF Unspent
    <3>5. Points(r.s) = Points(s) /\ Phase(r.s, pose) = Phase(s, pose)
      BY <1>3, <3>4 DEF Points, Phase, Pose, Moving
    <3>6. /\ Budget(r.s) = Left(conf.settle_nudges, s.nudges + 1)
          /\ Budget(s) = Left(conf.settle_nudges, s.nudges)
      BY <1>3, <3>4 DEF Budget
    <3>7. /\ conf.settle_nudges \in Nat /\ s.nudges \in Nat
          /\ s.nudges < conf.settle_nudges
      BY <1>0, <2>2, ConfAssumption DEF SteeringState
    <3>8. Budget(r.s) < Budget(s) BY <3>6, <3>7, LeftFalls
    <3> QED BY <3>5, <3>8 DEF Drops
  <2> QED BY <1>0, <2>1, <2>2, OverInactive DEF GoesOn, FailReason
<1>4. CASE s.state = "SETTLE" /\ ~(s.settle_count >= conf.settle_fixes)
  <2>1. r = Braked(IF s.state_ticks > conf.settle_ticks THEN Fail(s, "SETTLE") ELSE s)
    BY <1>4 DEF StepSettle
  <2>2. CASE s.state_ticks > conf.settle_ticks
    BY <1>0, <2>1, <2>2, OverInactive DEF GoesOn, FailReason
  <2>3. CASE ~(s.state_ticks > conf.settle_ticks)
    <3>1. s.state_ticks <= Limit("SETTLE")
      BY <1>0, <2>3, ConfAssumption DEF Limit, SteeringState
    <3>2. r.s = Halt(s) BY <2>1, <2>3 DEF Braked, Result
    <3> QED BY <1>0, <1>4, <3>1, <3>2, HaltKept DEF GoesOn, Stays, Unspent, Timed
  <2> QED BY <2>2, <2>3
<1> QED BY <1>1, <1>2, <1>3, <1>4

LEMMA StepMovingFalls ==
  ASSUME NEW s, Live(s), s.state \in Moving, NEW pose \in Pose,
         NEW n \in Nat \ {0}, NEW r \in StepMoving(s, pose, n)
  PROVE GoesOn(s, r.s, pose)
<1>0. s \in SteeringState BY DEF Live, Base
<1>1. CASE pose = "SEEDING"
  <2>1. \/ r = Coasted(Enter(s, "NO_HEADING"))
        \/ r = Result([Enter(s, "RECOVER") EXCEPT !.turning = FALSE], "straight")
    BY <1>1 DEF StepMoving, HeadingLost, When
  <2>2. Unspent(s, r.s) /\ r.s.state \in {"NO_HEADING", "RECOVER"}
    <3>1. CASE r = Coasted(Enter(s, "NO_HEADING"))
      <4> DEFINE e == Enter(s, "NO_HEADING")
      <4>1. e \in SteeringState /\ Unspent(s, e) /\ e.state = "NO_HEADING"
        BY <1>0, EnterType, EnterKept DEF State
      <4>2. r.s = Halt(e) BY <3>1 DEF Coasted, Result
      <4> HIDE DEF e
      <4> QED BY <4>1, <4>2, HaltKept DEF Unspent
    <3>2. CASE r = Result([Enter(s, "RECOVER") EXCEPT !.turning = FALSE], "straight")
      <4> DEFINE e == Enter(s, "RECOVER")
                 t == [e EXCEPT !.turning = FALSE]
      <4>1. e \in SteeringState /\ Unspent(s, e) /\ e.state = "RECOVER"
        BY <1>0, EnterType, EnterKept DEF State
      <4>2. r.s = t BY <3>2 DEF Result
      <4> HIDE DEF e
      <4>3. Unspent(e, t) /\ t.state = "RECOVER" BY <4>1 DEF Unspent, SteeringState
      <4> QED BY <4>1, <4>2, <4>3 DEF Unspent
    <3> QED BY <2>1, <3>1, <3>2
  <2>3. Phase(r.s, pose) = 0 /\ Phase(s, pose) = 1
    BY <1>1, <2>2 DEF Phase, Moving
  <2> QED BY <2>2, <2>3, KeptPoints DEF GoesOn, Drops
<1>2. CASE IsLost(pose)
  <2>1. r = Braked(Enter(s, "HOLD")) BY <1>2 DEF StepMoving, IsLost
  <2>2. s.state # "HOLD" BY DEF Moving
  <2> QED BY <1>0, <1>2, <2>1, <2>2, HeldFalls
<1>3. CASE pose = "TRACKING"
  <2>1. CASE s.state \in {"SETTLE", "NUDGE"}
    <3>1. r \in IF s.state = "SETTLE" THEN StepSettle(s) ELSE StepNudge(s)
      BY <1>3, <2>1 DEF StepMoving, IsLost
    <3> QED BY <2>1, <3>1, SettlingFalls
  <2>2. CASE s.state \notin {"SETTLE", "NUDGE"}
    <3>1. r \in Move(s, n) BY <1>3, <2>2 DEF StepMoving, IsLost
    <3>2. ~Active(r.s) \/ Drops(s, r.s, "TRACKING") \/ Stays(s, r.s)
      BY <2>2, <3>1, MoveFalls DEF Moving
    <3> QED BY <1>3, <3>2 DEF GoesOn
  <2> QED BY <2>1, <2>2
<1> QED BY <1>1, <1>2, <1>3 DEF Pose, IsLost

\* The lexicographic order of ranks
Lower(a, b) ==
  \E j \in 1 .. 5 : a[j] < b[j] /\ \A i \in 1 .. j - 1 : a[i] = b[i]

LEMMA LowerIs ==
  ASSUME NEW s, NEW t, NEW pose
  PROVE /\ Drops(s, t, pose) => Lower(Rank(t, pose), Rank(s, pose))
        /\ /\ Points(t) = Points(s) /\ Phase(t, pose) = Phase(s, pose)
           /\ Budget(t) = Budget(s) /\ Part(t) = Part(s) /\ Time(t) < Time(s)
           => Lower(Rank(t, pose), Rank(s, pose))
<1> DEFINE a == Rank(t, pose)
           b == Rank(s, pose)
<1>1. /\ a[1] = Points(t) /\ a[2] = Phase(t, pose) /\ a[3] = Budget(t)
      /\ a[4] = Part(t) /\ a[5] = Time(t)
      /\ b[1] = Points(s) /\ b[2] = Phase(s, pose) /\ b[3] = Budget(s)
      /\ b[4] = Part(s) /\ b[5] = Time(s)
  BY DEF Rank
<1> HIDE DEF a, b
<1>2. ASSUME NEW j \in 1 .. 5, a[j] < b[j], \A i \in 1 .. j - 1 : a[i] = b[i]
      PROVE Lower(a, b)
  BY <1>2 DEF Lower
<1>3. /\ 1 .. 1 - 1 = {} /\ 1 .. 2 - 1 = {1} /\ 1 .. 3 - 1 = {1, 2}
      /\ 1 .. 4 - 1 = {1, 2, 3} /\ 1 .. 5 - 1 = {1, 2, 3, 4}
  OBVIOUS
<1>4. /\ a[1] < b[1] => Lower(a, b)
      /\ a[1] = b[1] /\ a[2] < b[2] => Lower(a, b)
      /\ a[1] = b[1] /\ a[2] = b[2] /\ a[3] < b[3] => Lower(a, b)
      /\ a[1] = b[1] /\ a[2] = b[2] /\ a[3] = b[3] /\ a[4] < b[4] => Lower(a, b)
      /\ /\ a[1] = b[1] /\ a[2] = b[2] /\ a[3] = b[3] /\ a[4] = b[4]
         /\ a[5] < b[5]
         => Lower(a, b)
  BY <1>2, <1>3
<1> QED BY <1>1, <1>4 DEF Drops, a, b

\* A step on a batch ends it or lowers its rank
LEMMA StepFalls ==
  ASSUME NEW s, Good(s), Active(s), NEW pose \in Pose, NEW n \in Nat \ {0},
         NEW r \in Step(s, pose, n)
  PROVE ~Active(r.s) \/ Lower(Rank(r.s, pose), Rank(s, pose))
<1> DEFINE l == Later(s, n)
<1>0. s \in SteeringState BY DEF Good, Base
<1>1. Live(l) /\ l.state = s.state /\ Active(l) BY LaterGood DEF Live, Active
<1>2. /\ Unspent(s, l)
      /\ s.state \in Timed => l.state_ticks = s.state_ticks + n
  BY <1>0 DEF Unspent, Later, SteeringState
<1>3. GoesOn(l, r.s, pose)
  <2>1. CASE pose = "FREE_SPIN"
    <3>1. r = Braked(Fail(l, "NO_HEADING")) BY <1>1, <2>1 DEF Step, Active
    <3> HIDE DEF l
    <3> QED BY <1>1, <3>1, OverInactive DEF GoesOn, FailReason, Live, Base
  <2>2. CASE pose # "FREE_SPIN"
    <3>1. l.state \in {"HOLD", "RECOVER", "NO_HEADING"} \cup Moving
      BY <1>1 DEF Live, Base, SteeringState, State, Moving, Active
    <3>2. r \in IF l.state = "HOLD" THEN StepHold(l, pose, n)
                ELSE IF l.state = "RECOVER" THEN StepRecover(l, pose, n)
                ELSE IF l.state = "NO_HEADING" THEN StepNoHeading(l, pose, n)
                ELSE StepMoving(l, pose, n)
      BY <1>1, <2>2 DEF Step, Active
    <3> HIDE DEF l
    <3> QED
      BY <1>1, <3>1, <3>2, StepHoldFalls, StepRecoverFalls, StepNoHeadingFalls,
         StepMovingFalls
  <2> QED BY <2>1, <2>2
<1> HIDE DEF l
<1>4. /\ Points(l) = Points(s) /\ Phase(l, pose) = Phase(s, pose)
      /\ Budget(l) = Budget(s) /\ Part(l) = Part(s)
  BY <1>1, <1>2 DEF Points, Phase, Budget, Part, Unspent
<1>5. CASE Drops(l, r.s, pose)
  <2>1. Drops(s, r.s, pose) BY <1>4, <1>5 DEF Drops
  <2> QED BY <2>1, LowerIs
<1>6. CASE Stays(l, r.s)
  <2>1. /\ Unspent(s, r.s) /\ r.s.state = s.state /\ s.state \in Timed
        /\ r.s.state_ticks = s.state_ticks + n
        /\ r.s.state_ticks <= Limit(s.state)
    BY <1>1, <1>2, <1>6 DEF Stays, Unspent
  <2>2. /\ Points(r.s) = Points(s) /\ Phase(r.s, pose) = Phase(s, pose)
        /\ Budget(r.s) = Budget(s) /\ Part(r.s) = Part(s)
    BY <2>1 DEF Points, Phase, Budget, Part, Unspent
  <2>3. /\ Time(r.s) = Left(Limit(s.state), s.state_ticks + n)
        /\ Time(s) = Left(Limit(s.state), s.state_ticks)
    BY <2>1 DEF Time
  <2>4. /\ Limit(s.state) \in Nat /\ s.state_ticks \in Nat
        /\ s.state_ticks < s.state_ticks + n /\ s.state_ticks + n \in Nat
        /\ s.state_ticks + n <= Limit(s.state)
    BY <1>0, <2>1, LimitNat DEF SteeringState
  <2>5. Time(r.s) < Time(s)
    <3>1. \A limit, used, more \in Nat :
            used < more /\ more <= limit => Left(limit, more) < Left(limit, used)
      BY LeftFalls
    <3> QED BY <2>3, <2>4, <3>1
  <2> QED BY <2>2, <2>5, LowerIs
<1> QED BY <1>3, <1>5, <1>6 DEF GoesOn

\* A poll and a fix leave it or lower it too
LEMMA PollFalls ==
  ASSUME NEW s, Good(s), NEW pose \in Pose, NEW r \in Poll(s, pose)
  PROVE \/ Rank(r.s, pose) = Rank(s, pose)
        \/ Lower(Rank(r.s, pose), Rank(s, pose))
<1>0. s \in SteeringState BY DEF Good, Base
<1>1. \/ r = Result(s, "none")
      \/ s.state \in {"DRIVE", "NUDGE"} /\ r = Settle(s) /\ pose = "TRACKING"
      \/ r = Braked(s)
  BY DEF Poll, When
<1>2. CASE r = Result(s, "none") BY <1>2 DEF Result
<1>3. CASE r = Braked(s)
  <2>1. r.s = Halt(s) BY <1>3 DEF Braked, Result
  <2>2. /\ Unspent(s, r.s) /\ r.s.state = s.state /\ r.s.state_ticks = s.state_ticks
    BY <1>0, <2>1, HaltKept
  <2> QED BY <2>2 DEF Rank, Points, Phase, Budget, Part, Time, Unspent
<1>4. CASE s.state \in {"DRIVE", "NUDGE"} /\ r = Settle(s) /\ pose = "TRACKING"
  <2>1. Unspent(s, r.s) /\ r.s.state = "SETTLE" BY <1>0, <1>4, SettleKept
  <2>2. CASE s.state = "DRIVE"
    <3>1. Phase(r.s, pose) = 1 /\ Phase(s, pose) = 2
      BY <1>4, <2>1, <2>2 DEF Phase
    <3>2. Drops(s, r.s, pose) BY <2>1, <3>1, KeptPoints DEF Drops
    <3> QED BY <3>2, LowerIs
  <2>3. CASE s.state = "NUDGE"
    <3>1. /\ Phase(r.s, pose) = Phase(s, pose) /\ Budget(r.s) = Budget(s)
          /\ Part(r.s) = 0 /\ Part(s) = 1
      BY <1>4, <2>1, <2>3 DEF Phase, Budget, Part, Unspent
    <3>2. Drops(s, r.s, pose) BY <2>1, <3>1, KeptPoints DEF Drops
    <3> QED BY <3>2, LowerIs
  <2> QED BY <1>4, <2>2, <2>3
<1> QED BY <1>1, <1>2, <1>3, <1>4

LEMMA FixFalls ==
  ASSUME NEW s \in SteeringState, NEW pose
  PROVE Rank(Fix(s), pose) = Rank(s, pose)
<1>1. /\ Unspent(s, Fix(s)) /\ Fix(s).state = s.state
      /\ Fix(s).state_ticks = s.state_ticks
  BY DEF Unspent, Fix, SteeringState
<1> QED BY <1>1 DEF Rank, Points, Phase, Budget, Part, Time, Unspent


\* Ranks have no infinite descent
Ranks == [1 .. 5 -> Nat]
Below == {ss \in Ranks \X Ranks : Lower(ss[1], ss[2])}

LEMMA RankIn ==
  ASSUME NEW s \in SteeringState, NEW pose \in Pose
  PROVE Rank(s, pose) \in Ranks
BY RankType DEF Rank, Ranks

LEMMA BelowWellFounded == IsWellFoundedOn(Below, Ranks)
<1> DEFINE R == OpToRel(<, Nat)
           L == LexProductOrdering(R, Nat, 5)
<1>1. IsWellFoundedOn(R, Nat) BY NatLessThanWellFounded
<1>2. \A x, y \in Nat : x < y => <<x, y>> \in R BY DEF OpToRel
<1> HIDE DEF R
<1>3. IsWellFoundedOn(L, Ranks) BY <1>1, WFLexProductOrdering DEF Ranks
<1>4. Below \cap (Ranks \X Ranks) \subseteq L
  <2> SUFFICES ASSUME NEW a \in Ranks, NEW b \in Ranks, Lower(a, b)
               PROVE <<a, b>> \in L
    BY DEF Below
  <2>1. PICK j \in 1 .. 5 : a[j] < b[j] /\ \A i \in 1 .. j - 1 : a[i] = b[i]
    BY DEF Lower
  <2>2. a[j] \in Nat /\ b[j] \in Nat BY DEF Ranks
  <2>3. <<a[j], b[j]>> \in R BY <1>2, <2>1, <2>2
  <2> QED BY <2>1, <2>3 DEF LexProductOrdering, Ranks
<1> HIDE DEF L
<1> QED BY <1>3, <1>4, IsWellFoundedOnSubrelation

LEMMA LowerIrreflexive == \A a \in Ranks : ~Lower(a, a)
BY DEF Lower, Ranks

LEMMA LowerTransitive ==
  ASSUME NEW a \in Ranks, NEW b \in Ranks, NEW c \in Ranks, Lower(a, b), Lower(b, c)
  PROVE Lower(a, c)
<1>1. PICK j \in 1 .. 5 : a[j] < b[j] /\ \A i \in 1 .. j - 1 : a[i] = b[i]
  BY DEF Lower
<1>2. PICK k \in 1 .. 5 : b[k] < c[k] /\ \A i \in 1 .. k - 1 : b[i] = c[i]
  BY DEF Lower
<1>3. \A i \in 1 .. 5 : a[i] \in Nat /\ b[i] \in Nat /\ c[i] \in Nat BY DEF Ranks
<1> DEFINE l == IF j <= k THEN j ELSE k
<1>4. l \in 1 .. 5 /\ l <= j /\ l <= k /\ (l = j \/ l = k) OBVIOUS
<1> HIDE DEF l
<1>5. \A i \in 1 .. l - 1 : a[i] = c[i]
  <2> TAKE i \in 1 .. l - 1
  <2>1. i \in 1 .. j - 1 /\ i \in 1 .. k - 1 BY <1>4
  <2> QED BY <1>1, <1>2, <2>1
<1>6. a[l] < c[l]
  <2>1. l < j => a[l] = b[l] BY <1>1, <1>4
  <2>2. l < k => b[l] = c[l] BY <1>2, <1>4
  <2>3. l = j => a[l] < b[l] BY <1>1
  <2>4. l = k => b[l] < c[l] BY <1>2
  <2>5. a[l] <= b[l] BY <1>3, <1>4, <2>1, <2>3
  <2>6. b[l] <= c[l] BY <1>3, <1>4, <2>2, <2>4
  <2> QED BY <1>3, <1>4, <2>3, <2>4, <2>5, <2>6
<1> QED BY <1>4, <1>5, <1>6 DEF Lower

\* Induction over the numbers, of a set
LEMMA AllNats ==
  ASSUME NEW T \in SUBSET Nat, 0 \in T, \A i \in T : i + 1 \in T
  PROVE T = Nat
<1> DEFINE R == OpToRel(<, Nat)
<1>1. IsWellFoundedOn(R, Nat) BY NatLessThanWellFounded
<1>2. \A x, y \in Nat : x < y => <<x, y>> \in R BY DEF OpToRel
<1> HIDE DEF R
<1> SUFFICES ASSUME NEW k \in Nat \ T PROVE FALSE OBVIOUS
<1>3. Nat \ T \subseteq Nat /\ Nat \ T # {} OBVIOUS
<1>4. \E x \in Nat \ T : \A y \in Nat \ T : ~ (<<y, x>> \in R)
  BY <1>1, <1>3, WFMin
<1>5. PICK x \in Nat \ T : \A y \in Nat \ T : ~ (<<y, x>> \in R) BY <1>4
<1>6. x \in Nat /\ x # 0 OBVIOUS
<1>7. x - 1 \in T
  <2>1. x - 1 \in Nat /\ x - 1 < x BY <1>6
  <2>2. <<x - 1, x>> \in R BY <1>2, <1>6, <2>1
  <2> QED BY <1>5, <2>1, <2>2
<1>8. (x - 1) + 1 \in T BY <1>7
<1>9. (x - 1) + 1 = x OBVIOUS
<1> QED BY <1>8, <1>9

\* What never rises in an order that is well-founded stands still in the end
LEMMA Descent ==
  ASSUME NEW S, NEW R, IsWellFoundedOn(R, S), NEW rank \in [Nat -> S],
         \A i \in Nat : rank[i + 1] = rank[i] \/ <<rank[i + 1], rank[i]>> \in R
  PROVE \E m \in Nat : \A i \in Nat : rank[m + i] = rank[m]
<1> DEFINE T == {rank[i] : i \in Nat}
<1>1. T \subseteq S /\ T # {}
  <2>1. rank[0] \in T OBVIOUS
  <2> QED BY <2>1
<1>2. \E x \in T : \A y \in T : ~ (<<y, x>> \in R) BY <1>1, WFMin
<1>3. PICK m \in Nat : \A i \in Nat : ~ (<<rank[i], rank[m]>> \in R) BY <1>2
<1> DEFINE U == {i \in Nat : rank[m + i] = rank[m]}
<1>4. 0 \in U OBVIOUS
<1>5. ASSUME NEW i \in U PROVE i + 1 \in U
  <2>1. i \in Nat /\ m + i \in Nat /\ rank[m + i] = rank[m] OBVIOUS
  <2>2. m + (i + 1) = (m + i) + 1 BY <2>1
  <2>3. rank[(m + i) + 1] = rank[m + i] \/ <<rank[(m + i) + 1], rank[m + i]>> \in R
    BY <2>1
  <2>4. (m + i) + 1 \in Nat BY <2>1
  <2>5. rank[(m + i) + 1] = rank[m] BY <1>3, <2>1, <2>3, <2>4
  <2> QED BY <2>1, <2>2, <2>5
<1> HIDE DEF U
<1>6. U = Nat
  <2>1. U \in SUBSET Nat BY DEF U
  <2> QED BY <1>4, <1>5, <2>1, AllNats
<1> QED BY <1>6 DEF U
=============================================================================
