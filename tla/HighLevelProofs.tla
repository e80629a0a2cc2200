--------------------------- MODULE HighLevelProofs ---------------------------
(***************************************************************************)
(* The properties of HighLevel, for any events, rate calls and counters.   *)
(***************************************************************************)
EXTENDS HighLevel, TLAPS

USE HighLevelAssumption

Counts(list, e) == \E k \in 1..Len(list) : list[k] = e

\* What TypeOK and the other invariants say of one HighLevelInfo, and why a
\* series starts at zero: whoever added anything up left PAPI_TOT_CYC in the
\* set, and with it there no series can start.
TypeInv(s) == s \in Infos /\ Len(s.events) <= NumCntrs
LevelInv(s) == (s.level # "none" <=> s.runs) /\ (s.runs => ~userRuns)
CallsInv(s) ==
  /\ s.events = leftover \o asked
  /\ s.level = "none" => asked = <<>>
  /\ s.level = "counters" => s.numEvts = Len(asked)
  /\ s.level \in Rates => asked = RateEvents(s.level)
TotalInv(s) ==
  s.level \in Rates \/ (s.level = "none" /\ s.total # 0) => Counts(s.events, TOT_CYC)

Inv(s) == TypeInv(s) /\ LevelInv(s) /\ CallsInv(s) /\ TotalInv(s)

OtherTypes == /\ userRuns \in BOOLEAN /\ present \in Platforms
              /\ leftover \in Seq(Events) /\ asked \in Seq(Events)

\* A set that is yet to be created has nothing left in it.
IInv == /\ OtherTypes
        /\ hl # NoInfo => Inv(hl)
        /\ hl = NoInfo => leftover = <<>> /\ asked = <<>>

-----------------------------------------------------------------------------
\* Sequences of events.

LEMMA AppendedType ==
  ASSUME NEW list \in Seq(Events), NEW new \in Seq(Events), Len(list) <= NumCntrs,
         AllAccepted(list, new)
  PROVE  list \o new \in Seq(Events) /\ Len(list \o new) <= NumCntrs
<1>1. CASE new = <<>>
  BY <1>1
<1>2. CASE new # <<>>
  <2>1. Len(new) \in 1..Len(new)
    BY <1>2
  <2>2. Accepts(list \o SubSeq(new, 1, Len(new) - 1), new[Len(new)])
    BY <2>1 DEF AllAccepted
  <2>3. Len(list \o SubSeq(new, 1, Len(new) - 1)) = Len(list) + Len(new) - 1
    BY <2>1
  <2> QED BY <2>2, <2>3 DEF Accepts
<1> QED BY <1>1, <1>2

LEMMA AppendedCounts ==
  ASSUME NEW list \in Seq(Events), NEW new \in Seq(Events), NEW e,
         Counts(list, e) \/ Counts(new, e)
  PROVE  Counts(list \o new, e)
<1>1. CASE Counts(list, e)
  BY <1>1 DEF Counts
<1>2. CASE Counts(new, e)
  <2>1. PICK k \in 1..Len(new) : new[k] = e
    BY <1>2 DEF Counts
  <2>2. Len(list) + k \in 1..Len(list \o new) /\ (list \o new)[Len(list) + k] = e
    BY <2>1
  <2> QED BY <2>2 DEF Counts
<1> QED BY <1>1, <1>2

\* PAPI_TOT_CYC is the second event of every series.
LEMMA SecondCounts ==
  ASSUME NEW l \in Rates
  PROVE  /\ RateEvents(l) \in Seq(Events)
         /\ Counts(RateEvents(l), TOT_CYC)
<1>1. EventOf[l] \in Events
  OBVIOUS
<1>2. <<EventOf[l], TOT_CYC>> \in Seq(Events)
  BY <1>1
<1>3. 2 \in 1..Len(<<EventOf[l], TOT_CYC>>) /\ <<EventOf[l], TOT_CYC>>[2] = TOT_CYC
  OBVIOUS
<1> QED BY <1>2, <1>3 DEF Counts, RateEvents

\* No series starts in a set that has PAPI_TOT_CYC already.
LEMMA SeriesRefused ==
  ASSUME NEW list \in Seq(Events), NEW l \in Rates, Counts(list, TOT_CYC)
  PROVE  ~AllAccepted(list, RateEvents(l))
<1> DEFINE new == RateEvents(l)
           before == list \o SubSeq(new, 1, 1)
<1>1. new \in Seq(Events) /\ Len(new) = 2 /\ new[2] = TOT_CYC
  BY SecondCounts DEF RateEvents
<1>2. SubSeq(new, 1, 1) \in Seq(Events)
  <2>1. EventOf[l] \in Events /\ SubSeq(<<EventOf[l], TOT_CYC>>, 1, 1) \in Seq(Events)
    OBVIOUS
  <2> QED BY <2>1, Zenon DEF RateEvents
<1> HIDE DEF new
<1>3. Counts(before, TOT_CYC)
  BY <1>2, AppendedCounts
<1>4. TOT_CYC \in Codes(before)
  BY <1>3 DEF Codes, Counts
<1>5. ~Accepts(list \o SubSeq(new, 1, 2 - 1), new[2])
  BY <1>1, <1>4 DEF Accepts
<1>6. 2 \in 1..Len(new)
  BY <1>1
<1>7. ~AllAccepted(list, new)
  BY <1>5, <1>6 DEF AllAccepted
<1> QED BY <1>7 DEF new

-----------------------------------------------------------------------------
\* Records.

LEMMA FreshInv == ASSUME leftover = <<>>, asked = <<>> PROVE Inv(Fresh)
<1>1. TypeInv(Fresh)
  BY DEF TypeInv, Fresh, Infos
<1>2. LevelInv(Fresh) /\ CallsInv(Fresh) /\ TotalInv(Fresh)
  BY DEF LevelInv, CallsInv, TotalInv, Fresh
<1> QED BY <1>1, <1>2 DEF Inv

LEMMA CheckedInv == IInv => Inv(Checked)
  BY FreshInv DEF IInv, Checked

\* A set that no call runs has only what failed calls left.
LEMMA OnlyLeftover ==
  ASSUME IInv, Checked.level = "none"
  PROVE  Checked.events = leftover /\ asked = <<>>
<1>1. CallsInv(Checked) /\ leftover \in Seq(Events)
  BY CheckedInv DEF Inv, IInv, OtherTypes
<1> QED BY <1>1 DEF CallsInv

LEMMA CleanedInv ==
  ASSUME NEW s \in Infos, ~s.runs
  PROVE  /\ Cleaned(s) \in Infos
         /\ Cleaned(s).events = <<>> /\ Cleaned(s).level = "none"
         /\ Cleaned(s).total = 0 /\ ~Cleaned(s).runs
<1>1. <<>> \in Seq(Events) /\ 0 \in Nat /\ 0 \in 0..MaxTotal
  OBVIOUS
<1>2. Cleaned(s) \in Infos
  BY <1>1 DEF Cleaned, Infos
<1>3. /\ Cleaned(s).events = <<>> /\ Cleaned(s).level = "none"
      /\ Cleaned(s).total = 0
  BY DEF Cleaned, Infos
<1>4. ~Cleaned(s).runs
  BY DEF Cleaned, Infos
<1> QED BY <1>2, <1>3, <1>4

LEMMA EmptiedInv ==
  ASSUME hl' \in Infos, hl'.events = <<>>, hl'.level = "none", hl'.total = 0,
         ~hl'.runs, userRuns' \in BOOLEAN, present' \in Platforms, Nothing
  PROVE  IInv'
<1>1. TypeInv(hl)'
  <2>1. Len(hl'.events) = 0
    OBVIOUS
  <2> QED BY <2>1 DEF TypeInv
<1>2. LevelInv(hl)' /\ CallsInv(hl)' /\ TotalInv(hl)'
  BY DEF LevelInv, CallsInv, TotalInv, Nothing
<1>3. OtherTypes' /\ leftover' = <<>> /\ asked' = <<>>
  BY DEF OtherTypes, Nothing
<1> QED BY <1>1, <1>2, <1>3 DEF IInv, Inv

LEMMA InitIInv == Init => IInv
<1>1. <<>> \in Seq(Events)
  OBVIOUS
<1> QED BY <1>1 DEF Init, IInv, OtherTypes

\* A failed call leaves its events behind what was left before.
LEMMA LeavesInv ==
  ASSUME IInv, Checked.level = "none", NEW new \in Seq(Events), Leaves(new),
         hl'.events = Checked.events \o new, hl'.level = "none",
         UNCHANGED <<userRuns, present>>
  PROVE  CallsInv(hl)' /\ OtherTypes'
<1>1. Checked.events = leftover /\ leftover \in Seq(Events) /\ OtherTypes
  BY OnlyLeftover DEF IInv, OtherTypes
<1>2. leftover' = leftover \o new /\ asked' = <<>> /\ leftover' \in Seq(Events)
  BY <1>1 DEF Leaves
<1>3. hl'.events = leftover' \o asked'
  BY <1>1, <1>2
<1> QED BY <1>1, <1>2, <1>3 DEF CallsInv, OtherTypes

-----------------------------------------------------------------------------
\* Steps.

LEMMA StartSteps ==
  ASSUME IInv, NEW new \in Lists,
         StartCounters(new) \/ StartCountersFails(new) \/ StartCountersRefused(new)
  PROVE  IInv'
<1> DEFINE s == Checked
           list == s.events \o new
<1>1. Inv(s) /\ OtherTypes /\ new \in Seq(Events)
  BY CheckedInv DEF IInv
<1>2. s \in Infos /\ s.events \in Seq(Events) /\ Len(s.events) <= NumCntrs
  BY <1>1 DEF Inv, TypeInv, Infos
<1>3. AllAccepted(s.events, new) => list \in Seq(Events) /\ Len(list) <= NumCntrs
  BY <1>1, <1>2, AppendedType
<1>4. Counts(s.events, TOT_CYC) => Counts(list, TOT_CYC)
  BY <1>1, <1>2, AppendedCounts
<1>5. CASE StartCounters(new)
  <2>1. /\ s.level = "none" /\ AllAccepted(s.events, new) /\ ~userRuns
        /\ hl' = [s EXCEPT !.events = list, !.runs = TRUE,
                           !.level = "counters", !.numEvts = Len(new)]
        /\ asked' = new /\ UNCHANGED <<userRuns, present, leftover>>
    BY <1>5 DEF StartCounters, CanStart
  <2>2. /\ hl' \in Infos /\ hl'.events = list /\ hl'.runs = TRUE
        /\ hl'.level = "counters" /\ hl'.numEvts = Len(new)
    <3>1. list \in Seq(Events) /\ Len(new) \in Nat
      BY <2>1, <1>1, <1>3
    <3>2. hl' \in Infos
      BY <2>1, <1>2, <3>1 DEF Infos
    <3>3. hl'.events = list /\ hl'.runs = TRUE
      BY <2>1, <1>2 DEF Infos
    <3>4. hl'.level = "counters" /\ hl'.numEvts = Len(new)
      BY <2>1, <1>2 DEF Infos
    <3> QED BY <3>2, <3>3, <3>4
  <2>3. list = leftover \o new
    BY <2>1, OnlyLeftover
  <2>4. TypeInv(hl)' /\ LevelInv(hl)'
    BY <2>1, <2>2, <1>3 DEF TypeInv, LevelInv
  <2>5. CallsInv(hl)' /\ TotalInv(hl)'
    BY <2>1, <2>2, <2>3 DEF CallsInv, TotalInv
  <2>6. OtherTypes' /\ hl' # NoInfo
    BY <2>1, <2>2, <1>1, NoInfoAssumption DEF OtherTypes
  <2> QED BY <2>4, <2>5, <2>6 DEF IInv, Inv
<1>6. CASE StartCountersFails(new)
  <2>1. /\ s.level = "none" /\ AllAccepted(s.events, new)
        /\ hl' = [s EXCEPT !.events = list]
        /\ Leaves(new) /\ UNCHANGED <<userRuns, present>>
    BY <1>6 DEF StartCountersFails
  <2>2. /\ hl' \in Infos /\ hl'.events = list /\ hl'.level = "none"
        /\ hl'.runs = s.runs /\ hl'.total = s.total
    BY <2>1, <1>2, <1>3 DEF Infos
  <2>3. TypeInv(hl)' /\ LevelInv(hl)'
    BY <2>1, <2>2, <1>1, <1>3 DEF Inv, TypeInv, LevelInv
  <2>4. CallsInv(hl)' /\ OtherTypes' /\ hl' # NoInfo
    BY <2>1, <2>2, <1>1, LeavesInv, NoInfoAssumption
  <2>5. TotalInv(hl)'
    BY <2>1, <2>2, <1>1, <1>4 DEF Inv, TotalInv
  <2> QED BY <2>3, <2>4, <2>5 DEF IInv, Inv
<1>7. CASE StartCountersRefused(new)
  <2>1. /\ s.level = "none" /\ hl' = Cleaned(s)
        /\ Nothing /\ UNCHANGED <<userRuns, present>>
    BY <1>7 DEF StartCountersRefused
  <2>2. ~s.runs
    BY <2>1, <1>1 DEF Inv, LevelInv
  <2>3. /\ hl' \in Infos /\ hl'.events = <<>> /\ hl'.level = "none"
        /\ hl'.total = 0 /\ ~hl'.runs
    BY <2>1, <2>2, <1>2, CleanedInv
  <2> QED BY <2>1, <2>3, <1>1, EmptiedInv DEF OtherTypes
<1> QED BY <1>5, <1>6, <1>7

LEMMA FirstRateSteps ==
  ASSUME IInv, NEW l \in Rates,
         FirstRate(l) \/ FirstRateFails(l) \/ FirstRateUnknown(l) \/ FirstRateRefused(l)
  PROVE  IInv' /\ (hl'.level = l => hl'.total = 0)
<1> DEFINE s == Checked
           new == RateEvents(l)
           list == s.events \o new
<1>1. Inv(s) /\ OtherTypes /\ new \in Seq(Events)
  BY CheckedInv, SecondCounts DEF IInv
<1>2. s \in Infos /\ s.events \in Seq(Events) /\ Len(s.events) <= NumCntrs
  BY <1>1 DEF Inv, TypeInv, Infos
<1>3. AllAccepted(s.events, new) => list \in Seq(Events) /\ Len(list) <= NumCntrs
  BY <1>1, <1>2, AppendedType
<1>4. Counts(list, TOT_CYC)
  BY <1>1, <1>2, AppendedCounts, SecondCounts
<1>5. s.level = "none" /\ AllAccepted(s.events, new) => s.total = 0
  BY <1>1, <1>2, SeriesRefused DEF Inv, TotalInv
<1>6. CASE FirstRate(l)
  <2>1. /\ s.level = "none" /\ AllAccepted(s.events, new) /\ ~userRuns
        /\ hl' = [s EXCEPT !.events = list, !.runs = TRUE, !.level = l]
        /\ asked' = new /\ UNCHANGED <<userRuns, present, leftover>>
    BY <1>6 DEF FirstRate, CanStart
  <2>2. /\ hl' \in Infos /\ hl'.events = list /\ hl'.runs = TRUE
        /\ hl'.level = l /\ hl'.total = s.total
    <3>1. list \in Seq(Events)
      BY <2>1, <1>3
    <3>2. hl' \in Infos
      BY <2>1, <1>2, <3>1 DEF Infos
    <3>3. hl'.events = list /\ hl'.runs = TRUE
      BY <2>1, <1>2 DEF Infos
    <3>4. hl'.level = l /\ hl'.total = s.total
      BY <2>1, <1>2 DEF Infos
    <3> QED BY <3>2, <3>3, <3>4
  <2>3. list = leftover \o new
    BY <2>1, OnlyLeftover
  <2>4. TypeInv(hl)' /\ LevelInv(hl)'
    BY <2>1, <2>2, <1>3 DEF TypeInv, LevelInv
  <2>5. CallsInv(hl)' /\ TotalInv(hl)'
    BY <2>1, <2>2, <2>3, <1>4 DEF CallsInv, TotalInv
  <2>6. OtherTypes' /\ hl' # NoInfo
    BY <2>1, <2>2, <1>1, NoInfoAssumption DEF OtherTypes
  <2> QED BY <2>1, <2>2, <2>4, <2>5, <2>6, <1>5 DEF IInv, Inv
<1>7. CASE FirstRateFails(l)
  <2>1. /\ s.level = "none" /\ AllAccepted(s.events, new)
        /\ hl' = [s EXCEPT !.events = list]
        /\ Leaves(new) /\ UNCHANGED <<userRuns, present>>
    BY <1>7 DEF FirstRateFails
  <2>2. /\ hl' \in Infos /\ hl'.events = list /\ hl'.level = "none"
        /\ hl'.runs = s.runs /\ hl'.total = s.total
    BY <2>1, <1>2, <1>3 DEF Infos
  <2>3. TypeInv(hl)' /\ LevelInv(hl)'
    BY <2>1, <2>2, <1>1, <1>3 DEF Inv, TypeInv, LevelInv
  <2>4. CallsInv(hl)' /\ OtherTypes' /\ hl' # NoInfo
    BY <2>1, <2>2, <1>1, LeavesInv, NoInfoAssumption
  <2>5. TotalInv(hl)'
    BY <2>2, <1>4 DEF TotalInv
  <2> QED BY <2>1, <2>2, <2>3, <2>4, <2>5, <1>5 DEF IInv, Inv
<1>9. CASE FirstRateUnknown(l)
  <2>1. /\ s.level = "none" /\ Accepts(s.events, EventOf[l])
        /\ hl' = [s EXCEPT !.events = Append(s.events, EventOf[l])]
        /\ Leaves(<<EventOf[l]>>) /\ UNCHANGED <<userRuns, present>>
    BY <1>9 DEF FirstRateUnknown
  <2>2. /\ EventOf[l] \in Events /\ <<EventOf[l]>> \in Seq(Events)
        /\ Append(s.events, EventOf[l]) = s.events \o <<EventOf[l]>>
        /\ Append(s.events, EventOf[l]) \in Seq(Events)
        /\ Len(Append(s.events, EventOf[l])) = Len(s.events) + 1
    BY <1>2
  <2>3. /\ hl' \in Infos /\ hl'.events = s.events \o <<EventOf[l]>> /\ hl'.level = "none"
        /\ hl'.runs = s.runs /\ hl'.total = s.total
    BY <2>1, <2>2, <1>2 DEF Infos
  <2>4. TypeInv(hl)' /\ LevelInv(hl)'
    BY <2>1, <2>2, <2>3, <1>1, <1>2 DEF Accepts, Inv, TypeInv, LevelInv
  <2>5. CallsInv(hl)' /\ OtherTypes' /\ hl' # NoInfo
    BY <2>1, <2>2, <2>3, LeavesInv, NoInfoAssumption
  <2>6. TotalInv(hl)'
    <3>1. s.total # 0 => Counts(s.events, TOT_CYC)
      BY <2>1, <1>1 DEF Inv, TotalInv
    <3>2. s.total # 0 => Counts(s.events \o <<EventOf[l]>>, TOT_CYC)
      BY <2>2, <1>2, <3>1, AppendedCounts
    <3> QED BY <2>3, <3>2, HighLevelAssumption DEF TotalInv
  <2> QED BY <2>3, <2>4, <2>5, <2>6, HighLevelAssumption DEF IInv, Inv
<1>8. CASE FirstRateRefused(l)
  <2>1. /\ s.level = "none" /\ hl' = Cleaned(s)
        /\ Nothing /\ UNCHANGED <<userRuns, present>>
    BY <1>8 DEF FirstRateRefused
  <2>2. ~s.runs
    BY <2>1, <1>1 DEF Inv, LevelInv
  <2>3. /\ hl' \in Infos /\ hl'.events = <<>> /\ hl'.level = "none"
        /\ hl'.total = 0 /\ ~hl'.runs
    BY <2>1, <2>2, <1>2, CleanedInv
  <2> QED BY <2>1, <2>3, <1>1, EmptiedInv DEF OtherTypes
<1> QED BY <1>6, <1>7, <1>8, <1>9

LEMMA NextRateSteps ==
  ASSUME IInv, NEW l \in Rates, NextRate(l) \/ NextRateFails(l)
  PROVE  IInv'
<1>1. /\ hl # NoInfo /\ hl.level = l /\ hl.runs
      /\ Inv(hl) /\ hl \in Infos /\ OtherTypes
  BY DEF NextRate, NextRateFails, IInv, Inv, TypeInv
<1>2. Added(hl.total) \in 0..MaxTotal
  BY <1>1 DEF Added, Infos
<1>3. CASE NextRate(l)
  <2>1. /\ hl' = [hl EXCEPT !.total = Added(hl.total)]
        /\ UNCHANGED <<userRuns, present, leftover, asked>>
    BY <1>3 DEF NextRate
  <2>2. /\ hl' \in Infos /\ hl'.events = hl.events /\ hl'.level = hl.level
        /\ hl'.runs = hl.runs /\ hl'.numEvts = hl.numEvts
    BY <2>1, <1>1, <1>2 DEF Infos
  <2>3. TypeInv(hl)' /\ LevelInv(hl)' /\ CallsInv(hl)' /\ TotalInv(hl)'
    BY <2>1, <2>2, <1>1 DEF Inv, TypeInv, LevelInv, CallsInv, TotalInv
  <2> QED BY <2>1, <2>2, <2>3, <1>1, NoInfoAssumption DEF IInv, Inv, OtherTypes
<1>4. CASE NextRateFails(l)
  <2>1. /\ hl' = [hl EXCEPT !.total = Added(hl.total), !.runs = FALSE,
                            !.level = "none"]
        /\ leftover' = leftover \o asked /\ asked' = <<>>
        /\ UNCHANGED <<userRuns, present>>
    BY <1>4 DEF NextRateFails, Leaves
  <2>2. /\ hl' \in Infos /\ hl'.events = hl.events /\ hl'.level = "none"
        /\ hl'.runs = FALSE
    BY <2>1, <1>1, <1>2 DEF Infos
  <2>3. TypeInv(hl)' /\ LevelInv(hl)' /\ TotalInv(hl)'
    BY <2>1, <2>2, <1>1 DEF Inv, TypeInv, LevelInv, TotalInv
  <2>4. OtherTypes' /\ leftover' \in Seq(Events)
    BY <2>1, <1>1 DEF OtherTypes
  <2>5. CallsInv(hl)'
    <3>1. hl'.events = leftover' /\ leftover' \o asked' = leftover'
      BY <2>1, <2>2, <2>4, <1>1 DEF Inv, CallsInv
    <3> QED BY <2>1, <2>2, <3>1 DEF CallsInv
  <2> QED BY <2>2, <2>3, <2>4, <2>5, NoInfoAssumption DEF IInv, Inv
<1> QED BY <1>3, <1>4

LEMMA OtherSteps ==
  ASSUME IInv,
         StopCounters \/ CheckState \/ Forget \/ UserStart \/ UserStop
           \/ UNCHANGED vars
  PROVE  IInv'
<1>1. CASE StopCounters
  <2>1. /\ hl # NoInfo /\ hl' = Cleaned([hl EXCEPT !.runs = FALSE])
        /\ Nothing /\ UNCHANGED <<userRuns, present>>
    BY <1>1 DEF StopCounters
  <2>2. hl \in Infos /\ OtherTypes
    BY <2>1 DEF IInv, Inv, TypeInv
  <2>3. [hl EXCEPT !.runs = FALSE] \in Infos /\ ~[hl EXCEPT !.runs = FALSE].runs
    BY <2>2 DEF Infos
  <2>4. /\ hl' \in Infos /\ hl'.events = <<>> /\ hl'.level = "none"
        /\ hl'.total = 0 /\ ~hl'.runs
    BY <2>1, <2>3, CleanedInv
  <2> QED BY <2>1, <2>2, <2>4, EmptiedInv DEF OtherTypes
<1>2. CASE CheckState
  <2>1. hl' = Checked /\ UNCHANGED <<userRuns, present, leftover, asked>>
    BY <1>2 DEF CheckState
  <2>2. Inv(Checked)
    BY CheckedInv
  <2>3. Inv(hl)' /\ hl' # NoInfo
    BY <2>1, <2>2, NoInfoAssumption DEF Inv, TypeInv, LevelInv, CallsInv, TotalInv
  <2> QED BY <2>1, <2>3 DEF IInv, OtherTypes
<1>3. CASE Forget
  <2>1. <<>> \in Seq(Events)
    OBVIOUS
  <2> QED BY <1>3, <2>1 DEF Forget, Nothing, IInv, OtherTypes
<1>4. CASE UserStart
  BY <1>4 DEF UserStart, IInv, OtherTypes, Inv, TypeInv, LevelInv, CallsInv, TotalInv, Checked
<1>5. CASE UserStop
  BY <1>5 DEF UserStop, IInv, OtherTypes, Inv, TypeInv, LevelInv, CallsInv, TotalInv
<1>6. CASE UNCHANGED vars
  BY <1>6 DEF vars, IInv, OtherTypes, Inv, TypeInv, LevelInv, CallsInv, TotalInv
<1> QED BY <1>1, <1>2, <1>3, <1>4, <1>5, <1>6

LEMMA StepIInv == IInv /\ [Next]_vars => IInv'
  BY StartSteps, FirstRateSteps, NextRateSteps, OtherSteps DEF Next

-----------------------------------------------------------------------------
\* Theorems.

LEMMA Invariance == Spec => []IInv
<1> QED BY InitIInv, StepIInv, PTL DEF Spec

\* The types, and no EventSet with more events than counters, whichever of the
\* calls failed.
THEOREM TypeCorrect == Spec => []TypeOK
<1>1. IInv => TypeOK
  BY DEF IInv, OtherTypes, TypeOK, Inv, TypeInv
<1> QED BY <1>1, Invariance, PTL

\* HighLevelInfo.running tells whether the EventSet runs.
THEOREM Levels == Spec => []LevelAgrees
<1>1. IInv => LevelAgrees
  BY DEF IInv, LevelAgrees, Inv, LevelInv
<1> QED BY <1>1, Invariance, PTL

\* The EventSet holds the events of the running call, in its order, behind those
\* that failed calls left.
THEOREM Calls == Spec => []EventsAreTheCalls
<1>1. IInv => EventsAreTheCalls
  BY DEF IInv, EventsAreTheCalls, Inv, CallsInv
<1> QED BY <1>1, Invariance, PTL

LEMMA SeriesStep ==
  ASSUME IInv, [Next]_vars, NEW l \in Rates,
         hl' # NoInfo, hl'.level = l, Checked.level # l
  PROVE  hl'.total = 0
<1>1. ASSUME NEW new \in Lists, StartCounters(new) PROVE hl'.level = "counters"
  <2>1. Checked \in Infos
    BY CheckedInv DEF Inv, TypeInv
  <2> QED BY <1>1, <2>1 DEF StartCounters, Infos
<1>2. ASSUME NEW new \in Lists, StartCountersFails(new) PROVE FALSE
  <2>1. Checked \in Infos /\ Checked.level = "none"
    BY <1>2, CheckedInv DEF Inv, TypeInv, StartCountersFails
  <2>2. hl'.level = "none"
    BY <1>2, <2>1 DEF StartCountersFails, Infos
  <2> QED BY <2>2
<1>3. ASSUME NEW new \in Lists, StartCountersRefused(new) PROVE FALSE
  <2>1. Checked \in Infos /\ ~Checked.runs
    BY <1>3, CheckedInv DEF Inv, TypeInv, LevelInv, StartCountersRefused
  <2>2. hl'.level = "none"
    BY <1>3, <2>1, CleanedInv DEF StartCountersRefused
  <2> QED BY <2>2
<1>4. ASSUME NEW m \in Rates, FirstRate(m) \/ FirstRateFails(m) \/ FirstRateUnknown(m)
               \/ FirstRateRefused(m)
      PROVE  hl'.total = 0
  <2>1. hl'.level = m => hl'.total = 0
    BY <1>4, FirstRateSteps
  <2>2. hl'.level \in {m, "none"}
    <3>1. Checked \in Infos /\ Checked.level = "none" /\ ~Checked.runs
      BY <1>4, CheckedInv
         DEF Inv, TypeInv, LevelInv, FirstRate, FirstRateFails, FirstRateUnknown,
             FirstRateRefused
    <3>2. FirstRate(m) => hl'.level = m
      BY <3>1 DEF FirstRate, Infos
    <3>3. FirstRateFails(m) => hl'.level = "none"
      BY <3>1 DEF FirstRateFails, Infos
    <3>4. FirstRateRefused(m) => hl'.level = "none"
      BY <3>1, CleanedInv DEF FirstRateRefused
    <3>5. FirstRateUnknown(m) => hl'.level = "none"
      BY <3>1 DEF FirstRateUnknown, Infos
    <3> QED BY <1>4, <3>2, <3>3, <3>4, <3>5
  <2> QED BY <2>1, <2>2
<1>5. ASSUME NEW m \in Rates, NextRate(m) \/ NextRateFails(m) PROVE FALSE
  <2>1. hl # NoInfo /\ hl \in Infos /\ hl.level = m
    BY <1>5 DEF NextRate, NextRateFails, IInv, Inv, TypeInv
  <2>2. hl'.level \in {m, "none"}
    BY <1>5, <2>1 DEF NextRate, NextRateFails, Infos
  <2> QED BY <2>1, <2>2 DEF Checked
<1>6. CASE StopCounters
  <2>1. hl # NoInfo /\ hl \in Infos
    BY <1>6 DEF StopCounters, IInv, Inv, TypeInv
  <2>2. [hl EXCEPT !.runs = FALSE] \in Infos /\ ~[hl EXCEPT !.runs = FALSE].runs
    BY <2>1 DEF Infos
  <2> QED BY <1>6, <2>2, CleanedInv DEF StopCounters
<1>7. CASE CheckState
  BY <1>7 DEF CheckState
<1>8. CASE Forget
  BY <1>8 DEF Forget
<1>9. CASE UserStart \/ UserStop \/ UNCHANGED vars
  <2>1. hl' = hl
    BY <1>9 DEF UserStart, UserStop, vars
  <2> QED BY <2>1 DEF Checked
<1> QED BY <1>1, <1>2, <1>3, <1>4, <1>5, <1>6, <1>7, <1>8, <1>9 DEF Next

\* A series of rate calls starts from zero.
THEOREM FromZero == Spec => SeriesStartsAtZero
<1>1. IInv /\ [Next]_vars =>
        [\A l \in Rates :
           hl' # NoInfo /\ hl'.level = l /\ Checked.level # l => hl'.total = 0]_vars
  BY SeriesStep
<1> QED BY <1>1, Invariance, PTL DEF Spec, SeriesStartsAtZero
=============================================================================
