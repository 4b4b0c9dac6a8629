--------------------------- MODULE FxResolveProofs ---------------------------
(***************************************************************************)
(* What resolveFx promises of the rates it gives, for any number of        *)
(* overlapping requests, any list of providers and any age limit, however  *)
(* the cache expires and however often it is spoiled.                      *)
(*                                                                         *)
(* The argument follows one table from a provider to the cache: what a     *)
(* request holds is of the day it was asked for (Holding), it asked no     *)
(* earlier than it began (Begun), and so a table kept for a month because  *)
(* the day was over when the request began was fetched after that day.     *)
(* Expiry only removes entries and spoiling only moves them or drops a     *)
(* currency, neither of which touches lifetime and finality.               *)
(***************************************************************************)
EXTENDS FxResolve, TLAPS

(* A table under way is of the day asked for, and final if that day was    *)
(* over when the request began.                                            *)
Holding ==
    \A r \in Requests : at[r] \in {"store", "compare", "replace"} =>
        /\ holds[r] \in Tables /\ holds[r].date = Date(r)
        /\ Date(r) < began[r] => holds[r].final

(* Nobody began after today. *)
Begun == \A r \in Requests : at[r] # "idle" => began[r] <= today

(* Whoever is about to replace last_known has seen no later table there. *)
Compared ==
    \A r \in Requests : at[r] = "replace" /\ existing[r] # None =>
        existing[r].date <= Date(r)

(* The inductive invariant. *)
FxInv ==
    /\ TypeOK /\ Holding /\ Begun /\ Compared
    /\ MonthlyTablesAreFinal /\ RateIsOfItsDay

-----------------------------------------------------------------------------
LEMMA InitTypeOK == Init => TypeOK
  BY BoundsAssumption DEF Init, TypeOK, Days, Points

(* What AskProvider makes is a table. *)
LEMMA FetchedIsTable ==
    ASSUME TypeOK, NEW r \in Requests, turn[r] <= Len(Providers)
    PROVE  [date |-> Date(r), by |-> Providers[turn[r]],
            final |-> Date(r) < today, sound |-> TRUE] \in Tables
<1>1. Date(r) \in Dates
  BY DEF TypeOK, Date
<1>2. turn[r] \in DOMAIN Providers
  BY ProvidersAssumption DEF TypeOK
<1>3. Providers[turn[r]] \in Range(Providers)
  BY <1>2 DEF Range
<1> QED
  BY <1>1, <1>3 DEF Tables

(* Requests move between points, and answers are results. *)
LEMMA GoToTypeOK ==
    ASSUME TypeOK, NEW r \in Requests, NEW point \in Points, GoTo(r, point)
    PROVE  /\ at' \in [Requests -> Points]
           /\ result' \in [Requests -> Results \cup {None}]
  BY DEF TypeOK, GoTo

LEMMA AnswerTypeOK ==
    ASSUME TypeOK, NEW r \in Requests, NEW source \in Sources,
           NEW table \in Tables \cup {None}, Answer(r, source, table)
    PROVE  /\ at' \in [Requests -> Points]
           /\ result' \in [Requests -> Results \cup {None}]
<1>1. [source |-> source, table |-> table] \in Results
  BY DEF Results
<1>2. "ended" \in Points
  BY DEF Points
<1> QED
  BY <1>1, <1>2 DEF TypeOK, Answer

(* The actions of one request keep the types. *)
LEMMA RequestTypeOK ==
    ASSUME TypeOK, Holding, NEW r \in Requests, Start(r) \/ Step(r)
    PROVE  TypeOK'
<1> DEFINE Moved == /\ at' \in [Requests -> Points]
                    /\ result' \in [Requests -> Results \cup {None}]
<1>p. /\ "cache" \in Points /\ "provider" \in Points /\ "store" \in Points
      /\ "compare" \in Points /\ "replace" \in Points /\ "lastKnown" \in Points
      /\ "default" \in Points
  BY DEF Points
<1>s. /\ "identity" \in Sources /\ "manual" \in Sources /\ "auto" \in Sources
      /\ "last_known" \in Sources /\ "trip_default" \in Sources
      /\ "needs_manual" \in Sources
  BY DEF Sources
<1>g. ASSUME NEW point \in Points, GoTo(r, point) PROVE Moved
  BY <1>g, GoToTypeOK
<1>a. ASSUME NEW source \in Sources, NEW table \in Tables \cup {None},
             Answer(r, source, table)
      PROVE  Moved
  BY <1>a, AnswerTypeOK
<1> HIDE DEF Moved
<1>1. CASE Start(r)
  <2>1. ask[r].mode \in {"identity", "manual", "foreign"}
    BY DEF TypeOK, Modes
  <2>2. Moved
    BY <1>1, <2>1, <1>p, <1>s, <1>g, <1>a DEF Start
  <2> QED
    BY <1>1, <2>2 DEF Moved, Start, TypeOK, store, world
<1>2. CASE ReadCache(r)
  <2>1. Date(r) \in Dates
    BY DEF Date, TypeOK
  <2>2. cache[Date(r)] # None => cache[Date(r)].table \in Tables
    BY <2>1 DEF Entries, TypeOK
  <2>3. Moved
    BY <1>2, <2>2, <1>p, <1>s, <1>g, <1>a DEF ReadCache, Usable
  <2> QED
    BY <1>2, <2>3 DEF Moved, ReadCache, TypeOK, store, world
<1>3. CASE AskProvider(r)
  <2>1. Moved
    BY <1>3, <1>p, <1>g DEF AskProvider
  <2>2. turn' \in [Requests -> 1 .. Len(Providers) + 1]
    <3>1. turn \in [Requests -> 1 .. Len(Providers) + 1]
      BY DEF TypeOK
    <3>2. turn[r] + 1 \in 1 .. Len(Providers) + 1
      BY <1>3, <3>1, ProvidersAssumption DEF AskProvider
    <3>3. turn' = turn \/ turn' = [turn EXCEPT ![r] = turn[r] + 1]
      BY <1>3 DEF AskProvider
    <3> QED
      BY <3>1, <3>2, <3>3
  <2>3. holds' \in [Requests -> Tables \cup {None}]
    BY <1>3, FetchedIsTable DEF AskProvider, TypeOK
  <2> QED
    BY <1>3, <2>1, <2>2, <2>3 DEF Moved, AskProvider, TypeOK, store, world
<1>4. CASE NoProviderLeft(r)
  <2>1. Moved
    BY <1>4, <1>p, <1>g DEF NoProviderLeft
  <2> QED
    BY <1>4, <2>1 DEF Moved, NoProviderLeft, TypeOK, store, world
<1>5. CASE StoreTable(r)
  <2>1. holds[r] \in Tables
    BY <1>5 DEF StoreTable, Holding
  <2>2. [table |-> holds[r], long |-> Long(r)] \in Entries
    BY <2>1 DEF Entries, Long
  <2>3. cache' \in [Dates -> Entries \cup {None}]
    BY <1>5, <2>2 DEF StoreTable, TypeOK
  <2>4. Moved
    BY <1>5, <1>p, <1>g DEF StoreTable
  <2> QED
    BY <1>5, <2>3, <2>4 DEF Moved, StoreTable, TypeOK, world
<1>6. CASE CompareLastKnown(r)
  <2>1. Moved
    BY <1>6, <1>p, <1>s, <1>g, <1>a DEF CompareLastKnown, TypeOK
  <2>2. existing' \in [Requests -> Tables \cup {None}]
    BY <1>6 DEF CompareLastKnown, TypeOK
  <2> QED
    BY <1>6, <2>1, <2>2 DEF Moved, CompareLastKnown, TypeOK, store, world
<1>7. CASE ReplaceLastKnown(r)
  <2>1. Moved
    BY <1>7, <1>s, <1>a DEF ReplaceLastKnown, TypeOK
  <2>2. lastKnown' \in Tables \cup {None}
    BY <1>7 DEF ReplaceLastKnown, TypeOK
  <2> QED
    BY <1>7, <2>1, <2>2 DEF Moved, ReplaceLastKnown, TypeOK, world
<1>8. CASE ReadLastKnown(r)
  <2>1. Moved
    BY <1>8, <1>p, <1>s, <1>g, <1>a DEF ReadLastKnown, TypeOK
  <2> QED
    BY <1>8, <2>1 DEF Moved, ReadLastKnown, TypeOK, store, world
<1>9. CASE ReadTripDefault(r)
  <2>1. Moved
    BY <1>9, <1>s, <1>a DEF ReadTripDefault
  <2> QED
    BY <1>9, <2>1 DEF Moved, ReadTripDefault, TypeOK, store, world
<1> QED
  BY <1>1, <1>2, <1>3, <1>4, <1>5, <1>6, <1>7, <1>8, <1>9 DEF Step

(* What happens around the requests keeps them too. *)
LEMMA SurroundingsTypeOK ==
    ASSUME TypeOK,
           DayPasses \/ UpsertRate \/ (\E d \in Dates : Expire(d) \/ Spoil(d))
    PROVE  TypeOK'
<1>1. CASE DayPasses
  BY <1>1, BoundsAssumption DEF DayPasses, TypeOK, store, Days
<1>2. CASE UpsertRate
  BY <1>2 DEF UpsertRate, TypeOK, world
<1>3. ASSUME NEW d \in Dates, Expire(d) PROVE TypeOK'
  BY <1>3 DEF Expire, TypeOK, world
<1>4. ASSUME NEW d \in Dates, Spoil(d) PROVE TypeOK'
  <2>1. spoils' \in 0 .. MaxSpoils
    BY <1>4, BoundsAssumption DEF Spoil, TypeOK
  <2>2. lastKnown' \in Tables \cup {None}
    BY <1>4 DEF Spoil, TypeOK, Tables
  <2>3. ASSUME cache[d] # None
        PROVE  [cache[d] EXCEPT !.table.sound = FALSE] \in Entries
    <3>1. cache[d] \in Entries
      BY <2>3 DEF TypeOK
    <3>2. [cache[d].table EXCEPT !.sound = FALSE] \in Tables
      BY <3>1 DEF Entries, Tables
    <3> QED
      BY <3>1, <3>2 DEF Entries
  <2>4. cache' \in [Dates -> Entries \cup {None}]
    <3>1. CASE cache' = [cache EXCEPT ![d].table.sound = FALSE] /\ cache[d] # None
      BY <2>3, <3>1 DEF TypeOK
    <3>2. CASE \E e \in Dates : cache' = [cache EXCEPT ![e] = cache[d]]
      BY <3>2 DEF TypeOK
    <3>3. CASE UNCHANGED cache
      BY <3>3 DEF TypeOK
    <3> QED
      BY <1>4, <3>1, <3>2, <3>3 DEF Spoil
  <2> QED
    BY <1>4, <2>1, <2>2, <2>4 DEF Spoil, TypeOK
<1> QED
  BY <1>1, <1>2, <1>3, <1>4

-----------------------------------------------------------------------------
(* Every step of a request keeps the rest of the invariant. *)
LEMMA RequestFxInv ==
    ASSUME FxInv, NEW r \in Requests, Start(r) \/ Step(r)
    PROVE  FxInv'
<1> USE DEF FxInv
<1>t. TypeOK'
  BY RequestTypeOK
<1>d. /\ \A q \in Requests : Date(q)' = Date(q) /\ Date(q) \in Dates
      /\ UNCHANGED today
      /\ \A q \in Requests \ {r} :
            /\ at'[q] = at[q] /\ began'[q] = began[q] /\ holds'[q] = holds[q]
            /\ existing'[q] = existing[q] /\ result'[q] = result[q]
  BY DEF Start, Step, ReadCache, AskProvider, NoProviderLeft, StoreTable, CompareLastKnown,
         ReplaceLastKnown, ReadLastKnown, ReadTripDefault, GoTo, Answer, store, world,
         TypeOK, Date
<1>1. Holding'
  <2>1. CASE Start(r)
    BY <2>1, <1>d DEF Start, GoTo, Answer, Holding, TypeOK
  <2>2. CASE AskProvider(r)
    <3>1. /\ at'[r] = "store" => /\ Date(r) <= today /\ holds'[r].date = Date(r)
                                 /\ holds'[r].final = (Date(r) < today)
          /\ at'[r] \in {"store", "provider"} /\ UNCHANGED began
      BY <2>2 DEF AskProvider, GoTo, TypeOK
    <3>2. at'[r] = "store" => holds'[r] \in Tables
      BY <2>2, FetchedIsTable DEF AskProvider, GoTo, TypeOK
    <3>3. began[r] <= today /\ began[r] \in Int /\ today \in Int /\ Date(r) \in Int
      BY <2>2, <1>d DEF AskProvider, Begun, TypeOK, Days, Dates
    <3>4. at'[r] = "store" /\ Date(r) < began'[r] => holds'[r].final
      <4> SUFFICES ASSUME at'[r] = "store", Date(r) < began'[r] PROVE holds'[r].final
        OBVIOUS
      <4>1. Date(r) < today
        BY <3>1, <3>3
      <4> QED
        BY <3>1, <4>1
    <3>5. ASSUME NEW q \in Requests, q # r, at'[q] \in {"store", "compare", "replace"}
          PROVE  /\ holds'[q] \in Tables /\ holds'[q].date = Date(q)'
                 /\ Date(q)' < began'[q] => holds'[q].final
      BY <3>5, <1>d DEF Holding
    <3> QED
      BY <3>1, <3>2, <3>4, <3>5, <1>d DEF Holding
  <2>3. CASE StoreTable(r) \/ CompareLastKnown(r) \/ ReplaceLastKnown(r)
    BY <2>3, <1>d
       DEF StoreTable, CompareLastKnown, ReplaceLastKnown, GoTo, Answer, Holding, TypeOK
  <2>4. CASE ReadCache(r) \/ NoProviderLeft(r) \/ ReadLastKnown(r) \/ ReadTripDefault(r)
    BY <2>4, <1>d
       DEF ReadCache, NoProviderLeft, ReadLastKnown, ReadTripDefault, GoTo, Answer, Holding,
           TypeOK
  <2> QED
    BY <2>1, <2>2, <2>3, <2>4 DEF Step
<1>2. Begun'
  <2>1. CASE Start(r)
    BY <2>1, <1>d DEF Start, Begun, TypeOK, Days
  <2>2. CASE Step(r)
    <3>1. at[r] # "idle" /\ UNCHANGED began
      BY <2>2 DEF Step, ReadCache, AskProvider, NoProviderLeft, StoreTable,
             CompareLastKnown, ReplaceLastKnown, ReadLastKnown, ReadTripDefault
    <3> QED
      BY <3>1, <1>d DEF Begun
  <2> QED
    BY <2>1, <2>2
<1>3. Compared'
  <2>1. CASE CompareLastKnown(r)
    BY <2>1, <1>d DEF CompareLastKnown, Replaceable, GoTo, Answer, Compared, TypeOK
  <2>2. CASE ~CompareLastKnown(r)
    <3>1. at'[r] # "replace"
      BY <2>2 DEF Start, Step, ReadCache, AskProvider, NoProviderLeft, StoreTable,
             ReplaceLastKnown, ReadLastKnown, ReadTripDefault, GoTo, Answer, TypeOK
    <3> QED
      BY <3>1, <1>d DEF Compared
  <2> QED
    BY <2>1, <2>2
<1>4. MonthlyTablesAreFinal'
  <2>1. CASE StoreTable(r)
    <3>1. CASE UNCHANGED cache
      BY <3>1 DEF MonthlyTablesAreFinal
    <3>2. CASE cache' = [cache EXCEPT ![Date(r)] = [table |-> holds[r], long |-> Long(r)]]
      <4>1. Long(r) => holds[r].final
        BY <2>1 DEF StoreTable, Long, Holding
      <4>2. /\ cache'[Date(r)].long = Long(r) /\ cache'[Date(r)].table = holds[r]
            /\ \A d \in Dates \ {Date(r)} : cache'[d] = cache[d]
        BY <3>2, <1>d DEF TypeOK
      <4> QED
        BY <4>1, <4>2 DEF MonthlyTablesAreFinal
    <3> QED
      BY <2>1, <3>1, <3>2 DEF StoreTable
  <2>2. CASE ~StoreTable(r)
    <3>1. UNCHANGED cache
      BY <2>2 DEF Start, Step, ReadCache, AskProvider, NoProviderLeft, CompareLastKnown,
             ReplaceLastKnown, ReadLastKnown, ReadTripDefault, store
    <3> QED
      BY <3>1 DEF MonthlyTablesAreFinal
  <2> QED
    BY <2>1, <2>2
<1>5. RateIsOfItsDay'
  <2>1. CASE ReadCache(r)
    BY <2>1, <1>d DEF ReadCache, Usable, GoTo, Answer, RateIsOfItsDay, TypeOK
  <2>2. CASE CompareLastKnown(r) \/ ReplaceLastKnown(r)
    BY <2>2, <1>d
       DEF CompareLastKnown, ReplaceLastKnown, GoTo, Answer, Holding, RateIsOfItsDay, TypeOK
  <2>3. CASE ReadLastKnown(r)
    <3>1. lastKnown # None => lastKnown.date \in Int
      BY DEF TypeOK, Tables, Dates
    <3>2. Date(r) \in Int
      BY <1>d DEF Dates
    <3> QED
      BY <2>3, <3>1, <3>2, <1>d, BoundsAssumption
         DEF ReadLastKnown, Recent, GoTo, Answer, RateIsOfItsDay, TypeOK
  <2>4. CASE Start(r)
    BY <2>4, <1>d DEF Start, GoTo, Answer, RateIsOfItsDay, TypeOK, Modes
  <2>5. CASE AskProvider(r) \/ NoProviderLeft(r) \/ StoreTable(r) \/ ReadTripDefault(r)
    BY <2>5, <1>d
       DEF AskProvider, NoProviderLeft, StoreTable, ReadTripDefault, GoTo, Answer,
           RateIsOfItsDay, TypeOK
  <2> QED
    BY <2>1, <2>2, <2>3, <2>4, <2>5 DEF Step
<1> QED
  BY <1>t, <1>1, <1>2, <1>3, <1>4, <1>5

(* So does what happens around them: nobody's table or answer moves, and   *)
(* an entry keeps its lifetime and its finality wherever it is moved.      *)
LEMMA SurroundingsFxInv ==
    ASSUME FxInv,
           DayPasses \/ UpsertRate \/ (\E d \in Dates : Expire(d) \/ Spoil(d))
    PROVE  FxInv'
<1> USE DEF FxInv
<1>t. TypeOK'
  BY SurroundingsTypeOK
<1>d. /\ UNCHANGED <<ask, at, began, holds, existing, result>>
      /\ today <= today'
  BY DEF DayPasses, UpsertRate, Expire, Spoil, store, world, TypeOK, Days
<1>1. Holding' /\ Compared' /\ RateIsOfItsDay'
  BY <1>d DEF Holding, Compared, RateIsOfItsDay, Date
<1>2. Begun'
  BY <1>d, <1>t DEF Begun, TypeOK, Days
<1>3. MonthlyTablesAreFinal'
  <2>1. CASE DayPasses \/ UpsertRate
    BY <2>1 DEF DayPasses, UpsertRate, store, MonthlyTablesAreFinal
  <2>2. ASSUME NEW d \in Dates, Expire(d) PROVE MonthlyTablesAreFinal'
    BY <2>2 DEF Expire, TypeOK, MonthlyTablesAreFinal
  <2>3. ASSUME NEW d \in Dates, Spoil(d) PROVE MonthlyTablesAreFinal'
    <3>1. CASE UNCHANGED cache
      BY <3>1 DEF MonthlyTablesAreFinal
    <3>2. CASE cache[d] # None /\ \E e \in Dates : cache' = [cache EXCEPT ![e] = cache[d]]
      BY <3>2 DEF TypeOK, MonthlyTablesAreFinal
    <3>3. CASE cache[d] # None /\ cache' = [cache EXCEPT ![d].table.sound = FALSE]
      <4>1. cache[d] \in Entries
        BY <3>3 DEF TypeOK
      <4>2. /\ cache'[d].long = cache[d].long
            /\ cache'[d].table.final = cache[d].table.final
        BY <3>3, <4>1 DEF TypeOK, Entries, Tables
      <4>3. \A e \in Dates \ {d} : cache'[e] = cache[e]
        BY <3>3 DEF TypeOK
      <4> QED
        BY <3>3, <4>2, <4>3 DEF MonthlyTablesAreFinal
    <3> QED
      BY <2>3, <3>1, <3>2, <3>3 DEF Spoil
  <2> QED
    BY <2>1, <2>2, <2>3
<1> QED
  BY <1>t, <1>1, <1>2, <1>3

(* The three facts of the induction. *)
LEMMA InitFxInv == Init => FxInv
<1> SUFFICES ASSUME Init PROVE FxInv
  OBVIOUS
<1>1. TypeOK
  BY InitTypeOK
<1>2. Holding /\ Begun /\ Compared /\ RateIsOfItsDay
  BY DEF Init, Holding, Begun, Compared, RateIsOfItsDay
<1>3. MonthlyTablesAreFinal
  BY DEF Init, MonthlyTablesAreFinal
<1> QED
  BY <1>1, <1>2, <1>3 DEF FxInv

LEMMA NextFxInv == FxInv /\ [Next]_vars => FxInv'
<1> SUFFICES ASSUME FxInv, [Next]_vars PROVE FxInv'
  OBVIOUS
<1>1. CASE UNCHANGED vars
  BY <1>1 DEF FxInv, TypeOK, Holding, Begun, Compared, MonthlyTablesAreFinal,
         RateIsOfItsDay, Date, vars, store, world
<1> QED
  BY <1>1, RequestFxInv, SurroundingsFxInv DEF Next

(* Resolutions hold no other values than the store and the points of       *)
(* resolveFx allow, and the invariant holds throughout.                    *)
THEOREM FxInvariant == Spec => []FxInv
  BY InitFxInv, NextFxInv, PTL DEF Spec

-----------------------------------------------------------------------------
(* resolveFx never records as "auto" a rate of another day, nor as         *)
(* "last_known" one further off than the age limit.                        *)
THEOREM RatesKeepTheirDay == Spec => []RateIsOfItsDay
<1>1. FxInv => RateIsOfItsDay
  BY DEF FxInv
<1> QED
  BY <1>1, FxInvariant, PTL

(* The thirty-day lifetime is given to tables of days that were over only, *)
(* however a request straddles midnight.                                   *)
THEOREM MonthlyIsFinal == Spec => []MonthlyTablesAreFinal
<1>1. FxInv => MonthlyTablesAreFinal
  BY DEF FxInv
<1> QED
  BY <1>1, FxInvariant, PTL

(* Without an overlapping fetch, setLastKnown never steps back: who        *)
(* overwrites a later table did not see it.                                *)
THEOREM OnlyARaceStepsBack == Spec => LastKnownStepsBackOnlyInARace
<1> DEFINE Step1 ==
      \A r \in Requests :
          /\ at[r] = "replace" /\ at'[r] = "ended" /\ lastKnown' # lastKnown
          /\ lastKnown # None /\ lastKnown.date > Date(r)
          => existing[r] # lastKnown
<1>1. FxInv => Step1
  <2> SUFFICES ASSUME FxInv, NEW r \in Requests, at[r] = "replace", lastKnown # None,
                      lastKnown.date > Date(r)
               PROVE  existing[r] # lastKnown
    OBVIOUS
  <2>1. existing[r] # None => existing[r].date <= Date(r)
    BY DEF FxInv, Compared
  <2>2. lastKnown.date \in Int /\ Date(r) \in Int
    BY DEF FxInv, TypeOK, Tables, Dates, Date
  <2> QED
    BY <2>1, <2>2
<1>2. FxInv => [Step1]_vars
  BY <1>1
<1> HIDE DEF Step1
<1>3. Spec => [][Step1]_vars
  BY <1>2, FxInvariant, PTL DEF Spec
<1> QED
  BY <1>3 DEF Step1, LastKnownStepsBackOnlyInARace

=============================================================================
