------------------------------ MODULE FxResolve ------------------------------
(***************************************************************************)
(* Where an expense's exchange rate comes from: fx.service resolveFx, run  *)
(* by overlapping requests over one Redis cache (RedisCache) and a list of *)
(* providers.  A rate is taken from the cached table of the day, a         *)
(* provider, the last table anybody fetched, the trip's default, or the    *)
(* user is asked for one.                                                  *)
(*                                                                         *)
(* A table is what the properties tell apart: its day, who published it,   *)
(* and whether the day was over when it was published.  Tables of a        *)
(* running day still change; days are UTC days, as in the code.            *)
(***************************************************************************)
EXTENDS Integers, Sequences, Functions

CONSTANTS
    Requests,
    Providers,   \* the configured providers, in the order they are asked
    None,        \* no entry; no result
    MaxAge,      \* days last_known may be off
    MaxDay,      \* bound: days that pass
    MaxSpoils    \* bound: entries spoiled

ASSUME BoundsAssumption == MaxAge \in Nat /\ MaxDay \in Nat /\ MaxSpoils \in Nat
ASSUME ProvidersAssumption ==
    Len(Providers) \in Nat /\ DOMAIN Providers = 1 .. Len(Providers)

Days  == 0 .. MaxDay
Dates == 0 .. MaxDay + 1   \* east of UTC, today may be UTC's tomorrow

VARIABLES
    today,
    cache,        \* fx:usdtable:<date>
    lastKnown,    \* fx:lastknown:usdtable
    tripDefault,  \* the trip has a default rate for the pair
    ask,          \* what each request asks
    at,           \* where it is
    began,        \* its nowIso
    turn,         \* the provider it asks next
    holds,        \* the table a provider gave it
    existing,     \* the last_known it compared that table with
    result,
    spoils

store == <<cache, lastKnown, tripDefault>>
world == <<today, spoils>>
vars == <<world, store, ask, at, began, turn, holds, existing, result>>

Tables  == [date : Dates, by : Range(Providers), final : BOOLEAN, sound : BOOLEAN]
Entries == [table : Tables, long : BOOLEAN]   \* kept 30 days, or an hour
Modes   == {"identity", "manual", "foreign"}
Sources == {"identity", "manual", "auto", "last_known", "trip_default", "needs_manual"}
Results == [source : Sources, table : Tables \cup {None}]

(* What is missing is no table and no entry. *)
ASSUME NoneAssumption == None \notin Tables /\ None \notin Entries

Points  == {"idle", "cache", "provider", "store", "compare", "replace",
            "lastKnown", "default", "ended"}

(* What the variables range over. *)
TypeOK ==
    /\ today \in Days /\ tripDefault \in BOOLEAN /\ spoils \in 0 .. MaxSpoils
    /\ cache \in [Dates -> Entries \cup {None}]
    /\ lastKnown \in Tables \cup {None}
    /\ ask \in [Requests -> [date : Dates, mode : Modes]]
    /\ at \in [Requests -> Points]
    /\ began \in [Requests -> Days]
    /\ turn \in [Requests -> 1 .. Len(Providers) + 1]
    /\ holds \in [Requests -> Tables \cup {None}]
    /\ existing \in [Requests -> Tables \cup {None}]
    /\ result \in [Requests -> Results \cup {None}]

Init ==
    /\ today = 0 /\ spoils = 0 /\ lastKnown = None /\ tripDefault \in BOOLEAN
    /\ cache = [d \in Dates |-> None]
    /\ ask \in [Requests -> [date : Dates, mode : Modes]]
    /\ at = [r \in Requests |-> "idle"]
    /\ began = [r \in Requests |-> 0]
    /\ turn = [r \in Requests |-> 1]
    /\ holds = [r \in Requests |-> None]
    /\ existing = [r \in Requests |-> None]
    /\ result = [r \in Requests |-> None]

GoTo(r, point) == at' = [at EXCEPT ![r] = point] /\ UNCHANGED result
Answer(r, source, table) ==
    /\ at' = [at EXCEPT ![r] = "ended"]
    /\ result' = [result EXCEPT ![r] = [source |-> source, table |-> table]]

Date(r) == ask[r].date

-----------------------------------------------------------------------------
(* One currency, or a rate the user typed: no table is looked at. *)
Start(r) ==
    /\ at[r] = "idle" /\ began' = [began EXCEPT ![r] = today]
    /\ IF ask[r].mode = "foreign" THEN GoTo(r, "cache") ELSE Answer(r, ask[r].mode, None)
    /\ UNCHANGED <<world, store, ask, turn, holds, existing>>

(* Mutant: a cached table is used whatever its own date. *)
UsableUnchecked(r) == cache[Date(r)] # None /\ cache[Date(r)].table.sound

(* A cached table is used if it is the day's own and yields a rate. *)
Usable(r) ==
    /\ cache[Date(r)] # None
    /\ cache[Date(r)].table.date = Date(r) /\ cache[Date(r)].table.sound

(* A cache that cannot be read is a miss. *)
ReadCache(r) ==
    /\ at[r] = "cache"
    /\ \/ Usable(r) /\ Answer(r, "auto", cache[Date(r)].table)
       \/ GoTo(r, "provider")
    /\ UNCHANGED <<world, store, ask, began, turn, holds, existing>>

(* getUsdTable of the next provider: a complete table, or nothing.  There  *)
(* is none for a day that has not begun.                                   *)
AskProvider(r) ==
    /\ at[r] = "provider" /\ turn[r] <= Len(Providers)
    /\ \/ /\ Date(r) <= today /\ GoTo(r, "store") /\ UNCHANGED turn
          /\ holds' = [holds EXCEPT ![r] =
                 [date |-> Date(r), by |-> Providers[turn[r]],
                  final |-> Date(r) < today, sound |-> TRUE]]
       \/ /\ turn' = [turn EXCEPT ![r] = turn[r] + 1]
          /\ GoTo(r, "provider") /\ UNCHANGED holds
    /\ UNCHANGED <<world, store, ask, began, existing>>

NoProviderLeft(r) ==
    /\ at[r] = "provider" /\ turn[r] > Len(Providers) /\ GoTo(r, "lastKnown")
    /\ UNCHANGED <<world, store, ask, began, turn, holds, existing>>

(* Mutant: whether the day is past is looked up when the table is stored. *)
LongIfPastNow(r) == Date(r) < today

(* setUsdTable: 30 days if the day was over when the request began. *)
Long(r) == Date(r) < began[r]

StoreTable(r) ==
    /\ at[r] = "store" /\ GoTo(r, "compare")
    /\ \/ cache' = [cache EXCEPT ![Date(r)] = [table |-> holds[r], long |-> Long(r)]]
       \/ UNCHANGED cache   \* the write fails and is ignored
    /\ UNCHANGED <<world, lastKnown, tripDefault, ask, began, turn, holds, existing>>

(* Mutant: setLastKnown does not compare the dates. *)
ReplaceableAlways(r) == TRUE

(* setLastKnown leaves a table of a later day alone... *)
Replaceable(r) == lastKnown # None => lastKnown.date <= Date(r)

CompareLastKnown(r) ==
    /\ at[r] = "compare"
    /\ \/ /\ Replaceable(r) /\ GoTo(r, "replace")
          /\ existing' = [existing EXCEPT ![r] = lastKnown]
       \/ Answer(r, "auto", holds[r]) /\ UNCHANGED existing   \* a later table, or Redis fails
    /\ UNCHANGED <<world, store, ask, began, turn, holds>>

(* ...but writes after an await. *)
ReplaceLastKnown(r) ==
    /\ at[r] = "replace" /\ Answer(r, "auto", holds[r])
    /\ \/ lastKnown' = holds[r]
       \/ UNCHANGED lastKnown
    /\ UNCHANGED <<world, cache, tripDefault, ask, began, turn, holds, existing>>

(* getLastKnown in resolveFx, with its age limit in both directions. *)
Recent(r) ==
    /\ lastKnown # None
    /\ lastKnown.date - Date(r) <= MaxAge /\ Date(r) - lastKnown.date <= MaxAge

ReadLastKnown(r) ==
    /\ at[r] = "lastKnown"
    /\ \/ Recent(r) /\ lastKnown.sound /\ Answer(r, "last_known", lastKnown)
       \/ GoTo(r, "default")
    /\ UNCHANGED <<world, store, ask, began, turn, holds, existing>>

(* A stored default that does not parse counts as none. *)
ReadTripDefault(r) ==
    /\ at[r] = "default"
    /\ Answer(r, IF tripDefault THEN "trip_default" ELSE "needs_manual", None)
    /\ UNCHANGED <<world, store, ask, began, turn, holds, existing>>

-----------------------------------------------------------------------------
DayPasses ==
    /\ today < MaxDay /\ today' = today + 1
    /\ UNCHANGED <<spoils, store, ask, at, began, turn, holds, existing, result>>

Expire(d) ==
    /\ cache[d] # None /\ cache' = [cache EXCEPT ![d] = None]
    /\ UNCHANGED <<world, lastKnown, tripDefault, ask, at, began, turn, holds, existing, result>>

(* What the reads defend against: an entry under another day's key, or one *)
(* that lacks a currency.                                                  *)
Spoil(d) ==
    /\ spoils < MaxSpoils /\ spoils' = spoils + 1
    /\ \/ /\ cache[d] # None /\ UNCHANGED lastKnown
          /\ \/ \E e \in Dates : cache' = [cache EXCEPT ![e] = cache[d]]
             \/ cache' = [cache EXCEPT ![d].table.sound = FALSE]
       \/ /\ lastKnown # None /\ lastKnown' = [lastKnown EXCEPT !.sound = FALSE]
          /\ UNCHANGED cache
    /\ UNCHANGED <<today, tripDefault, ask, at, began, turn, holds, existing, result>>

(* The admin's PUT of the trip's default rate. *)
UpsertRate ==
    /\ ~tripDefault /\ tripDefault' = TRUE
    /\ UNCHANGED <<world, cache, lastKnown, ask, at, began, turn, holds, existing, result>>

Step(r) ==
    \/ ReadCache(r) \/ AskProvider(r) \/ NoProviderLeft(r) \/ StoreTable(r)
    \/ CompareLastKnown(r) \/ ReplaceLastKnown(r)
    \/ ReadLastKnown(r) \/ ReadTripDefault(r)

AllEnded == \A r \in Requests : at[r] = "ended"

Next ==
    \/ \E r \in Requests : Start(r) \/ Step(r)
    \/ DayPasses \/ UpsertRate
    \/ \E d \in Dates : Expire(d) \/ Spoil(d)
    \/ AllEnded /\ UNCHANGED vars

Spec == Init /\ [][Next]_vars

-----------------------------------------------------------------------------
(* A rate recorded as "auto" is the expense's own day's, and one recorded  *)
(* as "last_known" is at most MaxAge days off it, whatever other requests, *)
(* expiry and a spoiled cache did while it was looked for.                 *)
RateIsOfItsDay ==
    \A r \in Requests : result[r] # None =>
        /\ result[r].source = "auto" => result[r].table.date = Date(r)
        /\ result[r].source = "last_known" =>
               result[r].table.date \in Date(r) - MaxAge .. Date(r) + MaxAge

(* A table kept for a month was published after its day was over: the      *)
(* running day's table, fetched just before midnight and stored just       *)
(* after, is kept for an hour only.                                        *)
MonthlyTablesAreFinal ==
    \A d \in Dates : cache[d] # None /\ cache[d].long => cache[d].table.final

(* last_known goes back to an earlier day only when two fetches overlap:   *)
(* the writer compared its table with one that has since been replaced.    *)
LastKnownStepsBackOnlyInARace ==
    [][\A r \in Requests :
          /\ at[r] = "replace" /\ at'[r] = "ended" /\ lastKnown' # lastKnown
          /\ lastKnown # None /\ lastKnown.date > Date(r)
          => existing[r] # lastKnown]_vars

=============================================================================
