---------------------------- MODULE PacFunctions ----------------------------
(***************************************************************************)
(* The functions a PAC script calls that depend on time: weekdayRange,     *)
(* dateRange and timeRange, which read the wall clock, and dnsResolve,     *)
(* which remembers a host's address in a process-wide cache.  "clock"      *)
(* counts seconds: datetime.now() is its calendar and time.monotonic() its *)
(* count.  "call" is the call the script makes, over and over.  Only a     *)
(* remote engine's helper is a single thread: an in-process engine runs    *)
(* the functions on the caller's.                                          *)
(***************************************************************************)
EXTENDS Integers, Sequences, SequencesExt

CONSTANTS
  ScriptCalls,  \* the calls made: records with the field fn
  LastSecond, LastMinute, LastHour, LastDay, LastMonth,  \* a small calendar
  FirstYear, Years,
  Offset,      \* hours that local time is ahead of UTC
  Threads, Addresses, NoAddress,
  DnsTimeout,  \* _DNS_TIMEOUT
  MaxSeconds   \* bound: seconds for which dnsResolve is watched

ASSUME CalendarAssumption ==
  /\ {LastSecond, LastMinute, LastHour, Offset} \subseteq Nat
  /\ {LastDay, LastMonth} \subseteq 1 .. 31
  /\ FirstYear \in Nat /\ FirstYear >= 32
  /\ Years \in Nat \ {0}

ASSUME DnsAssumption ==
  /\ {DnsTimeout, MaxSeconds} \subseteq Nat /\ NoAddress \notin Addresses
  /\ \A c \in ScriptCalls : c.fn = "dnsResolve" => c.ttl \in Nat

VARIABLES clock, call, address, cache, fpc, began, got

functionsVars == <<clock, call, address, cache, fpc, began, got>>

------------------------------------------------------------------------------
\* The wall clock.

PerHour == (LastMinute + 1) * (LastSecond + 1)
PerDay == (LastHour + 1) * PerHour

\* _now, t seconds after it was started: year, month, day, hour, minute, second.
Moment(t) ==
  LET day == t \div PerDay
  IN <<FirstYear + day \div (LastMonth * LastDay), ((day \div LastDay) % LastMonth) + 1,
       (day % LastDay) + 1, (t \div PerHour) % (LastHour + 1),
       (t \div (LastSecond + 1)) % (LastMinute + 1), t % (LastSecond + 1)>>

\* The calendar that the call asks: of UTC, or of local time.
Seconds == clock + (IF call.gmt THEN 0 ELSE Offset * PerHour)
Now == Moment(Seconds)

\* isoweekday() % 7.
Weekday == (Seconds \div PerDay) % 7

UpTo(a, b) ==
  \/ a = b
  \/ \E i \in DOMAIN a : a[i] < b[i] /\ \A j \in 1 .. i - 1 : a[j] = b[j]

\* Mutant: the end is left out of the range.
WithinOpen(start, moment, end) ==
  IF UpTo(start, end) THEN UpTo(start, moment) /\ UpTo(moment, end) /\ moment # end
                      ELSE UpTo(start, moment) \/ UpTo(moment, end)

\* start <= moment <= end, wrapping when the start is after the end.
Within(start, moment, end) ==
  IF UpTo(start, end) THEN UpTo(start, moment) /\ UpTo(moment, end)
                      ELSE UpTo(start, moment) \/ UpTo(moment, end)

Unknown == 0  \* a day or month name that is not one

WeekdayRange(days, today) ==
  /\ \A i \in DOMAIN days : days[i] \in 0 .. 6
  /\ Within(<<days[1]>>, <<today>>, <<days[Len(days)]>>)

\* The field of a moment that an argument names.
DatePart(arg) == IF arg.name THEN 2 ELSE IF arg.value < 32 THEN 3 ELSE 1

\* A moment with the fields set that the arguments name.
Set(moment, args) ==
  [f \in DOMAIN moment |->
     LET at == {i \in DOMAIN args : DatePart(args[i]) = f}
     IN IF at = {} THEN moment[f] ELSE args[Max(at)].value]

DateRange(args, moment) ==
  LET half == Len(args) \div 2
      inMonth(m) ==   \* two values, the first of them a day
        IF Len(args) <= 2 /\ \E i \in 1 .. half : DatePart(args[i]) = 3
          THEN [m EXCEPT ![2] = moment[2]] ELSE m
  IN /\ args # <<>>
     /\ \A i \in DOMAIN args : args[i].value # Unknown
     /\ IF Len(args) = 1
          THEN moment[DatePart(args[1])] = args[1].value
          ELSE Within(
            inMonth(Set(<<moment[1], 1, 1, 0, 0, 0>>, SubSeq(args, 1, half))), moment,
            inMonth(Set(<<moment[1], LastMonth, LastDay, LastHour, LastMinute, LastSecond>>,
                        SubSeq(args, half + 1, Len(args)))))

TimeRange(n, time) ==
  CASE Len(n) = 1 -> time[1] = n[1]
    [] Len(n) = 2 -> n[1] <= time[1] /\ time[1] <= n[2]
    [] Len(n) = 4 -> Within(<<n[1], n[2], 0>>, time, <<n[3], n[4], LastSecond>>)
    [] Len(n) = 6 -> Within(SubSeq(n, 1, 3), time, SubSeq(n, 4, 6))
    [] OTHER -> FALSE

\* The halves of a call's arguments; one argument is both.
Half(args) == IF Len(args) = 1 THEN 1 ELSE Len(args) \div 2
Lower(args) == SubSeq(args, 1, Half(args))
Upper(args) == SubSeq(args, Len(args) - Half(args) + 1, Len(args))
Values(parts) == [i \in DOMAIN parts |-> parts[i].value]

\* The forms of a date in a PAC: a day, a month or a year, a day of a month, a
\* month of a year, a day of a month of a year; both ends have the same one, and
\* a moment that the calendar has.
DateForms == {{3}, {2}, {1}, {2, 3}, {1, 2}, {1, 2, 3}}

IsDates(parts) ==
  /\ parts \in Seq([name : BOOLEAN, value : Nat]) /\ Len(parts) \in {1, 2, 4, 6}
  /\ \A i \in DOMAIN parts :
       \/ parts[i].name /\ parts[i].value <= LastMonth
       \/ ~parts[i].name /\ (parts[i].value \in 1 .. LastDay \/ parts[i].value >= 32)
  /\ LET l == Lower(parts)
         u == Upper(parts)
     IN /\ \A i \in DOMAIN l : DatePart(u[i]) = DatePart(l[i])
        /\ \A i, j \in DOMAIN l : i # j => DatePart(l[i]) # DatePart(l[j])
        /\ {DatePart(l[i]) : i \in DOMAIN l} \in DateForms

IsTimes(args) ==
  /\ args \in Seq(Nat)
  /\ Len(args) \in {1, 2, 4, 6} =>
       \A time \in {Lower(args), Upper(args)} : \A i \in DOMAIN time :
         time[i] <= <<LastHour, LastMinute, LastSecond>>[i]

ASSUME CallsAssumption ==
  \A c \in ScriptCalls :
    \/ c.fn = "dnsResolve"
    \/ /\ c.gmt \in BOOLEAN
       /\ \/ c.fn = "weekdayRange" /\ c.args \in Seq(0 .. 7) /\ Len(c.args) \in 1 .. 2
          \/ c.fn = "dateRange" /\ IsDates(c.parts)
          \/ c.fn = "timeRange" /\ IsTimes(c.args)

\* What the script's call answers now.
Answer ==
  CASE call.fn = "weekdayRange" -> WeekdayRange(call.args, Weekday)
    [] call.fn = "dateRange" -> DateRange(call.parts, Now)
    [] call.fn = "timeRange" -> TimeRange(call.args, SubSeq(Now, 4, 6))
    [] OTHER -> FALSE

------------------------------------------------------------------------------
\* dnsResolve of one host.  A cache entry has the address, the stamp and, for
\* the properties only, the time the name server answered ("read").

NoEntry == [address |-> NoAddress, stamp |-> -1, read |-> -1]

FunctionsInit ==
  /\ clock = 0 /\ call \in ScriptCalls
  /\ address \in (IF call.fn = "dnsResolve" THEN Addresses ELSE {NoAddress})
  /\ cache = NoEntry
  /\ fpc = [t \in Threads |-> "idle"]
  /\ began = [t \in Threads |-> 0]
  /\ got = [t \in Threads |-> NoEntry]

\* Mutant: an entry as old as the lifetime is still used.
HitLate == call.ttl > 0 /\ cache # NoEntry /\ clock - cache.stamp <= call.ttl

Hit == call.ttl > 0 /\ cache # NoEntry /\ clock - cache.stamp < call.ttl

Resolve(t) ==
  /\ call.fn = "dnsResolve"
  /\ fpc[t] = "idle"
  /\ began' = [began EXCEPT ![t] = clock]
  /\ IF Hit THEN /\ got' = [got EXCEPT ![t] = cache]
                 /\ fpc' = [fpc EXCEPT ![t] = "returned"]
            ELSE /\ fpc' = [fpc EXCEPT ![t] = "resolving"]
                 /\ UNCHANGED got
  /\ UNCHANGED <<clock, call, address, cache>>

\* resolve_ip: the name server's answer, or none within _DNS_TIMEOUT.
NameServerAnswers(t) ==
  /\ fpc[t] = "resolving"
  /\ \E a \in {address, NoAddress} :
       got' = [got EXCEPT ![t] = [address |-> a, stamp |-> -1, read |-> clock]]
  /\ fpc' = [fpc EXCEPT ![t] = "resolved"]
  /\ UNCHANGED <<clock, call, address, cache, began>>

Store(t) ==
  /\ fpc[t] = "resolved"
  /\ cache' = IF call.ttl > 0 THEN [got[t] EXCEPT !.stamp = clock] ELSE cache
  /\ fpc' = [fpc EXCEPT ![t] = "returned"]
  /\ UNCHANGED <<clock, call, address, began, got>>

Return(t) ==
  /\ fpc[t] = "returned"
  /\ fpc' = [fpc EXCEPT ![t] = "idle"]
  /\ began' = [began EXCEPT ![t] = 0]
  /\ got' = [got EXCEPT ![t] = NoEntry]
  /\ UNCHANGED <<clock, call, address, cache>>

ClearDnsCache ==
  /\ cache # NoEntry
  /\ cache' = NoEntry
  /\ UNCHANGED <<clock, call, address, fpc, began, got>>

AddressChanges ==
  /\ call.fn = "dnsResolve"
  /\ address' \in Addresses \ {address}
  /\ UNCHANGED <<clock, call, cache, fpc, began, got>>

\* A second passes; a resolution under way has _DNS_TIMEOUT.
SecondPasses ==
  /\ clock < (IF call.fn = "dnsResolve" THEN MaxSeconds
              ELSE Years * LastMonth * LastDay * PerDay - 1)
  /\ \A t \in Threads : fpc[t] \in {"resolving", "resolved"} => clock - began[t] < DnsTimeout
  /\ \A t \in Threads : fpc[t] # "returned"
  /\ clock' = clock + 1
  /\ UNCHANGED <<call, address, cache, fpc, began, got>>

FunctionsNext ==
  \/ \E t \in Threads : Resolve(t) \/ NameServerAnswers(t) \/ Store(t) \/ Return(t)
  \/ ClearDnsCache \/ AddressChanges \/ SecondPasses

FunctionsSpec == FunctionsInit /\ [][FunctionsNext]_functionsVars

------------------------------------------------------------------------------

\* The two ends of a range, and the part of the moment that they name.
Ends ==
  IF call.fn = "dateRange"
    THEN [start |-> Values(Lower(call.parts)), end |-> Values(Upper(call.parts))]
    ELSE [start |-> Lower(call.args), end |-> Upper(call.args)]

Named ==
  CASE call.fn = "weekdayRange" -> <<Weekday>>
    [] call.fn = "dateRange" ->
         [i \in DOMAIN Lower(call.parts) |-> Now[DatePart(call.parts[i])]]
    [] call.fn = "timeRange" -> [i \in DOMAIN Lower(call.args) |-> Now[3 + i]]

\* Calls the functions refuse, or never grant: an unknown name, a count of
\* numbers they do not know, two hours that run backwards.
NeverTrue ==
  \/ call.fn = "weekdayRange" /\ \E i \in DOMAIN call.args : call.args[i] \notin 0 .. 6
  \/ call.fn = "dateRange" /\ \E i \in DOMAIN call.parts : call.parts[i].value = Unknown
  \/ call.fn = "timeRange" /\ \/ Len(call.args) \notin {1, 2, 4, 6}
                              \/ Len(call.args) = 2 /\ call.args[1] > call.args[2]

\* As the clock runs, a range becomes true exactly when the moment its first
\* half names begins, becomes false exactly when the moment its second half
\* names is over, and is otherwise what it was: whichever of year, month, day,
\* hour, minute and second the call names, wrapping or not, in UTC or in local
\* time (the docstrings of weekdayRange, dateRange and timeRange).
TurnsAtItsEnds ==
  [][clock' = clock + 1 /\ call.fn # "dnsResolve" =>
       LET changes == Named' # Named
       IN Answer' = IF NeverTrue THEN FALSE
                    ELSE IF changes /\ Named' = Ends.start THEN TRUE
                    ELSE IF changes /\ Named = Ends.end THEN FALSE
                    ELSE Answer]_functionsVars

\* dnsResolve never returns what the name server said longer ago than the
\* call's cache_ttl and one resolution: threads that overlap, a failure
\* remembered like an answer and the clearing of the cache do not add to it,
\* and a cache_ttl of zero asks anew.
ResolvedRecently ==
  \A t \in Threads : fpc[t] = "returned" =>
    IF call.ttl = 0 THEN got[t].read >= began[t]
                    ELSE clock - got[t].read < call.ttl + DnsTimeout \/ got[t].read >= began[t]

=============================================================================
