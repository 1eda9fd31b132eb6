--------------------------- MODULE MCPacFunctions ---------------------------
\* The calls a PAC script makes, in a calendar of two years of three months
\* of three days of three hours of two minutes of two seconds.
EXTENDS PacFunctions

Name(n) == [name |-> TRUE, value |-> n]
Number(n) == [name |-> FALSE, value |-> n]

Days == {Number(d) : d \in 1 .. LastDay}
Months == {Name(m) : m \in 1 .. LastMonth}
YearNumbers == {Number(FirstYear + y) : y \in 0 .. Years - 1}
DaysOfMonths == Days \X Months
DaysOfYears == {Number(1), Number(LastDay)} \X {Name(1), Name(2)} \X YearNumbers

Twice(S) == {s \o e : s \in S, e \in S}
Single(S) == {<<x>> : x \in S}

DateArgs ==
  {<<Name(Unknown), Name(1)>>, <<Name(1), Name(Unknown)>>}
    \cup UNION {Single(S) \cup Twice(Single(S)) : S \in {Days, Months, YearNumbers}}
    \cup Twice(DaysOfMonths) \cup Twice(Months \X YearNumbers) \cup Twice(DaysOfYears)

TimeArgs ==
  LET hours == 0 .. LastHour
      times == hours \X (0 .. LastMinute)
  IN {<<1, 0, 2>>} \cup UNION {Single(hours), Twice(Single(hours)), Twice(times),
                               Twice(hours \X (0 .. LastMinute) \X {0, LastSecond})}

MCCalls ==
  {[fn |-> f, args |-> a, gmt |-> g] :
     f \in {"weekdayRange"}, a \in Single(0 .. 7) \cup Twice(Single({0, 3, 6, 7})), g \in BOOLEAN}
  \cup {[fn |-> f, parts |-> a, gmt |-> TRUE] : f \in {"dateRange"}, a \in DateArgs}
  \cup {[fn |-> f, args |-> a, gmt |-> FALSE] : f \in {"timeRange"}, a \in TimeArgs}
  \cup {[fn |-> f, ttl |-> ttl] : f \in {"dnsResolve"}, ttl \in {0, 2}}

=============================================================================
