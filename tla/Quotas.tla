------------------------------ MODULE Quotas ------------------------------
(***************************************************************************)
(* The counters of Redis: the public assistant of the site                 *)
(* (public-assistant.service), and the rate limit of the other routes      *)
(* (redis-throttler.storage).  A key is counted by INCR with EXPIRE NX, in *)
(* one transaction: its window starts with the first hit.                  *)
(*                                                                         *)
(* Time goes by half days, HalfDays of them to a day, and stands still     *)
(* while a request of the public assistant, of milliseconds, is under way; *)
(* a window of a minute may end at any moment.                             *)
(***************************************************************************)
EXTENDS Integers, FiniteSets

CONSTANTS Visitor, Request,
          PerMinute, PerDay,   \* PUBLIC_LIMIT_PER_MINUTE, PUBLIC_LIMIT_PER_DAY
          Global,              \* PUBLIC_ASSISTANT_DAILY_LIMIT
          Limit,               \* the limit of a route, in a window of its ttl
          MaxTime              \* bound of the model

HalfDays == 2
Idle == [pc |-> "idle"]
Least(m, n) == IF m < n THEN m ELSE n

VARIABLES
  now,
  minute,    \* the hits of a visitor in its minute
  day,       \* and in its day, with the half days its key has left
  global,    \* the hits of the date
  hits, blocked,   \* the two keys of the rate limit
  req,
  share,     \* history: what a visitor has taken of the date's global count
  passed     \* history: the requests let through in the window of hits

public == <<now, minute, day, global, share>>
throttle == <<hits, blocked, passed>>
vars == <<public, throttle, req>>

TypeOK ==
  /\ now \in 0..MaxTime
  /\ minute \in [Visitor -> 0..(PerMinute + 1)]
  /\ day \in [Visitor -> [n : 0..(PerDay + 1), left : 0..HalfDays]]
  /\ \A v \in Visitor : day[v].left = 0 <=> day[v].n = 0
  /\ global \in 0..(Global + 1)
  /\ hits \in 0..(Limit + 1) /\ blocked \in BOOLEAN
  /\ req \in [Request -> {Idle} \cup [pc : {"increment", "block"}]
                \cup [pc : {"minute", "global"}, visitor : Visitor]
                \cup [pc : {"day"}, visitor : Visitor, perMinute : 1..(PerMinute + 1)]]
  /\ share \in [Visitor -> 0..(2 * PerDay + 1)]
  /\ passed \in 0..(Limit + 1)

Init ==
  /\ now = 0
  /\ minute = [v \in Visitor |-> 0]
  /\ day = [v \in Visitor |-> [n |-> 0, left |-> 0]]
  /\ global = 0 /\ share = [v \in Visitor |-> 0]
  /\ hits = 0 /\ blocked = FALSE /\ passed = 0
  /\ req = [r \in Request |-> Idle]

At(r, p) == req[r].pc = p
Becomes(r, q) == req' = [req EXCEPT ![r] = q]

-----------------------------------------------------------------------------
(* consumeQuota.  Beyond its limit a count need not be known.              *)

AskPublic(r, v) ==
  /\ At(r, "idle")
  /\ Becomes(r, [pc |-> "minute", visitor |-> v])
  /\ UNCHANGED <<public, throttle>>

CountMinute(r) ==
  LET v == req[r].visitor
      n == Least(minute[v] + 1, PerMinute + 1)
  IN /\ At(r, "minute")
     /\ minute' = [minute EXCEPT ![v] = n]
     /\ Becomes(r, [pc |-> "day", visitor |-> v, perMinute |-> n])
     /\ UNCHANGED <<now, day, global, share, throttle>>

\* Slip: what is refused goes on to the count of the date.
AcceptedAny(r, n) == TRUE

\* What is refused has been counted in both windows, but not in the date's.
Accepted(r, n) == req[r].perMinute <= PerMinute /\ n <= PerDay

CountDay(r) ==
  LET v == req[r].visitor
      n == Least(day[v].n + 1, PerDay + 1)
  IN /\ At(r, "day")
     /\ day' = [day EXCEPT ![v] = [n |-> n, left |-> IF @.left = 0 THEN HalfDays ELSE @.left]]
     /\ Becomes(r, IF Accepted(r, n) THEN [pc |-> "global", visitor |-> v] ELSE Idle)
     /\ UNCHANGED <<now, minute, global, share, throttle>>

\* Beyond the global limit the answer is a 503; the engine is called otherwise.
CountGlobal(r) ==
  /\ At(r, "global")
  /\ global' = Least(global + 1, Global + 1)
  /\ share' = [share EXCEPT ![req[r].visitor] = Least(@ + 1, 2 * PerDay + 1)]
  /\ Becomes(r, Idle)
  /\ UNCHANGED <<now, minute, day, throttle>>

MinuteOver(v) ==
  /\ minute[v] # 0
  /\ minute' = [minute EXCEPT ![v] = 0]
  /\ UNCHANGED <<now, day, global, share, throttle, req>>

\* The keys of a day that ends are gone; a new date has its own global key.
HalfDay ==
  LET newDate == (now + 1) % HalfDays = 0 IN
  /\ now < MaxTime /\ \A r \in Request : req[r].pc \notin {"minute", "day", "global"}
  /\ now' = now + 1
  /\ minute' = [v \in Visitor |-> 0]
  /\ day' = [v \in Visitor |-> IF day[v].left <= 1 THEN [n |-> 0, left |-> 0]
                                ELSE [day[v] EXCEPT !.left = @ - 1]]
  /\ global' = IF newDate THEN 0 ELSE global
  /\ share' = IF newDate THEN [v \in Visitor |-> 0] ELSE share
  /\ UNCHANGED <<throttle, req>>

-----------------------------------------------------------------------------
(* RedisThrottlerStorage.increment                                         *)

\* A block under way answers for the count, which is left alone.
ReadBlock(r) ==
  /\ At(r, "idle") /\ ~blocked
  /\ Becomes(r, [pc |-> "increment"])
  /\ UNCHANGED <<public, throttle>>

Increment(r) ==
  /\ At(r, "increment")
  /\ hits' = Least(hits + 1, Limit + 1)
  /\ IF hits' > Limit
     THEN /\ Becomes(r, [pc |-> "block"])
          /\ UNCHANGED passed
     ELSE /\ Becomes(r, Idle)
          /\ passed' = passed + 1
  /\ UNCHANGED <<public, blocked>>

SetBlock(r) ==
  /\ At(r, "block")
  /\ blocked' = TRUE
  /\ Becomes(r, Idle)
  /\ UNCHANGED <<public, hits, passed>>

WindowOver ==
  /\ hits # 0
  /\ hits' = 0 /\ passed' = 0
  /\ UNCHANGED <<public, blocked, req>>

BlockOver ==
  /\ blocked
  /\ blocked' = FALSE
  /\ UNCHANGED <<public, hits, passed, req>>

-----------------------------------------------------------------------------

Next ==
  \/ \E r \in Request :
       \/ \E v \in Visitor : AskPublic(r, v)
       \/ CountMinute(r) \/ CountDay(r) \/ CountGlobal(r)
       \/ ReadBlock(r) \/ Increment(r) \/ SetBlock(r)
  \/ \E v \in Visitor : MinuteOver(v)
  \/ HalfDay \/ WindowOver \/ BlockOver

Spec == Init /\ [][Next]_vars

\* "n'importe quel robot pourrait épuiser le quota Gemini partagé": a visitor that
\* asks without end, from several requests at once, takes no more than two of its
\* days from the global count of a date; and a window of the rate limit lets no
\* more through than its limit.
QuotasHold ==
  /\ \A v \in Visitor : share[v] <= 2 * PerDay
  /\ passed <= Limit

=============================================================================
