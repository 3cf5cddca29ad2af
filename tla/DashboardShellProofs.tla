------------------------ MODULE DashboardShellProofs ------------------------
(***************************************************************************)
(* For any seasons, limiter, token lifetime and bounds: wrong passwords    *)
(* stay bounded, and the page shows no other season than the selected one  *)
(* unless a request that is not aborted was on its way when it was         *)
(* selected, polls at most one job and never waits for nothing.            *)
(*                                                                         *)
(* The limiter needs that no lock elapses before the failures that set it  *)
(* are many.  The page needs that every request that will show a season is *)
(* for the selected one, unless the page says it may not be, and that a    *)
(* flag of the page and a request that will clear it go together.          *)
(***************************************************************************)
EXTENDS DashboardShell, FiniteSetTheorems, TLAPS

--------------------------------------------------------------------------------
(* The sign-in *)

Limited ==
  /\ clock \in Nat
  /\ limiter \in [failures : Nat, lockedUntil : Nat]
  /\ tolerated \in Nat
  /\ tolerated <= limiter.failures
  /\ tolerated < MaxAttempts
  /\ limiter.failures < MaxAttempts => limiter.lockedUntil = 0

(* A wrong password either locks or is one of the first few. *)
LEMMA WrongPasswordLimited ==
    ASSUME Limited, WrongPassword
    PROVE  Limited'
<1>. DEFINE failures == limiter.failures + 1
<1>1. CASE failures >= MaxAttempts
  <2>1. RecordFailure = [failures |-> failures, lockedUntil |-> clock + Lockout]
    BY <1>1 DEF RecordFailure
  <2>2. ~Elapsed(RecordFailure) /\ Locked(RecordFailure)
    BY <2>1, LimiterAssumption DEF Limited, Elapsed, Locked
  <2>3. limiter' = RecordFailure /\ tolerated' = tolerated /\ clock' = clock
    BY <2>2 DEF WrongPassword
  <2>. QED BY <1>1, <2>1, <2>3, LimiterAssumption DEF Limited
<1>2. CASE failures < MaxAttempts
  <2>1. limiter.lockedUntil = 0 /\ failures \in Nat
    BY <1>2, LimiterAssumption DEF Limited
  <2>2. RecordFailure = [failures |-> failures, lockedUntil |-> 0]
    BY <1>2, <2>1, LimiterAssumption DEF RecordFailure, Limited
  <2>3. ~Elapsed(RecordFailure) /\ ~Locked(RecordFailure)
    BY <2>2 DEF Elapsed, Locked
  <2>4. limiter' = RecordFailure /\ tolerated' = tolerated + 1 /\ clock' = clock
    BY <2>3 DEF WrongPassword
  <2>. QED BY <1>2, <2>1, <2>2, <2>4, LimiterAssumption DEF Limited
<1>. QED BY <1>1, <1>2, LimiterAssumption DEF Limited

(* What a step of the dashboard is to the limiter. *)
LimiterStep ==
  \/ WrongPassword \/ RightPassword \/ Logout \/ Tick
  \/ UNCHANGED signInVars

LEMMA NextIsLimiterStep == [Next]_vars => LimiterStep
<1>1. \A r : Serve(r) \/ StrayLost(r) => UNCHANGED signInVars
  BY DEF Serve, StrayLost
<1>2. \A r : Arrives(r) => UNCHANGED signInVars
  BY DEF Arrives, CheckArrives, Unauthorized, SeasonArrives, PollArrives, PollAgain,
         EndArrives, EnsureArrives, AfterArrives, ManualArrives, Unchanged
<1>3. User => LimiterStep
  BY DEF User, LimiterStep, TryAgain, SubmitRight, SubmitWrong, SignOut, OpenList,
         CloseList, SelectYear, Backfill, Refresh, Act, Unchanged
<1>4. BudgetRefused \/ Rerender \/ StartJob => UNCHANGED signInVars
  BY DEF BudgetRefused, Rerender, StartJob, Unchanged
<1>5. \A y : EndJob(y) => UNCHANGED signInVars
  BY DEF EndJob
<1>. QED BY <1>1, <1>2, <1>3, <1>4, <1>5 DEF Next, LimiterStep, vars

LEMMA LimiterStepLimited ==
    ASSUME Limited, LimiterStep
    PROVE  Limited'
<1>1. CASE WrongPassword
  BY <1>1, WrongPasswordLimited
<1>2. CASE RightPassword
  BY <1>2, LimiterAssumption DEF RightPassword, Clean, Limited
<1>3. CASE Logout \/ UNCHANGED signInVars
  BY <1>3 DEF Logout, signInVars, Limited
<1>4. CASE Tick
  BY <1>4 DEF Tick, Limited
<1>. QED BY <1>1, <1>2, <1>3, <1>4 DEF LimiterStep

(* AttemptLimiter: between two right passwords fewer than MAX_FAILED_ATTEMPTS *)
(* wrong ones are answered 401, whoever sends them and over whatever time.    *)
THEOREM GuessesStayBounded == Spec => []GuessesBounded
<1>1. Init => Limited
  BY LimiterAssumption DEF Init, SignInInit, Clean, Limited
<1>2. Limited /\ [Next]_vars => Limited'
  BY NextIsLimiterStep, LimiterStepLimited
<1>3. Limited => GuessesBounded
  BY DEF Limited, GuessesBounded
<1>. QED BY <1>1, <1>2, <1>3, PTL DEF Spec

--------------------------------------------------------------------------------
(* The page: what its state and the requests on their way are *)

Loads    == {"season", "manual"}
Commands == {"ensure", "after"}
Polls    == {"poll", "timer"}
Showing  == Loads \cup Commands \cup {"end"}
ShellKinds == Loads \cup Commands \cup Polls \cup {"end"}
OtherKinds == {"check", "stray", "stray-ensure"}

JobIds == {NoJob} \cup (Years \X Nat)
Page == [year : Years, season : {NoSeason} \cup [year : Years, job : JobIds],
         loading : BOOLEAN, command : BOOLEAN, polling : JobIds, followed : JobIds,
         open : BOOLEAN, overtaken : BOOLEAN]
Requests == [kind : ShellKinds \cup OtherKinds, year : Years, job : JobIds,
             status : {"sent", "ok", "refused"}, running : BOOLEAN]

Typed ==
  /\ jobs \in [Years -> [number : Nat, active : BOOLEAN]]
  /\ page \in Page
  /\ requests \subseteq Requests

(* A job belongs to the season it was asked for. *)
JobOfYear(job, year) == job # NoJob => job[1] = year

(* A request that will show a season is for the selected one, the page waits *)
(* for a command, and a poll is of the job whose effect is in force.         *)
Expected(r, pg) ==
  /\ JobOfYear(r.job, r.year)
  /\ r.kind \in Showing /\ ~pg.overtaken => r.year = pg.year
  /\ r.kind \in Commands => pg.command
  /\ r.kind \in Polls => r.job = pg.followed

(* Two requests that would do the same. *)
Rivals(r, s) ==
  \/ r.kind \in Commands /\ s.kind \in Commands
  \/ r.kind \in Polls /\ s.kind \in Polls

(* A page and its requests fit. *)
Fits(pg, rs) ==
  /\ pg.season # NoSeason /\ ~pg.overtaken => pg.season.year = pg.year
  /\ \A r \in rs : Expected(r, pg)
  /\ \A r, s \in rs : Rivals(r, s) => r = s
  /\ pg.loading => \E r \in rs : r.kind \in Loads
  /\ pg.command => \E r \in rs : r.kind \in Commands

(* Without the shell none of its requests is on its way. *)
Gone == page = FreshPage /\ \A r \in requests : r.kind \in OtherKinds /\ JobOfYear(r.job, r.year)

Consistent == Typed /\ (IF Mounted THEN Fits(page, requests) ELSE Gone)

--------------------------------------------------------------------------------
(* Pages and requests that change together *)

(* A request is replaced by its answer, or a poll by its timer. *)
LEMMA ReplaceFits ==
    ASSUME NEW pg, NEW rs, NEW r \in rs, NEW q, Fits(pg, rs),
           \/ q.kind = r.kind
           \/ q.kind \in Polls /\ r.kind \in Polls,
           q.year = r.year, JobOfYear(q.job, q.year),
           r.kind \in Polls => q.job = r.job
    PROVE  Fits(pg, (rs \ {r}) \cup {q})
<1>. DEFINE next == (rs \ {r}) \cup {q}
<1>1. Expected(r, pg) /\ \A s \in rs : Expected(s, pg)
  BY DEF Fits
<1>2. Expected(q, pg)
  BY <1>1 DEF Expected, Showing, Polls, Loads, Commands
<1>3. \A s \in next : Expected(s, pg)
  BY <1>1, <1>2
<1>4. \A s : (Rivals(q, s) <=> Rivals(r, s)) /\ (Rivals(s, q) <=> Rivals(s, r))
  BY DEF Rivals, Polls, Loads, Commands
<1>5. \A s, t \in rs : Rivals(s, t) => s = t
  BY DEF Fits
<1>6. \A s, t \in next : Rivals(s, t) => s = t
  BY <1>4, <1>5
<1>7. /\ pg.loading => \E s \in next : s.kind \in Loads
      /\ pg.command => \E s \in next : s.kind \in Commands
  BY DEF Fits, Polls, Loads, Commands
<1>. QED BY <1>3, <1>6, <1>7 DEF Fits

(* A request that the page does not wait for may disappear. *)
LEMMA DropFits ==
    ASSUME NEW pg, NEW rs, NEW kept \in SUBSET rs, Fits(pg, rs),
           \A r \in rs \ kept : r.kind \notin Loads \cup Commands
    PROVE  Fits(pg, kept)
BY DEF Fits

(* A request that has no rival may be sent. *)
LEMMA SendFits ==
    ASSUME NEW pg, NEW rs, NEW q, Fits(pg, rs), Expected(q, pg),
           q.kind \notin Commands \cup Polls
    PROVE  Fits(pg, rs \cup {q})
BY DEF Fits, Rivals

(* What the page is besides may change. *)
LEMMA TurnFits ==
    ASSUME NEW pg, NEW rs, NEW next, Fits(pg, rs),
           next.year = pg.year, next.loading = pg.loading, next.command = pg.command,
           next.followed = pg.followed, next.overtaken = pg.overtaken,
           next.season # NoSeason /\ ~next.overtaken => next.season.year = next.year
    PROVE  Fits(next, rs)
BY DEF Fits, Expected

(* The page stops waiting with the request it waited for. *)
LEMMA EndLoadFits ==
    ASSUME NEW pg \in Page, NEW rs, NEW r \in rs, Fits(pg, rs), r.kind \in Loads
    PROVE  Fits([pg EXCEPT !.loading = FALSE], rs \ {r})
<1>. DEFINE next == [pg EXCEPT !.loading = FALSE]
<1>1. /\ next.year = pg.year /\ next.season = pg.season /\ next.followed = pg.followed
      /\ next.command = pg.command /\ next.overtaken = pg.overtaken /\ next.loading = FALSE
  BY DEF Page
<1>. HIDE DEF next
<1>2. \A s \in rs \ {r} : Expected(s, next)
  BY <1>1 DEF Fits, Expected
<1>3. next.command => \E s \in rs \ {r} : s.kind \in Commands
  BY <1>1 DEF Fits, Loads, Commands
<1>4. Fits(next, rs \ {r})
  BY <1>1, <1>2, <1>3 DEF Fits
<1>. QED BY <1>4 DEF next

LEMMA EndCommandFits ==
    ASSUME NEW pg \in Page, NEW rs, NEW r \in rs, Fits(pg, rs), r.kind \in Commands
    PROVE  Fits([pg EXCEPT !.command = FALSE], rs \ {r})
<1>. DEFINE next == [pg EXCEPT !.command = FALSE]
<1>1. /\ next.year = pg.year /\ next.season = pg.season /\ next.followed = pg.followed
      /\ next.loading = pg.loading /\ next.overtaken = pg.overtaken /\ next.command = FALSE
  BY DEF Page
<1>2. \A s \in rs \ {r} : s.kind \notin Commands
  BY DEF Fits, Rivals
<1>. HIDE DEF next
<1>3. \A s \in rs \ {r} : Expected(s, next)
  BY <1>1, <1>2 DEF Fits, Expected
<1>4. next.loading => \E s \in rs \ {r} : s.kind \in Loads
  BY <1>1 DEF Fits, Loads, Commands
<1>5. Fits(next, rs \ {r})
  BY <1>1, <1>3, <1>4 DEF Fits
<1>. QED BY <1>5 DEF next

(* A command is followed by the request for the season. *)
LEMMA ReplaceCommand ==
    ASSUME NEW pg, NEW rs, NEW r \in rs, NEW q, Fits(pg, rs),
           r.kind \in Commands, q.kind = "after", q.year = r.year, q.job = NoJob
    PROVE  Fits(pg, (rs \ {r}) \cup {q})
<1>1. Expected(r, pg) /\ \A s \in rs : Expected(s, pg)
  BY DEF Fits
<1>2. Expected(q, pg)
  BY <1>1 DEF Expected, JobOfYear, Showing, Polls, Commands
<1>3. \A s \in rs \ {r} : ~Rivals(q, s) /\ ~Rivals(s, q)
  BY DEF Fits, Rivals, Loads, Polls, Commands
<1>4. \A s, t \in (rs \ {r}) \cup {q} : Rivals(s, t) => s = t
  BY <1>3 DEF Fits
<1>5. pg.loading => \E s \in (rs \ {r}) \cup {q} : s.kind \in Loads
  BY DEF Fits, Loads, Commands
<1>. QED BY <1>1, <1>2, <1>4, <1>5 DEF Fits, Commands

(* Another job is followed: what the effect before has requested is gone. *)
LEMMA FollowingFits ==
    ASSUME Typed, Fits(page, requests), NEW job \in JobIds, NEW next,
           next.year = page.year, next.season = page.season,
           next.loading = page.loading, next.command = page.command,
           next.overtaken = page.overtaken, next.followed = job
    PROVE  Following(job) \subseteq Requests /\ Fits(next, Following(job))
<1>. DEFINE first == Request("poll", job[1], job)
            kept  == Aborted(PollKinds)
<1>1. job # NoJob => first \in Requests
  BY DEF JobIds, Request, Requests, ShellKinds, Polls
<1>2. first.kind = "poll" /\ first.year = job[1] /\ first.job = job
  BY DEF Request
<1>3. \A r \in kept : r \in requests /\ r.kind \notin Polls
  BY DEF Aborted, PollKinds, Polls
<1>4. \A r \in kept : Expected(r, next)
  BY <1>3 DEF Fits, Expected
<1>5. \A r, s \in kept : Rivals(r, s) => r = s
  BY <1>3 DEF Fits
<1>6. /\ next.loading => \E r \in kept : r.kind \in Loads
      /\ next.command => \E r \in kept : r.kind \in Commands
  BY DEF Fits, Aborted, PollKinds, Loads, Commands
<1>7. next.season # NoSeason /\ ~next.overtaken => next.season.year = next.year
  BY DEF Fits
<1>8. kept \subseteq Requests
  BY <1>3 DEF Typed
<1>9. CASE job = NoJob
  <2>1. Following(job) = kept
    BY <1>9 DEF Following, PollOf
  <2>. QED BY <2>1, <1>4, <1>5, <1>6, <1>7, <1>8 DEF Fits
<1>10. CASE job # NoJob
  <2>1. Following(job) = kept \cup {first}
    BY <1>10 DEF Following, PollOf
  <2>2. Expected(first, next)
    BY <1>2, <1>10 DEF Expected, JobOfYear, Showing, Loads, Commands, Polls
  <2>3. \A r \in kept : ~Rivals(r, first) /\ ~Rivals(first, r)
    BY <1>2, <1>3 DEF Rivals, Commands, Polls
  <2>. HIDE DEF first, kept
  <2>4. Fits(next, kept \cup {first})
    BY <2>2, <2>3, <1>4, <1>5, <1>6, <1>7 DEF Fits
  <2>. QED BY <2>1, <2>4, <1>1, <1>8, <1>10
<1>. QED BY <1>9, <1>10

(* A season is shown. *)
LEMMA ShowSeasonFits ==
    ASSUME Typed, NEW r \in requests, NEW shown \in Page, ShowSeason(r, shown),
           Fits(shown, requests \ {r}), Expected(r, page), r.kind \in Showing,
           shown.year = page.year, shown.overtaken = page.overtaken
    PROVE  page' \in Page /\ requests' \subseteq Requests /\ Fits(page', requests')
<1>. DEFINE season == [year |-> r.year, job |-> r.job]
<1>1. r.year \in Years /\ r.job \in JobIds
  BY DEF Typed, Requests
<1>2. season \in [year : Years, job : JobIds] /\ season.year = r.year
  BY <1>1
<1>. HIDE DEF season
<1>3. page' = [shown EXCEPT !.season = season, !.polling = r.job]
  BY DEF ShowSeason, season
<1>4. page' \in Page
  BY <1>1, <1>2, <1>3 DEF Page
<1>5. /\ page'.year = shown.year /\ page'.loading = shown.loading
      /\ page'.command = shown.command /\ page'.followed = shown.followed
      /\ page'.overtaken = shown.overtaken /\ page'.season = season
  BY <1>3 DEF Page
<1>6. ~page'.overtaken => page'.season.year = page'.year
  BY <1>2, <1>5 DEF Expected
<1>7. requests' = requests \ {r}
  BY DEF ShowSeason
<1>8. Fits(page', requests \ {r})
  BY <1>5, <1>6, TurnFits
<1>. QED BY <1>4, <1>7, <1>8 DEF Typed

--------------------------------------------------------------------------------
(* The actions *)

(* What a served request brings back is the answer to it. *)
LEMMA AnswerFits ==
    ASSUME Typed, NEW r \in requests, JobOfYear(r.job, r.year), r.status = "sent"
    PROVE  /\ Answer(r) \in Requests
           /\ Answer(r).kind = r.kind /\ Answer(r).year = r.year
           /\ JobOfYear(Answer(r).job, r.year)
           /\ r.kind = "poll" => Answer(r).job = r.job
<1>1. /\ r \in Requests
      /\ r = [kind |-> r.kind, year |-> r.year, job |-> r.job, status |-> r.status,
              running |-> r.running]
  BY DEF Typed, Requests
<1>3. \A y \in Years : ActiveJob(y) \in JobIds /\ JobOfYear(ActiveJob(y), y)
  BY DEF Typed, ActiveJob, JobIds, JobOfYear
<1>4. NoJob \in JobIds /\ \A y : JobOfYear(NoJob, y)
  BY DEF JobIds, JobOfYear
<1>5. ASSUME NEW job \in JobIds, NEW running \in BOOLEAN
      PROVE  /\ Granted(r, job, running) \in Requests
             /\ Granted(r, job, running).kind = r.kind
             /\ Granted(r, job, running).year = r.year
             /\ Granted(r, job, running).job = job
  BY <1>1 DEF Requests, Granted
<1>6. CASE r.kind = "check"
  <2>1. Authenticated \in BOOLEAN
    BY DEF Authenticated
  <2>2. Answer(r) = Granted(r, NoJob, Authenticated)
    BY <1>6 DEF Answer
  <2>. QED BY <1>6, <2>1, <2>2, <1>4, <1>5
<1>7. CASE r.kind # "check" /\ ~Authenticated
  <2>1. Answer(r) = [kind |-> r.kind, year |-> r.year, job |-> r.job,
                     status |-> "refused", running |-> r.running]
    BY <1>7, <1>1 DEF Answer
  <2>. QED BY <2>1, <1>1 DEF Requests
<1>8. CASE r.kind = "poll" /\ Authenticated
  <2>. DEFINE active == ActiveJob(r.year) = r.job
  <2>1. active \in BOOLEAN /\ r.job \in JobIds
    BY <1>1 DEF Requests
  <2>2. Answer(r) = Granted(r, r.job, active)
    BY <1>8 DEF Answer
  <2>. HIDE DEF active
  <2>. QED BY <2>1, <2>2, <1>5
<1>9. CASE r.kind \notin {"check", "poll"} /\ Authenticated
  <2>1. r.year \in Years /\ ActiveJob(r.year) \in JobIds
    BY <1>1, <1>3 DEF Requests
  <2>2. Answer(r) = Granted(r, ActiveJob(r.year), FALSE)
    BY <1>9 DEF Answer
  <2>3. JobOfYear(ActiveJob(r.year), r.year) /\ r.kind # "poll"
    BY <1>9, <2>1, <1>3
  <2>4. PICK j \in JobIds : j = ActiveJob(r.year)
    BY <2>1
  <2>5. PICK answer : answer = Granted(r, j, FALSE)
    OBVIOUS
  <2>6. /\ answer \in Requests /\ answer.kind = r.kind
        /\ answer.year = r.year /\ answer.job = j
    BY <2>5, <1>5
  <2>7. Answer(r) = answer
    BY <2>2, <2>4, <2>5
  <2>. QED BY <2>3, <2>4, <2>6, <2>7
<1>. QED BY <1>6, <1>7, <1>8, <1>9

(* A request is served: by its answer, by what follows a stray, or by the job *)
(* a command creates.                                                         *)
LEMMA ServePreserves ==
    ASSUME Consistent, NEW r \in requests, Serve(r)
    PROVE  Consistent'
<1>. DEFINE number == jobs[r.year].number + 1
            created == Granted(r, <<r.year, number>>, FALSE)
<1>1. /\ Typed /\ r \in Requests /\ r.status = "sent"
      /\ page' = page /\ Mounted' = Mounted
  BY DEF Consistent, Typed, Serve, Mounted
<1>2. JobOfYear(r.job, r.year)
  BY DEF Consistent, Fits, Gone, Expected
<1>3. /\ Answer(r) \in Requests
      /\ Answer(r).kind = r.kind /\ Answer(r).year = r.year
      /\ JobOfYear(Answer(r).job, r.year)
      /\ r.kind = "poll" => Answer(r).job = r.job
  BY <1>1, <1>2, AnswerFits
<1>4. Creates(r) =>
        /\ created \in Requests /\ created.kind = r.kind /\ created.year = r.year
        /\ JobOfYear(created.job, r.year)
        /\ r.kind \in {"ensure", "stray-ensure"}
  BY <1>1 DEF Typed, Requests, JobIds, JobOfYear, Creates, Granted
<1>5. PICK answer \in Requests :
        /\ requests' = (requests \ {r}) \cup Served(r, answer)
        /\ answer.kind = r.kind /\ answer.year = r.year
        /\ JobOfYear(answer.job, r.year)
        /\ r.kind = "poll" => answer.job = r.job
  BY <1>3, <1>4 DEF Serve
<1>6. jobs' \in [Years -> [number : Nat, active : BOOLEAN]]
  <2>1. CASE jobs' = jobs
    BY <1>1, <2>1 DEF Typed
  <2>2. CASE jobs' = [jobs EXCEPT ![r.year] = [number |-> number, active |-> TRUE]]
    BY <1>1, <2>2 DEF Typed, Requests
  <2>. QED BY <2>1, <2>2 DEF Serve
<1>7. /\ Served(r, answer) \subseteq {answer, Request("stray", CurrentYear, NoJob)}
      /\ r.kind \notin Strays => Served(r, answer) = {answer}
  BY DEF Served
<1>8. /\ Request("stray", CurrentYear, NoJob) \in Requests
      /\ Request("stray", CurrentYear, NoJob).kind = "stray"
      /\ Request("stray", CurrentYear, NoJob).job = NoJob
  BY YearAssumption DEF Request, Requests, OtherKinds, JobIds
<1>9. Typed'
  BY <1>1, <1>5, <1>6, <1>7, <1>8 DEF Typed
<1>10. CASE ~Mounted
  <2>1. r.kind \in OtherKinds /\ page = FreshPage /\ r.kind \notin ShellKinds
    BY <1>10 DEF Consistent, Gone, OtherKinds, ShellKinds, Loads, Commands, Polls
  <2>2. \A s \in Served(r, answer) : s.kind \in OtherKinds /\ JobOfYear(s.job, s.year)
    BY <2>1, <1>5, <1>7, <1>8 DEF OtherKinds, JobOfYear
  <2>. QED BY <1>1, <1>5, <1>9, <1>10, <2>2 DEF Consistent, Gone, FreshPage
<1>11. CASE Mounted
  <2>1. Fits(page, requests)
    BY <1>11 DEF Consistent
  <2>2. CASE r.kind \notin Strays
    <3>1. requests' = (requests \ {r}) \cup {answer}
      BY <1>5, <1>7, <2>2
    <3>2. r.kind \in Polls => answer.job = r.job
      BY <1>5 DEF Polls, Serve
    <3>3. Fits(page, (requests \ {r}) \cup {answer})
      BY <2>1, <1>5, <3>2, ReplaceFits
    <3>. QED BY <1>1, <1>9, <1>11, <3>1, <3>3 DEF Consistent
  <2>3. CASE r.kind \in Strays
    <3>1. Fits(page, requests \ {r})
      BY <2>1, <2>3, DropFits DEF Strays, Loads, Commands
    <3>2. \A s \in Served(r, answer) :
            s.kind \in OtherKinds /\ JobOfYear(s.job, s.year)
      BY <2>3, <1>5, <1>7, <1>8 DEF Strays, OtherKinds, JobOfYear
    <3>3. \A s \in Served(r, answer) :
            /\ Expected(s, page)
            /\ \A t : ~Rivals(s, t) /\ ~Rivals(t, s)
      BY <3>2 DEF Expected, Rivals, OtherKinds, Showing, Loads, Commands, Polls
    <3>4. Fits(page, (requests \ {r}) \cup Served(r, answer))
      BY <3>1, <3>3 DEF Fits
    <3>. QED BY <1>1, <1>5, <1>9, <1>11, <3>4 DEF Consistent
  <2>. QED BY <2>2, <2>3
<1>. QED BY <1>10, <1>11

(* The shell is gone: what is left of its requests is not the shell's. *)
LEMMA StrayGone ==
    ASSUME Typed, NEW rs \in SUBSET requests, \A r \in requests : JobOfYear(r.job, r.year)
    PROVE  /\ Stray(rs) \subseteq Requests
           /\ \A r \in Stray(rs) : r.kind \in OtherKinds /\ JobOfYear(r.job, r.year)
<1>. SUFFICES ASSUME NEW q \in Stray(rs)
              PROVE  q \in Requests /\ q.kind \in OtherKinds /\ JobOfYear(q.job, q.year)
  OBVIOUS
<1>1. CASE q = Request("stray", CurrentYear, NoJob)
  BY <1>1, YearAssumption DEF Request, Requests, OtherKinds, JobIds, JobOfYear
<1>2. ASSUME NEW r \in requests,
             q = [r EXCEPT !.kind = StrayKind(@), !.job = NoJob,
                           !.year = IF r.kind = "ensure" THEN @ ELSE CurrentYear]
      PROVE  q \in Requests /\ q.kind \in OtherKinds /\ JobOfYear(q.job, q.year)
  <2>1. r \in Requests
    BY DEF Typed
  <2>2. StrayKind(r.kind) \in OtherKinds
    BY DEF StrayKind, OtherKinds
  <2>3. q = [kind |-> StrayKind(r.kind), job |-> NoJob, status |-> r.status,
             year |-> IF r.kind = "ensure" THEN r.year ELSE CurrentYear,
             running |-> r.running]
    BY <1>2, <2>1 DEF Requests
  <2>. QED BY <2>1, <2>2, <2>3, YearAssumption DEF Requests, JobIds, JobOfYear
<1>3. CASE q \in rs /\ q.kind \in OtherKinds
  BY <1>3 DEF Typed
<1>. QED BY <1>1, <1>2, <1>3 DEF Stray, OtherKinds

(* The tab moves to another phase. *)
LEMMA MoveToPreserves ==
    ASSUME Consistent, NEW r \in requests, NEW next, MoveTo(next, r), UNCHANGED jobs,
           Mounted => r.kind \notin Loads \cup Commands \/ next # "signed-in"
    PROVE  Consistent'
<1>1. Typed /\ \A s \in requests : JobOfYear(s.job, s.year)
  BY DEF Consistent, Fits, Gone, Expected
<1>2. FreshPage \in Page
  BY YearAssumption DEF FreshPage, Page, JobIds
<1>3. CASE next = "signed-in" /\ Mounted
  <2>1. page' = page /\ requests' = requests \ {r} /\ Mounted'
    BY <1>3 DEF MoveTo, Mounted
  <2>2. Fits(page, requests \ {r})
    BY <1>3, DropFits DEF Consistent
  <2>. QED BY <1>1, <2>1, <2>2 DEF Consistent, Typed
<1>4. CASE next = "signed-in" /\ ~Mounted
  <2>. DEFINE q == Request("season", CurrentYear, NoJob)
  <2>1. page' = FreshPage /\ requests' = (requests \ {r}) \cup {q} /\ Mounted'
    BY <1>4 DEF MoveTo, Mounted, MountRequests
  <2>2. \A s \in requests : s.kind \in OtherKinds /\ JobOfYear(s.job, s.year)
    BY <1>4 DEF Consistent, Gone
  <2>3. q \in Requests /\ q.kind = "season" /\ q.year = CurrentYear /\ q.job = NoJob
    BY YearAssumption DEF Request, Requests, ShellKinds, Loads, JobIds
  <2>4. /\ FreshPage.year = CurrentYear /\ FreshPage.loading /\ ~FreshPage.command
        /\ FreshPage.season = NoSeason
    BY DEF FreshPage
  <2>. HIDE DEF q
  <2>5. Fits(FreshPage, (requests \ {r}) \cup {q})
    <3>1. \A s \in (requests \ {r}) \cup {q} : Expected(s, FreshPage)
      BY <2>2, <2>3, <2>4
      DEF Expected, OtherKinds, Showing, Loads, Commands, Polls, JobOfYear
    <3>2. \A s, t \in (requests \ {r}) \cup {q} : Rivals(s, t) => s = t
      BY <2>2, <2>3 DEF Rivals, OtherKinds, Commands, Polls
    <3>. QED BY <3>1, <3>2, <2>3, <2>4 DEF Fits, Loads
  <2>. QED BY <1>1, <1>2, <2>1, <2>3, <2>5 DEF Consistent, Typed
<1>5. CASE next # "signed-in"
  <2>1. page' = FreshPage /\ ~Mounted'
    BY <1>5 DEF MoveTo, Mounted
  <2>2. /\ requests' \subseteq Requests
        /\ \A s \in requests' : s.kind \in OtherKinds /\ JobOfYear(s.job, s.year)
    <3>1. CASE Mounted
      BY <1>1, <1>5, <3>1, StrayGone DEF MoveTo
    <3>2. CASE ~Mounted
      BY <1>1, <1>5, <3>2 DEF MoveTo, Consistent, Gone, Typed
    <3>. QED BY <3>1, <3>2
  <2>. QED BY <1>1, <1>2, <2>1, <2>2 DEF Consistent, Typed, Gone, FreshPage
<1>. QED BY <1>3, <1>4, <1>5

(* A request of the shell is on its way only while the shell is there. *)
LEMMA ShellRequest ==
    ASSUME Consistent, NEW r \in requests, r.kind \in ShellKinds
    PROVE  /\ Mounted /\ Typed /\ Fits(page, requests) /\ page \in Page
           /\ Expected(r, page) /\ r.year \in Years
BY DEF Consistent, Gone, Fits, Expected, Typed, Requests,
       ShellKinds, OtherKinds, Loads, Commands, Polls

(* The page and its requests fit after a step of a shell that stays. *)
LEMMA StaysConsistent ==
    ASSUME Mounted, phase' = phase, jobs' = jobs, Typed,
           page' \in Page, requests' \subseteq Requests, Fits(page', requests')
    PROVE  Consistent'
BY DEF Consistent, Typed, Mounted

(* Answers to the requests whose end the page waits for. *)
LEMMA LoadArrivesPreserves ==
    ASSUME Consistent, NEW r \in requests, SeasonArrives(r) \/ ManualArrives(r)
    PROVE  Consistent'
<1>. DEFINE ended == [page EXCEPT !.loading = FALSE]
<1>1. /\ r.kind \in Loads /\ r.kind \in Showing /\ r.kind \in ShellKinds
      /\ phase' = phase /\ jobs' = jobs
  BY DEF SeasonArrives, ManualArrives, Unchanged, Loads, Showing, ShellKinds
<1>2. Mounted /\ Typed /\ Fits(page, requests) /\ page \in Page /\ Expected(r, page)
  BY <1>1, ShellRequest
<1>3. Fits(ended, requests \ {r})
  BY <1>1, <1>2, EndLoadFits
<1>4. ended \in Page /\ ended.year = page.year /\ ended.overtaken = page.overtaken
  BY <1>2 DEF Page
<1>5. ShowSeason(r, ended) \/ (page' = ended /\ requests' = requests \ {r})
  BY DEF SeasonArrives, ManualArrives
<1>. HIDE DEF ended
<1>6. page' \in Page /\ requests' \subseteq Requests /\ Fits(page', requests')
  <2>1. CASE ShowSeason(r, ended)
    BY <1>1, <1>2, <1>3, <1>4, <2>1, ShowSeasonFits
  <2>2. CASE page' = ended /\ requests' = requests \ {r}
    BY <1>2, <1>3, <1>4, <2>2 DEF Typed
  <2>. QED BY <1>5, <2>1, <2>2
<1>. QED BY <1>1, <1>2, <1>6, StaysConsistent

LEMMA CommandArrivesPreserves ==
    ASSUME Consistent, NEW r \in requests, EnsureArrives(r) \/ AfterArrives(r)
    PROVE  Consistent'
<1>1. /\ r.kind \in Commands /\ r.kind \in Showing /\ r.kind \in ShellKinds
      /\ phase' = phase /\ jobs' = jobs
  BY DEF EnsureArrives, AfterArrives, Unchanged, Commands, Showing, ShellKinds
<1>2. /\ Mounted /\ Typed /\ Fits(page, requests) /\ page \in Page
      /\ Expected(r, page) /\ r.year \in Years
  BY <1>1, ShellRequest
<1>3. Fits(CommandEnded, requests \ {r})
  BY <1>1, <1>2, EndCommandFits DEF CommandEnded
<1>4. /\ CommandEnded \in Page /\ CommandEnded.year = page.year
      /\ CommandEnded.overtaken = page.overtaken
  BY <1>2 DEF Page, CommandEnded
<1>5. CASE ShowSeason(r, CommandEnded)
  BY <1>1, <1>2, <1>3, <1>4, <1>5, ShowSeasonFits, StaysConsistent
<1>6. CASE page' = CommandEnded /\ requests' = requests \ {r}
  BY <1>1, <1>2, <1>3, <1>4, <1>6, StaysConsistent DEF Typed
<1>7. CASE EnsureArrives(r) /\ Read(r)
           /\ ~(page' = CommandEnded /\ requests' = requests \ {r})
  <2>. DEFINE polling == IF r.job = NoJob THEN page.polling ELSE r.job
              after == Request("after", r.year, NoJob)
  <2>1. page' = [page EXCEPT !.polling = polling] /\ requests' = (requests \ {r}) \cup {after}
    BY <1>7 DEF EnsureArrives
  <2>2. polling \in JobIds
    BY <1>2 DEF Typed, Requests, Page
  <2>3. after \in Requests /\ after.kind = "after" /\ after.year = r.year /\ after.job = NoJob
    BY <1>2 DEF Request, Requests, ShellKinds, Commands, JobIds
  <2>. HIDE DEF polling, after
  <2>4. /\ page' \in Page /\ page'.year = page.year /\ page'.season = page.season
        /\ page'.loading = page.loading /\ page'.command = page.command
        /\ page'.followed = page.followed /\ page'.overtaken = page.overtaken
    BY <1>2, <2>1, <2>2 DEF Page
  <2>5. Fits(page, (requests \ {r}) \cup {after})
    BY <1>1, <1>2, <2>3, ReplaceCommand
  <2>6. page'.season # NoSeason /\ ~page'.overtaken => page'.season.year = page'.year
    BY <1>2, <2>4 DEF Fits
  <2>7. Fits(page', requests')
    BY <2>1, <2>4, <2>5, <2>6, TurnFits
  <2>. QED BY <1>1, <1>2, <2>1, <2>3, <2>4, <2>7, StaysConsistent DEF Typed
<1>. QED BY <1>5, <1>6, <1>7 DEF EnsureArrives, AfterArrives

(* The poll of a job, and the request for the season it ends with. *)
LEMMA PollPreserves ==
    ASSUME Consistent, NEW r \in requests, PollArrives(r) \/ PollAgain(r)
    PROVE  Consistent'
<1>. DEFINE timer == Request("timer", r.year, r.job)
            poll  == Request("poll", r.year, r.job)
            end   == Request("end", r.year, NoJob)
<1>1. r.kind \in Polls /\ r.kind \in ShellKinds /\ phase' = phase /\ jobs' = jobs
  BY DEF PollArrives, PollAgain, Unchanged, Polls, ShellKinds
<1>2. /\ Mounted /\ Typed /\ Fits(page, requests) /\ page \in Page
      /\ r.year \in Years /\ JobOfYear(r.job, r.year)
  BY <1>1, ShellRequest DEF Expected
<1>3. timer \in Requests /\ poll \in Requests /\ end \in Requests
  BY <1>2 DEF Typed, Request, Requests, ShellKinds, Polls, JobIds
<1>4. /\ timer.kind = "timer" /\ timer.year = r.year /\ timer.job = r.job
      /\ poll.kind = "poll" /\ poll.year = r.year /\ poll.job = r.job
      /\ end.kind = "end" /\ end.year = r.year /\ end.job = NoJob
  BY DEF Request
<1>. HIDE DEF timer, poll, end
<1>5. CASE page' = page /\ requests' = (requests \ {r}) \cup {timer}
  <2>1. Fits(page, (requests \ {r}) \cup {timer})
    BY <1>1, <1>2, <1>4, ReplaceFits DEF Polls
  <2>. QED BY <1>1, <1>2, <1>3, <1>5, <2>1, StaysConsistent DEF Typed
<1>6. CASE page' = page /\ requests' = (requests \ {r}) \cup {poll}
  <2>1. Fits(page, (requests \ {r}) \cup {poll})
    BY <1>1, <1>2, <1>4, ReplaceFits DEF Polls
  <2>. QED BY <1>1, <1>2, <1>3, <1>6, <2>1, StaysConsistent DEF Typed
<1>7. CASE page' = page /\ requests' = requests \ {r}
  <2>1. Fits(page, requests \ {r})
    BY <1>1, <1>2, DropFits DEF Polls, Loads, Commands
  <2>. QED BY <1>1, <1>2, <1>7, <2>1, StaysConsistent DEF Typed
<1>8. CASE /\ page' = [page EXCEPT !.polling = NoJob, !.overtaken = @ \/ r.year # page.year]
           /\ requests' = (requests \ {r}) \cup {end}
  <2>. DEFINE overtaken == page.overtaken \/ r.year # page.year
  <2>1. page' = [page EXCEPT !.polling = NoJob, !.overtaken = overtaken]
    BY <1>2, <1>8 DEF Page
  <2>2. overtaken \in BOOLEAN /\ NoJob \in JobIds
    BY DEF JobIds
  <2>3. /\ page' \in Page /\ page'.year = page.year /\ page'.season = page.season
        /\ page'.loading = page.loading /\ page'.command = page.command
        /\ page'.followed = page.followed /\ page'.overtaken = overtaken
    <3>. HIDE DEF overtaken
    <3>. QED BY <1>2, <2>1, <2>2 DEF Page
  <2>4. \A s \in requests \ {r} : Expected(s, page')
    BY <1>2, <2>3 DEF Fits, Expected
  <2>5. Expected(end, page')
    BY <1>4, <2>3 DEF Expected, JobOfYear, Commands, Polls
  <2>6. \A s : ~Rivals(s, end) /\ ~Rivals(end, s)
    BY <1>4 DEF Rivals, Commands, Polls
  <2>7. \A s, t \in requests' : Rivals(s, t) => s = t
    BY <1>2, <1>8, <2>6 DEF Fits
  <2>8. /\ page'.loading => \E s \in requests' : s.kind \in Loads
        /\ page'.command => \E s \in requests' : s.kind \in Commands
    BY <1>1, <1>2, <1>8, <2>3 DEF Fits, Loads, Commands, Polls
  <2>9. page'.season # NoSeason /\ ~page'.overtaken => page'.season.year = page'.year
    BY <1>2, <2>3 DEF Fits
  <2>10. Fits(page', requests')
    BY <1>8, <2>4, <2>5, <2>7, <2>8, <2>9 DEF Fits
  <2>. QED BY <1>1, <1>2, <1>3, <1>8, <2>3, <2>10, StaysConsistent DEF Typed
<1>. QED BY <1>5, <1>6, <1>7, <1>8 DEF PollArrives, PollAgain, timer, poll, end

LEMMA EndPreserves ==
    ASSUME Consistent, NEW r \in requests, EndArrives(r)
    PROVE  Consistent'
<1>1. /\ r.kind = "end" /\ r.kind \in Showing /\ r.kind \in ShellKinds
      /\ phase' = phase /\ jobs' = jobs
  BY DEF EndArrives, Unchanged, Showing, ShellKinds
<1>2. Mounted /\ Typed /\ Fits(page, requests) /\ page \in Page /\ Expected(r, page)
  BY <1>1, ShellRequest
<1>3. Fits(page, requests \ {r})
  BY <1>1, <1>2, DropFits DEF Loads, Commands
<1>4. CASE ShowSeason(r, page)
  BY <1>1, <1>2, <1>3, <1>4, ShowSeasonFits, StaysConsistent
<1>5. CASE page' = page /\ requests' = requests \ {r}
  BY <1>1, <1>2, <1>3, <1>5, StaysConsistent DEF Typed
<1>. QED BY <1>4, <1>5 DEF EndArrives

LEMMA RerenderPreserves ==
    ASSUME Consistent, Rerender
    PROVE  Consistent'
<1>1. /\ Mounted /\ Typed /\ Fits(page, requests) /\ page \in Page
      /\ phase' = phase /\ jobs' = jobs /\ requests' = Following(page.polling)
  BY DEF Rerender, Consistent, Typed, Unchanged
<1>2. /\ page' \in Page /\ page'.year = page.year /\ page'.season = page.season
      /\ page'.loading = page.loading /\ page'.command = page.command
      /\ page'.overtaken = page.overtaken /\ page'.followed = page.polling
      /\ page.polling \in JobIds
  BY <1>1 DEF Rerender, Page
<1>3. requests' \subseteq Requests /\ Fits(page', requests')
  BY <1>1, <1>2, FollowingFits
<1>. QED BY <1>1, <1>2, <1>3, StaysConsistent

(* The operator's commands in the shell. *)
LEMMA ListPreserves ==
    ASSUME Consistent, OpenList \/ CloseList
    PROVE  Consistent'
<1>1. /\ Mounted /\ Typed /\ Fits(page, requests) /\ page \in Page
      /\ phase' = phase /\ jobs' = jobs /\ requests' = requests
  BY DEF OpenList, CloseList, Consistent, Typed, Unchanged
<1>2. /\ page' \in Page /\ page'.year = page.year /\ page'.season = page.season
      /\ page'.loading = page.loading /\ page'.command = page.command
      /\ page'.followed = page.followed /\ page'.overtaken = page.overtaken
  BY <1>1 DEF OpenList, CloseList, Page
<1>3. page'.season # NoSeason /\ ~page'.overtaken => page'.season.year = page'.year
  BY <1>1, <1>2 DEF Fits
<1>4. Fits(page', requests')
  BY <1>1, <1>2, <1>3, TurnFits
<1>. QED BY <1>1, <1>2, <1>4, StaysConsistent DEF Typed

LEMMA SelectYearPreserves ==
    ASSUME Consistent, NEW y \in Years, SelectYear(y)
    PROVE  Consistent'
<1>. DEFINE first == Request("season", y, NoJob)
            kept  == Aborted({"season"})
            overtaken == Overtaking(y) # {}
<1>1. /\ Mounted /\ Typed /\ Fits(page, requests) /\ page \in Page
      /\ phase' = phase /\ jobs' = jobs /\ requests' = kept \cup {first}
  BY DEF SelectYear, Act, Consistent, Typed
<1>2. page' = [year |-> y, season |-> NoSeason, loading |-> TRUE,
               command |-> page.command, polling |-> NoJob, followed |-> page.followed,
               open |-> FALSE, overtaken |-> overtaken]
  BY DEF SelectYear, FreshPage
<1>3. overtaken \in BOOLEAN /\ page.command \in BOOLEAN /\ page.followed \in JobIds
  BY <1>1 DEF Page
<1>4. first \in Requests /\ first.kind = "season" /\ first.year = y /\ first.job = NoJob
  BY DEF Request, Requests, ShellKinds, Loads, JobIds
<1>5. \A s \in kept : s \in requests /\ s.kind # "season" /\ s \in Requests
  BY <1>1 DEF Aborted, Typed
<1>6. \A s \in kept : s.kind \in Showing /\ ~overtaken => s.year = y
  BY <1>5 DEF Overtaking, Showing, Loads, Commands
<1>7. page.command => \E s \in kept : s.kind \in Commands
  BY <1>1 DEF Fits, Aborted, Commands
<1>. HIDE DEF first, kept, overtaken
<1>8. page' \in Page
  BY <1>2, <1>3 DEF Page, JobIds
<1>9. \A s \in requests' : Expected(s, page')
  <2>1. \A s \in kept : Expected(s, page')
    BY <1>1, <1>2, <1>5, <1>6 DEF Fits, Expected
  <2>2. Expected(first, page')
    BY <1>2, <1>4 DEF Expected, JobOfYear, Commands, Polls
  <2>. QED BY <1>1, <2>1, <2>2
<1>10. \A s, t \in requests' : Rivals(s, t) => s = t
  BY <1>1, <1>4, <1>5 DEF Fits, Rivals, Commands, Polls
<1>11. /\ page'.loading => \E s \in requests' : s.kind \in Loads
       /\ page'.command => \E s \in requests' : s.kind \in Commands
  BY <1>1, <1>2, <1>4, <1>7 DEF Loads
<1>12. Fits(page', requests')
  BY <1>2, <1>9, <1>10, <1>11 DEF Fits
<1>13. requests' \subseteq Requests
  BY <1>1, <1>4, <1>5
<1>. QED BY <1>1, <1>8, <1>12, <1>13, StaysConsistent

LEMMA BackfillPreserves ==
    ASSUME Consistent, Backfill
    PROVE  Consistent'
<1>. DEFINE q == Request("ensure", page.year, NoJob)
<1>1. /\ Mounted /\ Typed /\ page \in Page /\ Fits(page, requests) /\ ~page.command
      /\ phase' = phase /\ jobs' = jobs /\ requests' = requests \cup {q}
  BY DEF Backfill, Act, Consistent, Typed
<1>2. /\ page' \in Page /\ page'.year = page.year /\ page'.season = page.season
      /\ page'.loading = page.loading /\ page'.command = TRUE
      /\ page'.followed = page.followed /\ page'.overtaken = page.overtaken
  BY <1>1 DEF Backfill, Page
<1>3. q \in Requests /\ q.kind = "ensure" /\ q.year = page.year /\ q.job = NoJob
  BY <1>1 DEF Request, Requests, Page, ShellKinds, Commands, JobIds
<1>. HIDE DEF q
<1>4. \A s \in requests : s.kind \notin Commands
  BY <1>1 DEF Fits, Expected
<1>5. \A s \in requests' : Expected(s, page')
  BY <1>1, <1>2, <1>3 DEF Fits, Expected, JobOfYear, Showing, Commands, Polls
<1>6. \A s, t \in requests' : Rivals(s, t) => s = t
  BY <1>1, <1>3, <1>4 DEF Fits, Rivals, Loads, Commands, Polls
<1>7. Fits(page', requests')
  BY <1>1, <1>2, <1>3, <1>5, <1>6 DEF Fits, Commands
<1>. QED BY <1>1, <1>2, <1>3, <1>7, StaysConsistent DEF Typed

LEMMA RefreshPreserves ==
    ASSUME Consistent, Refresh
    PROVE  Consistent'
<1>. DEFINE q == Request("manual", page.year, NoJob)
<1>1. /\ Mounted /\ Typed /\ page \in Page /\ Fits(page, requests) /\ ~page.loading
      /\ phase' = phase /\ jobs' = jobs /\ requests' = requests \cup {q}
  BY DEF Refresh, Act, Consistent, Typed
<1>2. /\ page' \in Page /\ page'.year = page.year /\ page'.season = page.season
      /\ page'.loading = TRUE /\ page'.command = page.command
      /\ page'.followed = page.followed /\ page'.overtaken = page.overtaken
  BY <1>1 DEF Refresh, Page
<1>3. q \in Requests /\ q.kind = "manual" /\ q.year = page.year /\ q.job = NoJob
  BY <1>1 DEF Request, Requests, Page, ShellKinds, Loads, JobIds
<1>. HIDE DEF q
<1>4. \A s \in requests' : Expected(s, page')
  BY <1>1, <1>2, <1>3 DEF Fits, Expected, JobOfYear, Showing, Commands, Polls
<1>5. \A s, t \in requests' : Rivals(s, t) => s = t
  BY <1>1, <1>3 DEF Fits, Rivals, Commands, Polls
<1>6. Fits(page', requests')
  BY <1>1, <1>2, <1>3, <1>4, <1>5 DEF Fits, Loads
<1>. QED BY <1>1, <1>2, <1>3, <1>6, StaysConsistent DEF Typed

(* The gate without an answer: it asks again, and it sends the operator away. *)
LEMMA CheckSent ==
    ASSUME Consistent, UNCHANGED <<jobs, phase, page>>,
           requests' = requests \cup {Request("check", CurrentYear, NoJob)}
    PROVE  Consistent'
<1>. DEFINE q == Request("check", CurrentYear, NoJob)
<1>1. q \in Requests /\ q.kind = "check" /\ q.job = NoJob
  BY YearAssumption DEF Request, Requests, OtherKinds, JobIds
<1>2. Typed' /\ Mounted' = Mounted
  BY <1>1 DEF Consistent, Typed, Mounted
<1>3. CASE Mounted
  <2>1. Expected(q, page) /\ q.kind \notin Commands \cup Polls
    BY <1>1 DEF Expected, JobOfYear, Showing, Loads, Commands, Polls
  <2>2. Fits(page, requests \cup {q})
    BY <1>3, <2>1, SendFits DEF Consistent
  <2>. QED BY <1>2, <1>3, <2>2 DEF Consistent
<1>4. CASE ~Mounted
  <2>1. q.kind \in OtherKinds /\ JobOfYear(q.job, q.year)
    BY <1>1 DEF OtherKinds, JobOfYear
  <2>. HIDE DEF q
  <2>2. requests' = requests \cup {q}
    BY DEF q
  <2>. QED BY <1>2, <1>4, <2>1, <2>2 DEF Consistent, Gone, FreshPage
<1>. QED BY <1>3, <1>4

LEMMA SentAway ==
    ASSUME Consistent, jobs' = jobs, phase' # "signed-in", page' = FreshPage,
           \/ requests' = Stray(requests)
           \/ requests' = {Request("check", CurrentYear, NoJob)}
           \/ ~Mounted /\ requests' = requests \cup {Request("check", CurrentYear, NoJob)}
    PROVE  Consistent'
<1>. DEFINE q == Request("check", CurrentYear, NoJob)
<1>1. q \in Requests /\ q.kind \in OtherKinds /\ JobOfYear(q.job, q.year)
  BY YearAssumption DEF Request, Requests, OtherKinds, JobIds, JobOfYear
<1>2. Typed /\ \A s \in requests : JobOfYear(s.job, s.year)
  BY DEF Consistent, Fits, Gone, Expected
<1>3. page' \in Page
  BY YearAssumption DEF FreshPage, Page, JobIds
<1>. HIDE DEF q
<1>4. /\ requests' \subseteq Requests
      /\ \A s \in requests' : s.kind \in OtherKinds /\ JobOfYear(s.job, s.year)
  <2>1. CASE requests' = Stray(requests)
    BY <1>2, <2>1, StrayGone
  <2>2. CASE requests' = {q}
    BY <1>1, <2>2
  <2>3. CASE ~Mounted /\ requests' = requests \cup {q}
    BY <1>1, <1>2, <2>3 DEF Typed, Consistent, Gone
  <2>. QED BY <2>1, <2>2, <2>3 DEF q
<1>. QED BY <1>2, <1>3, <1>4 DEF Consistent, Typed, Gone, Mounted, FreshPage

LEMMA UserPreserves ==
    ASSUME Consistent, User
    PROVE  Consistent'
<1>1. CASE TryAgain
  <2>1. ~Mounted /\ page = FreshPage
    BY <1>1 DEF TryAgain, Mounted, Consistent, Gone
  <2>. QED BY <1>1, <2>1, SentAway DEF TryAgain
<1>2. CASE SubmitRight
  BY <1>2, CheckSent DEF SubmitRight
<1>3. CASE SubmitWrong
  BY <1>3 DEF SubmitWrong, shellVars, Consistent, Typed, Gone, Mounted, FreshPage
<1>4. CASE SignOut
  BY <1>4, SentAway DEF SignOut
<1>5. CASE \E y \in Years : SelectYear(y)
  BY <1>5, SelectYearPreserves
<1>. QED
  BY <1>1, <1>2, <1>3, <1>4, <1>5, ListPreserves, BackfillPreserves, RefreshPreserves
  DEF User

LEMMA ArrivesPreserves ==
    ASSUME Consistent, NEW r \in requests, Arrives(r)
    PROVE  Consistent'
<1>1. CASE CheckArrives(r)
  BY <1>1, MoveToPreserves DEF CheckArrives, Unchanged, Loads, Commands
<1>2. CASE Unauthorized(r)
  BY <1>2, MoveToPreserves DEF Unauthorized, Unchanged
<1>. QED
  BY <1>1, <1>2, LoadArrivesPreserves, CommandArrivesPreserves, PollPreserves, EndPreserves
  DEF Arrives

(* The backend by itself, the clock, and a stray that no one waits for. *)
LEMMA OthersPreserve ==
    ASSUME Consistent,
           \/ Tick /\ UNCHANGED shellVars
           \/ StartJob
           \/ \E y \in Years : EndJob(y)
           \/ \E r \in requests : StrayLost(r)
           \/ BudgetRefused
           \/ UNCHANGED vars
    PROVE  Consistent'
<1>1. CASE UNCHANGED shellVars
  BY <1>1 DEF shellVars, Consistent, Typed, Gone, Mounted, FreshPage
<1>2. CASE StartJob \/ \E y \in Years : EndJob(y)
  <2>1. jobs' \in [Years -> [number : Nat, active : BOOLEAN]]
    <3>1. CASE StartJob
      BY <3>1, YearAssumption DEF StartJob, Consistent, Typed
    <3>2. ASSUME NEW y \in Years, EndJob(y)
          PROVE  jobs' \in [Years -> [number : Nat, active : BOOLEAN]]
      BY <3>2 DEF EndJob, Consistent, Typed
    <3>. QED BY <1>2, <3>1, <3>2
  <2>2. UNCHANGED <<phase, page, requests>>
    BY <1>2 DEF StartJob, EndJob
  <2>. QED BY <2>1, <2>2 DEF Consistent, Typed, Gone, Mounted, FreshPage
<1>3. ASSUME NEW r \in requests, StrayLost(r)
      PROVE  Consistent'
  <2>1. /\ UNCHANGED <<jobs, phase, page>> /\ requests' = requests \ {r}
        /\ r.kind \notin Loads \cup Commands
    BY <1>3 DEF StrayLost, Strays, Loads, Commands
  <2>2. Mounted => Fits(page, requests \ {r})
    BY <2>1, DropFits DEF Consistent
  <2>. QED BY <2>1, <2>2 DEF Consistent, Typed, Gone, Mounted, FreshPage
<1>4. CASE BudgetRefused
  BY <1>4, SentAway DEF BudgetRefused, Unchanged
<1>. QED BY <1>1, <1>2, <1>3, <1>4 DEF vars

LEMMA InitConsistent == Init => Consistent
<1>. SUFFICES ASSUME Init PROVE Consistent
  OBVIOUS
<1>. DEFINE q == Request("check", CurrentYear, NoJob)
<1>1. q \in Requests /\ q.kind \in OtherKinds /\ JobOfYear(q.job, q.year)
  BY YearAssumption DEF Request, Requests, OtherKinds, JobIds, JobOfYear
<1>2. page \in Page /\ page = FreshPage /\ ~Mounted /\ requests = {q}
  BY YearAssumption DEF Init, FreshPage, Page, JobIds, Mounted
<1>3. jobs \in [Years -> [number : Nat, active : BOOLEAN]]
  BY DEF Init
<1>. HIDE DEF q
<1>. QED BY <1>1, <1>2, <1>3 DEF Consistent, Typed, Gone

LEMMA StepConsistent == Consistent /\ [Next]_vars => Consistent'
<1>. SUFFICES ASSUME Consistent, [Next]_vars PROVE Consistent'
  OBVIOUS
<1>1. ASSUME NEW r \in requests, Serve(r) \/ StrayLost(r) \/ Arrives(r)
      PROVE  Consistent'
  BY <1>1, ServePreserves, ArrivesPreserves, OthersPreserve
<1>2. CASE User
  BY <1>2, UserPreserves
<1>3. CASE Rerender
  BY <1>3, RerenderPreserves
<1>. QED BY <1>1, <1>2, <1>3, OthersPreserve DEF Next

LEMMA AlwaysConsistent == Spec => []Consistent
BY InitConsistent, StepConsistent, PTL DEF Spec

(* App: the season on the screen is the selected one, whichever requests of   *)
(* seasons, commands and polls are late, lost or answered out of order, unless *)
(* one that is not aborted was on its way when the year was selected.         *)
THEOREM ShowsItsSeason == Spec => []OwnSeason
<1>1. Consistent => OwnSeason
  BY DEF Consistent, Fits, Gone, FreshPage, OwnSeason
<1>. QED BY <1>1, AlwaysConsistent, PTL

(* App: at most one poll or timer is on its way, and of the job whose effect  *)
(* is in force.                                                               *)
THEOREM FollowsOneJob == Spec => []OnePoller
<1>1. ASSUME Consistent
      PROVE  OnePoller
  <2>. DEFINE polls == {r \in requests : r.kind \in {"poll", "timer"}}
  <2>1. \A r \in polls : r.job = page.followed
    BY <1>1 DEF Consistent, Fits, Expected, Gone, OtherKinds, Polls
  <2>2. \A r, s \in polls : r = s
    BY <1>1 DEF Consistent, Fits, Rivals, Gone, OtherKinds, Polls
  <2>3. Cardinality(polls) <= 1
    <3>. HIDE DEF polls
    <3>1. CASE polls = {}
      BY <3>1, FS_EmptySet
    <3>2. CASE polls # {}
      <4>1. PICK r : polls = {r}
        BY <3>2, <2>2
      <4>. QED BY <4>1, FS_Singleton
    <3>. QED BY <3>1, <3>2
  <2>. QED BY <2>1, <2>3 DEF OnePoller
<1>. QED BY <1>1, AlwaysConsistent, PTL

(* App: a page that is loading, or whose command is pending, waits for a      *)
(* request that is still on its way.                                          *)
THEOREM ControlsReturn == Spec => []ControlsComeBack
<1>1. Consistent => ControlsComeBack
  BY DEF Consistent, Fits, ControlsComeBack, Loads, Commands
<1>. QED BY <1>1, AlwaysConsistent, PTL
================================================================================
