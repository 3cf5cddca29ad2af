----------------------------- MODULE DashboardShell -----------------------------
(***************************************************************************)
(* The dashboard in one browser tab: the gate in front of it               *)
(* (frontend/src/AuthGate.tsx), and the shell behind it (App.tsx), which   *)
(* loads the selected season, polls its active job, sends the backfill     *)
(* command and refreshes on demand, over the requests of api.ts.           *)
(*                                                                         *)
(* A request is served and its answer arrives in two steps, and answers of *)
(* different requests arrive in any order; it may also fail. A request of  *)
(* an effect is aborted by the effect's cleanup and never arrives; those   *)
(* of the two buttons carry no signal and always do, also after the shell  *)
(* is gone ("stray"). A 401 to any of them ends the tab's session.         *)
(*                                                                         *)
(* The backend is SignIn and, for each season, a job that runs and ends.   *)
(***************************************************************************)
EXTENDS SignIn, FiniteSets

CONSTANTS Years, CurrentYear,
          NoJob, NoSeason,
          MaxJobs,       \* bound: jobs of one season
          MaxActs        \* bound: seasons selected, commands and refreshes

ASSUME YearAssumption == CurrentYear \in Years

VARIABLES jobs,        \* backend: the newest job of each season
          phase,       \* AuthGate
          page,        \* App: what its state hooks hold
          requests,    \* requests on their way, and the timer of the job poll
          acts         \* bound

shellVars == <<jobs, phase, page, requests, acts>>
vars == <<signInVars, shellVars>>

\* What the hooks hold of a year no request has answered for yet: "polling" is
\* the id of the job to poll, "followed" the one whose effect is in force, "open"
\* the list of seasons. "overtaken" is history: what could not be aborted when the
\* year was selected may still show another one.
FreshPage == [year |-> CurrentYear, season |-> NoSeason, loading |-> TRUE,
              command |-> FALSE, polling |-> NoJob, followed |-> NoJob,
              open |-> FALSE, overtaken |-> FALSE]

Request(kind, year, job) ==
  [kind |-> kind, year |-> year, job |-> job, status |-> "sent", running |-> FALSE]

\* The requests of App's effects, each ended by its effect's cleanup: the
\* season, the poll of a job with its timer and its final refresh.
PollKinds == {"poll", "timer", "end"}
EffectKinds == PollKinds \cup {"season"}

\* Mutant: the cleanup aborts nothing.
AbortNothing(kinds) == requests

\* What is left after the cleanups of some effects.
Aborted(kinds) == {r \in requests : r.kind \notin kinds}

Mounted == phase = "signed-in"

\* The shell is mounted anew: the current season is requested.
MountRequests == {Request("season", CurrentYear, NoJob)}

\* The shell is gone: its effects' requests are aborted. Its commands' go on as
\* strays: an answer that would only set state is lost on a shell that is gone,
\* so all that is left of it is a refusal; but an accepted command still asks for
\* the season.
StrayKind(kind) == IF kind = "ensure" THEN "stray-ensure" ELSE "stray"
Stray(rs) ==
  {Request("stray", CurrentYear, NoJob) : r \in {s \in rs : s.kind = "ensure" /\ s.status = "ok"}}
  \cup {[r EXCEPT !.kind = StrayKind(@), !.job = NoJob,
                   !.year = IF r.kind = "ensure" THEN @ ELSE CurrentYear] :
          r \in {s \in rs : s.kind \in {"ensure", "after", "manual"}
                             /\ s.status \in {"sent", "refused"}}}
  \cup {r \in rs : r.kind \in {"check", "stray", "stray-ensure"}}

Init ==
  /\ SignInInit
  /\ jobs = [y \in Years |-> [number |-> 0, active |-> FALSE]]
  /\ phase = "checking" /\ page = FreshPage
  /\ requests = {Request("check", CurrentYear, NoJob)}
  /\ acts = 0

--------------------------------------------------------------------------------
(* The backend *)

ActiveJob(y) == IF jobs[y].active THEN <<y, jobs[y].number>> ELSE NoJob

\* The worker plans the current season by itself; other seasons get a job only
\* from the command.
StartJob ==
  /\ ~jobs[CurrentYear].active /\ jobs[CurrentYear].number < MaxJobs
  /\ jobs' = [jobs EXCEPT ![CurrentYear] = [number |-> @.number + 1, active |-> TRUE]]
  /\ UNCHANGED <<signInVars, phase, page, requests, acts>>

EndJob(y) ==
  /\ jobs[y].active
  /\ jobs' = [jobs EXCEPT ![y].active = FALSE]
  /\ UNCHANGED <<signInVars, phase, page, requests, acts>>

\* What a served request brings back: the session check its answer, a season its
\* active job, a job whether it still runs, a command the job it reused or created.
Granted(r, job, running) ==
  [kind |-> r.kind, year |-> r.year, job |-> job, status |-> "ok", running |-> running]

Answer(r) ==
  CASE r.kind = "check" -> Granted(r, NoJob, Authenticated)
    [] r.kind # "check" /\ ~Authenticated -> [r EXCEPT !.status = "refused"]
    [] r.kind = "poll" /\ Authenticated -> Granted(r, r.job, ActiveJob(r.year) = r.job)
    [] r.kind \notin {"check", "poll"} /\ Authenticated -> Granted(r, ActiveJob(r.year), FALSE)

Strays == {"stray", "stray-ensure"}

\* What is on its way once r is served: its answer, or for a stray what follows.
Served(r, answer) ==
  IF r.kind \notin Strays \/ answer.status = "refused" THEN {answer}
  ELSE IF r.kind = "stray-ensure" THEN {Request("stray", CurrentYear, NoJob)} ELSE {}

\* The command creates a job when sessions are due and none is active.
Creates(r) ==
  /\ r.kind \in {"ensure", "stray-ensure"} /\ Authenticated
  /\ ~jobs[r.year].active /\ jobs[r.year].number < MaxJobs

Serve(r) ==
  /\ r.status = "sent" /\ r.kind # "timer"
  /\ r.kind \in EffectKinds => Authenticated
  /\ \/ /\ requests' = (requests \ {r}) \cup Served(r, Answer(r))
        /\ UNCHANGED jobs
     \/ /\ Creates(r)
        /\ LET number == jobs[r.year].number + 1
               created == Granted(r, <<r.year, number>>, FALSE)
           IN /\ jobs' = [jobs EXCEPT ![r.year] = [number |-> number, active |-> TRUE]]
              /\ requests' = (requests \ {r}) \cup Served(r, created)
  /\ UNCHANGED <<signInVars, phase, page, acts>>

\* A request that is not answered, or whose answer is lost, arrives as a failure.
Lost(r) == r.status \in {"sent", "ok"}
Read(r) == r.status = "ok"

\* A stray that fails is not noticed by anyone.
StrayLost(r) ==
  /\ r.kind \in Strays /\ r.status = "sent"
  /\ requests' = requests \ {r}
  /\ UNCHANGED <<signInVars, jobs, phase, page, acts>>

--------------------------------------------------------------------------------
(* AuthGate *)

\* The tab moves to a phase, with what is on its way besides the answer r.
MoveTo(next, r) ==
  /\ phase' = next
  /\ IF next = "signed-in"
       THEN IF Mounted THEN page' = page /\ requests' = requests \ {r}
            ELSE page' = FreshPage /\ requests' = (requests \ {r}) \cup MountRequests
       ELSE /\ page' = FreshPage
            /\ requests' = IF Mounted THEN Stray(requests \ {r}) ELSE requests \ {r}

Unchanged == UNCHANGED <<signInVars, jobs, acts>>

\* The user does something more with the shell.
Act ==
  /\ Mounted
  /\ acts < MaxActs /\ acts' = acts + 1
  /\ UNCHANGED <<signInVars, jobs, phase>>

\* check: the answer, or "unreachable" when there is none.
CheckArrives(r) ==
  /\ r.kind = "check"
  /\ \/ Read(r) /\ MoveTo(IF r.running THEN "signed-in" ELSE "signed-out", r)
     \/ Lost(r) /\ MoveTo("unreachable", r)
  /\ Unchanged

\* api.ts: a 401 to any request tells the gate. An effect's is served and read
\* in one step: no other can be read after it, only strays are.
Unauthorized(r) ==
  /\ \/ r.status = "refused"
     \/ r.kind \in EffectKinds \ {"timer"} /\ r.status = "sent" /\ ~Authenticated
  /\ MoveTo("signed-out", r)
  /\ Unchanged

\* App.pollBudget asks every five seconds, whatever it was told: of its answers
\* only the refusal changes anything here.
BudgetRefused ==
  /\ Mounted /\ ~Authenticated
  /\ phase' = "signed-out" /\ page' = FreshPage
  /\ requests' = Stray(requests)
  /\ Unchanged

TryAgain ==
  /\ phase = "unreachable"
  /\ phase' = "checking"
  /\ requests' = requests \cup {Request("check", CurrentYear, NoJob)}
  /\ UNCHANGED <<signInVars, jobs, page, acts>>

\* SignInScreen.handleSubmit: an accepted password is followed by a check.
SubmitRight ==
  /\ phase = "signed-out"
  /\ RightPassword
  /\ requests' = requests \cup {Request("check", CurrentYear, NoJob)}
  /\ UNCHANGED <<jobs, phase, page, acts>>

\* The limiter knows no client: wrong passwords of anyone are told apart by
\* nothing but their time. They are sent while this tab waits for one.
SubmitWrong ==
  /\ phase = "signed-out" /\ requests = {}
  /\ WrongPassword
  /\ UNCHANGED shellVars

\* App.handleSignOut: the cookie is deleted and the tab is loaded anew.
SignOut ==
  /\ Mounted
  /\ Logout
  /\ phase' = "checking" /\ page' = FreshPage
  /\ requests' = {Request("check", CurrentYear, NoJob)}
  /\ UNCHANGED <<jobs, acts>>

--------------------------------------------------------------------------------
(* App *)

\* The effect of pollingJobId begins with a poll of the job.
PollOf(job) == IF job = NoJob THEN {} ELSE {Request("poll", job[1], job)}

\* Mutant: the job polled before goes on being polled.
PolledAsWell(job) == requests \cup PollOf(job)

\* What is on its way once the effect of another id is in force: its cleanup has
\* aborted what the one before had requested.
Following(job) == Aborted(PollKinds) \cup PollOf(job)

\* A render after the id has changed. Other steps may come between.
Rerender ==
  /\ Mounted /\ page.polling # page.followed
  /\ page' = [page EXCEPT !.followed = page.polling]
  /\ requests' = Following(page.polling)
  /\ UNCHANGED phase /\ Unchanged

\* refreshSeason: the season is shown, and its active job is the one to poll.
ShowSeason(r, shown) ==
  /\ page' = [shown EXCEPT !.season = [year |-> r.year, job |-> r.job], !.polling = r.job]
  /\ requests' = requests \ {r}

\* SeasonSelect: its trigger opens the list unless it is disabled. An open list
\* takes a year whatever has been begun since; only a pointer elsewhere closes it.
OpenList ==
  /\ Mounted /\ ~page.open
  /\ ~page.command /\ ~page.loading
  /\ acts < MaxActs
  /\ page' = [page EXCEPT !.open = TRUE]
  /\ UNCHANGED <<phase, requests>> /\ Unchanged

CloseList ==
  /\ Mounted /\ page.open
  /\ page' = [page EXCEPT !.open = FALSE]
  /\ UNCHANGED <<phase, requests>> /\ Unchanged

\* Requests that may show another year, and that selecting y does not abort.
Overtaking(y) ==
  {r \in requests : r.kind \in {"ensure", "after", "manual", "end"} /\ r.year # y}

\* The effect of selectedYear: its cleanup aborts the request for the season
\* before, what is shown is dropped and the season is requested. The job's id is
\* cleared too; its own cleanup is the next render's.
SelectYear(y) ==
  /\ Act
  /\ page.open /\ y # page.year
  /\ page' = [FreshPage EXCEPT !.year = y, !.command = page.command,
                               !.followed = page.followed,
                               !.overtaken = Overtaking(y) # {}]
  /\ requests' = Aborted({"season"}) \cup {Request("season", y, NoJob)}

SeasonArrives(r) ==
  /\ r.kind = "season"
  /\ LET ended == [page EXCEPT !.loading = FALSE]
     IN \/ Read(r) /\ ShowSeason(r, ended)
        \/ Lost(r) /\ page' = ended /\ requests' = requests \ {r}
  /\ UNCHANGED phase /\ Unchanged

\* pollJob: a running job is polled again after a while; an ended one is no
\* longer polled and its season is requested, also when another one has been
\* selected and the cleanup is due; a failed poll is the last.
PollArrives(r) ==
  /\ r.kind = "poll"
  /\ \/ /\ Read(r) /\ r.running
        /\ requests' = (requests \ {r}) \cup {Request("timer", r.year, r.job)}
        /\ UNCHANGED page
     \/ /\ Read(r) /\ ~r.running
        /\ page' = [page EXCEPT !.polling = NoJob,
                                !.overtaken = @ \/ r.year # page.year]
        /\ requests' = (requests \ {r}) \cup {Request("end", r.year, NoJob)}
     \/ /\ Lost(r)
        /\ requests' = requests \ {r}
        /\ UNCHANGED page
  /\ UNCHANGED phase /\ Unchanged

PollAgain(r) ==
  /\ r.kind = "timer"
  /\ requests' = (requests \ {r}) \cup {Request("poll", r.year, r.job)}
  /\ UNCHANGED <<page, phase>> /\ Unchanged

\* The request for the season of an ended job has the signal of the effect whose
\* id pollJob has cleared: the next render aborts it unless it is answered first.
EndArrives(r) ==
  /\ r.kind = "end"
  /\ \/ Read(r) /\ ShowSeason(r, page)
     \/ Lost(r) /\ page' = page /\ requests' = requests \ {r}
  /\ UNCHANGED phase /\ Unchanged

\* Mutant: a failed command stays pending.
CommandKept == page

\* The command is over, whether it succeeded or not.
CommandEnded == [page EXCEPT !.command = FALSE]

\* handleBackfill: the command, then the season without a signal.
Backfill ==
  /\ Act
  /\ ~page.command /\ ~page.loading
  /\ page' = [page EXCEPT !.command = TRUE]
  /\ requests' = requests \cup {Request("ensure", page.year, NoJob)}

EnsureArrives(r) ==
  /\ r.kind = "ensure"
  /\ \/ /\ Read(r)
        /\ page' = [page EXCEPT !.polling = IF r.job = NoJob THEN @ ELSE r.job]
        /\ requests' = (requests \ {r}) \cup {Request("after", r.year, NoJob)}
     \/ /\ Lost(r)
        /\ page' = CommandEnded
        /\ requests' = requests \ {r}
  /\ UNCHANGED phase /\ Unchanged

AfterArrives(r) ==
  /\ r.kind = "after"
  /\ \/ Read(r) /\ ShowSeason(r, CommandEnded)
     \/ Lost(r) /\ page' = CommandEnded /\ requests' = requests \ {r}
  /\ UNCHANGED phase /\ Unchanged

\* handleRefresh: the season without a signal. Two requests for one year, with a
\* selection of another between them, are one here.
Refresh ==
  /\ Act
  /\ ~page.loading
  /\ page' = [page EXCEPT !.loading = TRUE]
  /\ requests' = requests \cup {Request("manual", page.year, NoJob)}

ManualArrives(r) ==
  /\ r.kind = "manual"
  /\ LET ended == [page EXCEPT !.loading = FALSE]
     IN \/ Read(r) /\ ShowSeason(r, ended)
        \/ Lost(r) /\ page' = ended /\ requests' = requests \ {r}
  /\ UNCHANGED phase /\ Unchanged

--------------------------------------------------------------------------------
Arrives(r) ==
  \/ CheckArrives(r) \/ Unauthorized(r)
  \/ SeasonArrives(r) \/ PollArrives(r) \/ PollAgain(r) \/ EndArrives(r)
  \/ EnsureArrives(r) \/ AfterArrives(r) \/ ManualArrives(r)

User ==
  \/ TryAgain \/ SubmitRight \/ SubmitWrong \/ SignOut
  \/ OpenList \/ CloseList
  \/ \E y \in Years : SelectYear(y)
  \/ Backfill \/ Refresh

Next ==
  \/ Tick /\ UNCHANGED shellVars
  \/ StartJob
  \/ \E y \in Years : EndJob(y)
  \/ \E r \in requests : Serve(r) \/ StrayLost(r) \/ Arrives(r)
  \/ User
  \/ BudgetRefused
  \/ Rerender

Spec == Init /\ [][Next]_vars

--------------------------------------------------------------------------------
(* Properties *)

\* The season on the screen is the selected one: no late answer to a request for
\* another season, to a command or to a poll replaces it. The exception is a year
\* that is selected in a list opened before the command or the refresh, or just as
\* a poll finds its job ended: what these ask for is not aborted (App.tsx).
OwnSeason ==
  page.season # NoSeason /\ ~page.overtaken => page.season.year = page.year

\* The same without the exception.
AlwaysOwnSeason == page.season # NoSeason => page.season.year = page.year

\* A job is followed once: at most one poll or timer, and of the job whose effect
\* is in force, whatever set the id and however often before the next render (the
\* season, the command, a late refresh, the selection of another season).
OnePoller ==
  LET polls == {r \in requests : r.kind \in {"poll", "timer"}}
  IN Cardinality(polls) <= 1 /\ \A r \in polls : r.job = page.followed

\* The select and the buttons wait for something that is still on its way: no
\* cleanup, selection or lapse leaves the page loading, or its command pending,
\* with nothing to end it.
ControlsComeBack ==
  Mounted =>
    /\ page.loading => \E r \in requests : r.kind \in {"season", "manual"}
    /\ page.command => \E r \in requests : r.kind \in {"ensure", "after"}

\* A page that shows a job as active follows it, or is about to be replaced.
EndNoticed ==
  Mounted /\ page.season # NoSeason /\ page.season.job # NoJob =>
    \/ page.polling = page.season.job
    \/ \E r \in requests : r.kind \in {"end", "ensure", "after", "manual"}

\* A followed job is polled.
FollowedIsPolled ==
  Mounted /\ page.followed # NoJob => \E r \in requests : r.kind \in {"poll", "timer"}
================================================================================
