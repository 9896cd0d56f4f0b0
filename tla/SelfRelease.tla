----------------------------- MODULE SelfRelease -----------------------------
(***************************************************************************)
(* The release of a repair: self-heal's controller (scripts/self-heal.mjs, *)
(* self-heal-release.mjs, self-heal-io.mjs) takes a commit that a repair   *)
(* worker validated in a worktree (self-heal-repair.mjs), builds it frozen *)
(* (publish-job-release.mjs), fast-forwards the main branch, switches the  *)
(* API (local-api.mjs), moves the pointer that new jobs read, and replaces *)
(* the runner once that is idle.  Every phase is journalled in deploy.json;*)
(* the controller may die between any two steps and is started again.      *)
(***************************************************************************)
EXTENDS Integers, Sequences, FiniteSets

CONSTANTS
    NJobs,      \* repairs, one after the other; job j commits and releases j
    MaxCrashes, \* bound: deaths of the controller
    MaxDeaths,  \* bound: deaths of the API and of the runner by themselves
    MaxEdits,   \* bound: changes a person makes to the main working tree
    MaxTroubles \* bound: all of these together

Jobs == 1 .. NJobs
Releases == 0 .. NJobs          \* 0 is what runs before the first repair

ASSUME SelfReleaseAssumption ==
    /\ NJobs \in Nat \ {0}
    /\ {MaxCrashes, MaxDeaths, MaxEdits, MaxTroubles} \subseteq Nat

VARIABLES
    main,     \* the commits of the main branch; a person's are above NJobs
    edited,   \* whether the main working tree has uncommitted changes
    repair,   \* job.json of each job: its state and baseCommit
    held,     \* state.activeJob, 0 for none
    deploy,   \* deploy.json
    frozen,   \* of each job the releases/jobs-<commit> directory
    built,    \* the releases whose build passed
    pointer,  \* job-release-current.json
    api,      \* the API's supervisor: its release, its state, and the
              \* release local-api.json names
    runner,   \* the runner process behind runner.lock
    adoption, \* runner-adoption.json
    at,       \* where the controller is
    sick,     \* the releases whose API never gets healthy
    used      \* how much of each bound is used up

vars == <<main, edited, repair, held, deploy, frozen, built, pointer, api,
          runner, adoption, at, sick, used>>
world == <<main, edited, frozen, built, sick>>
services == <<pointer, api, runner, adoption>>

Phases == {"prepare", "build", "activate", "api-switch", "jobs", "drain",
           "waiting-runner", "start-runner", "verify-runner", "push",
           "complete", "failed"}
Places == {"down", "idle", "signal", "ensure", "job", "release", "freezing",
           "headRead", "clean", "merged", "stopped", "waitApi", "childGone", "rollback", "asked",
           "ran", "ranBeside", "throwing", "thrown", "completed"}

SelfReleaseTypeOK ==
    /\ main \in Seq(0 .. NJobs + MaxEdits) /\ edited \in BOOLEAN
    /\ repair \in [Jobs -> [state : {"none", "running", "headRead", "ready",
                                     "failed", "published"},
                            base : 0 .. NJobs + MaxEdits]]
    /\ held \in Releases
    /\ deploy \in [active : BOOLEAN, job : Releases, phase : Phases,
                   oldApi : Releases, newRunner : BOOLEAN]
    /\ frozen \in [Jobs -> {"none", "half", "whole"}]
    /\ built \in SUBSET Jobs /\ sick \in SUBSET Jobs /\ pointer \in Releases
    /\ api \in [rel : Releases, named : Releases,
                st : {"dead", "booting", "starting", "healthy"}]
    /\ runner \in [rel : Releases, st : {"down", "up", "asked"}]
    /\ adoption \in {"none", "pending", "signaled"}
    /\ at \in Places

Init ==
    /\ main = <<0>> /\ edited = FALSE /\ held = 0 /\ at = "idle"
    /\ repair = [j \in Jobs |-> [state |-> "none", base |-> 0]]
    /\ deploy = [active |-> FALSE, job |-> 0, phase |-> "complete",
                 oldApi |-> 0, newRunner |-> FALSE]
    /\ frozen = [j \in Jobs |-> "none"] /\ built = {} /\ pointer = 0
    /\ api = [rel |-> 0, named |-> 0, st |-> "healthy"]
    /\ runner = [rel |-> 0, st |-> "up"] /\ adoption = "none"
    /\ sick \in SUBSET Jobs
    /\ used = [crashes |-> 0, deaths |-> 0, edits |-> 0]

Head0 == main[Len(main)]        \* git rev-parse HEAD

MoreTroubles == used.crashes + used.deaths + used.edits < MaxTroubles

-----------------------------------------------------------------------------
(* What happens beside the controller.                                     *)

Edit ==
    /\ used.edits < MaxEdits /\ MoreTroubles /\ ~edited
    /\ edited' = TRUE /\ used' = [used EXCEPT !.edits = @ + 1]
    /\ UNCHANGED <<main, repair, held, deploy, frozen, built, services, at, sick>>

CommitEdit ==
    /\ edited /\ edited' = FALSE /\ main' = Append(main, NJobs + used.edits)
    /\ UNCHANGED <<repair, held, deploy, frozen, built, services, at, sick, used>>

(* The supervisor of the API takes its lock and writes local-api.json. *)
ApiRecords ==
    /\ api.st = "booting" /\ api' = [api EXCEPT !.st = "starting", !.named = api.rel]
    /\ UNCHANGED <<world, repair, held, deploy, pointer, runner, adoption, at, used>>

ApiHealthy ==
    /\ api.st = "starting" /\ api.rel \notin sick
    /\ api' = [api EXCEPT !.st = "healthy"]
    /\ UNCHANGED <<world, repair, held, deploy, pointer, runner, adoption, at, used>>

ApiDies ==
    /\ api.st # "dead" /\ used.deaths < MaxDeaths /\ MoreTroubles
    /\ api' = [api EXCEPT !.st = "dead"] /\ used' = [used EXCEPT !.deaths = @ + 1]
    /\ UNCHANGED <<world, repair, held, deploy, pointer, runner, adoption, at>>

(* Asked by SIGUSR2, the runner ends when nothing is left to do. *)
RunnerLeaves ==
    /\ runner.st = "asked" /\ runner' = [runner EXCEPT !.st = "down"]
    /\ UNCHANGED <<world, repair, held, deploy, pointer, api, adoption, at, used>>

RunnerDies ==
    /\ runner.st # "down" /\ used.deaths < MaxDeaths /\ MoreTroubles
    /\ runner' = [runner EXCEPT !.st = "down"]
    /\ used' = [used EXCEPT !.deaths = @ + 1]
    /\ UNCHANGED <<world, repair, held, deploy, pointer, api, adoption, at>>

Crash ==
    /\ at # "down" /\ used.crashes < MaxCrashes /\ MoreTroubles
    /\ at' = "down" /\ used' = [used EXCEPT !.crashes = @ + 1]
    /\ UNCHANGED <<world, repair, held, deploy, services>>

Restart ==
    /\ at = "down" /\ at' = "idle"
    /\ UNCHANGED <<world, repair, held, deploy, services, used>>

(* The worker commits what it validated, in its worktree, and only if the  *)
(* main branch was where the worktree started when it read the head, and   *)
(* the working tree had no changes when it asked for them after that.      *)
RepairReadsHead(j) ==
    /\ repair[j].state = "running" /\ Head0 = repair[j].base
    /\ repair' = [repair EXCEPT ![j].state = "headRead"]
    /\ UNCHANGED <<world, held, deploy, services, at, used>>

Repaired(j) ==
    /\ \/ repair[j].state = "headRead" /\ ~edited
          /\ repair' = [repair EXCEPT ![j].state = "ready"]
       \/ repair[j].state \in {"running", "headRead"}
          /\ repair' = [repair EXCEPT ![j].state = "failed"]
    /\ UNCHANGED <<world, held, deploy, services, at, used>>

-----------------------------------------------------------------------------
(* One tick: adopt the new release in an idle runner, start services that  *)
(* are gone, then go on with the held job.                                 *)

LocalAPI == api.st = "healthy"          \* a call to the local API answers

MustAdopt == adoption = "pending" /\ runner.st = "up" /\ runner.rel # pointer

AdoptIdleRunner ==
    /\ at = "idle"
    /\ \/ MustAdopt /\ LocalAPI /\ adoption' = "signaled" /\ at' = "signal"
       \/ at' = "ensure"
          /\ adoption' = IF runner.st # "down" /\ runner.rel = pointer
                         THEN "none" ELSE adoption
    /\ UNCHANGED <<world, repair, held, deploy, pointer, api, runner, used>>

Signal ==
    /\ at = "signal" /\ at' = "ensure"
    /\ runner' = [runner EXCEPT !.st = IF @ = "up" THEN "asked" ELSE @]
    /\ UNCHANGED <<world, repair, held, deploy, pointer, api, adoption, used>>

Started(rel) == [api EXCEPT !.rel = rel, !.st = "booting"]

(* mutant: only the API is looked after.                                   *)
EnsureApiOnly ==
    /\ at = "ensure" /\ at' = "job"
    /\ api' = IF ~deploy.active /\ api.st = "dead" THEN Started(api.named) ELSE api
    /\ UNCHANGED <<world, repair, held, deploy, pointer, runner, adoption, used>>

EnsureServices ==
    /\ at = "ensure" /\ at' = "job"
    /\ api' = IF ~deploy.active /\ api.st = "dead" THEN Started(api.named) ELSE api
    /\ runner' = IF ~deploy.active /\ runner.st = "down"
                 THEN [rel |-> pointer, st |-> "up"] ELSE runner
    /\ UNCHANGED <<world, repair, held, deploy, pointer, adoption, used>>

(* The next repair: its worker notes the commit it starts from.            *)
StartRepair(j) ==
    /\ at = "job" /\ held = 0 /\ repair[j].state = "none"
    /\ \A i \in Jobs : i < j => repair[i].state # "none"
    /\ held' = j /\ at' = "idle"
    /\ repair' = [repair EXCEPT ![j] = [state |-> "running", base |-> Head0]]
    /\ UNCHANGED <<world, deploy, services, used>>

Nothing ==
    /\ at = "job" /\ at' = "idle"
    /\ held # 0 => repair[held].state \in {"running", "headRead"}
    /\ UNCHANGED <<world, repair, held, deploy, services, used>>

Concluded ==
    /\ at = "job" /\ held # 0 /\ repair[held].state \in {"published", "failed"}
    /\ held' = 0 /\ at' = "idle"
    /\ UNCHANGED <<world, repair, deploy, services, used>>

BeginRelease ==
    /\ at = "job" /\ held # 0 /\ repair[held].state = "ready" /\ at' = "release"
    /\ deploy' = IF deploy.job = held THEN deploy
                 ELSE [active |-> TRUE, job |-> held, phase |-> "prepare",
                       oldApi |-> api.named, newRunner |-> FALSE]
    /\ UNCHANGED <<world, repair, held, services, used>>

-----------------------------------------------------------------------------
(* The phases of advanceRelease.  A phase ends when deploy.json is saved   *)
(* with the next one; what was done before that is done again after a      *)
(* crash.                                                                  *)

In(phase) == at = "release" /\ deploy.phase = phase
Rel == deploy.job
To(phase) == deploy' = [deploy EXCEPT !.phase = phase] /\ at' = "release"
Throw == at' = "throwing" /\ UNCHANGED deploy

(* publishJobRelease: the directory is filled once, and its being there is *)
(* taken for its being complete until its manifest is missed.              *)
Freeze ==
    /\ In("prepare")
    /\ CASE frozen[Rel] = "none"  -> /\ frozen' = [frozen EXCEPT ![Rel] = "half"]
                                     /\ at' = "freezing" /\ UNCHANGED deploy
         [] frozen[Rel] = "half"  -> Throw /\ UNCHANGED frozen
         [] frozen[Rel] = "whole" -> To("build") /\ UNCHANGED frozen
    /\ UNCHANGED <<main, edited, built, sick, repair, held, services, used>>

Frozen ==
    /\ at = "freezing" /\ frozen' = [frozen EXCEPT ![Rel] = "whole"] /\ To("build")
    /\ UNCHANGED <<main, edited, built, sick, repair, held, services, used>>

(* mutant: the build's exit code is not looked at.                         *)
BuildUnchecked ==
    /\ In("build") /\ To("activate")
    /\ built' = built \cup {Rel} \/ UNCHANGED built
    /\ UNCHANGED <<main, edited, frozen, sick, repair, held, services, used>>

Build ==
    /\ In("build")
    /\ \/ built' = built \cup {Rel} /\ To("activate")
       \/ Throw /\ UNCHANGED built
    /\ UNCHANGED <<main, edited, frozen, sick, repair, held, services, used>>

(* Three commands of git, and a person may edit and commit between them:   *)
(* rev-parse HEAD, status --porcelain, merge --ff-only.                    *)
ReadHead ==
    /\ In("activate")
    /\ CASE Head0 = Rel              -> at' = "merged" /\ UNCHANGED deploy
         [] Head0 = repair[Rel].base -> at' = "headRead" /\ UNCHANGED deploy
         [] OTHER                    -> Throw
    /\ UNCHANGED <<world, repair, held, services, used>>

CheckClean ==
    /\ at = "headRead"
    /\ IF edited THEN Throw ELSE at' = "clean" /\ UNCHANGED deploy
    /\ UNCHANGED <<world, repair, held, services, used>>

(* What a repair's commit was made on: its base and what main had below.   *)
Below(j) ==
    {main[n] : n \in {m \in DOMAIN main :
                        \E k \in DOMAIN main : m <= k /\ main[k] = repair[j].base}}

(* mutant: git merge without --ff-only.                                    *)
MergesAnyway(j) == TRUE

(* The head is an ancestor of the repair's commit.                         *)
FastForwards(j) == Head0 \in Below(j)

(* git refuses as well when it would have to write a file that was edited. *)
Merge ==
    /\ at = "clean"
    /\ \/ FastForwards(Rel) /\ main' = Append(main, Rel)
          /\ at' = "merged" /\ UNCHANGED deploy
       \/ (edited \/ ~FastForwards(Rel)) /\ Throw /\ UNCHANGED main
    /\ UNCHANGED <<edited, frozen, built, sick, repair, held, services, used>>

Merged ==
    /\ at = "merged"
    /\ To(IF api.named # Rel THEN "api-switch" ELSE "jobs")
    /\ UNCHANGED <<world, repair, held, services, used>>

(* identity(local-api.json's supervisorPid): one that has not yet written  *)
(* the file is not seen.                                                   *)
Recorded == api.st \in {"starting", "healthy"}

StopApi ==
    /\ In("api-switch") /\ Recorded /\ api.named # Rel
    /\ \/ api' = [api EXCEPT !.st = "dead"] /\ at' = "stopped" /\ UNCHANGED deploy
       \/ Throw /\ UNCHANGED api       \* not gone after 20 s
    /\ UNCHANGED <<world, repair, held, pointer, runner, adoption, used>>

(* A second supervisor fails on local-api.lock.                            *)
LaunchApi ==
    /\ at = "stopped" \/ (In("api-switch") /\ ~Recorded)
    /\ IF api.st = "dead" THEN api' = Started(Rel) /\ at' = "waitApi"
       ELSE UNCHANGED api /\ at' = "childGone"
    /\ UNCHANGED <<world, repair, held, deploy, pointer, runner, adoption, used>>

(* After a crash, the new release's API is taken as it is found.           *)
SwitchedBefore ==
    /\ In("api-switch") /\ Recorded /\ api.named = Rel /\ To("jobs")
    /\ UNCHANGED <<world, repair, held, services, used>>

WaitApi ==
    /\ at = "waitApi" /\ api.st = "healthy" /\ To("jobs")
    /\ UNCHANGED <<world, repair, held, services, used>>

(* Not healthy in forty seconds: only the supervisor that was launched     *)
(* here, and has said so, is stopped.                                      *)
GiveUpApi ==
    /\ at \in {"waitApi", "childGone"} /\ at' = "rollback"
    /\ api' = IF at = "waitApi" /\ Recorded THEN [api EXCEPT !.st = "dead"] ELSE api
    /\ UNCHANGED <<world, repair, held, deploy, pointer, runner, adoption, used>>

RestoreApi ==
    /\ at = "rollback" /\ Throw
    /\ api' = IF api.st = "dead" THEN Started(deploy.oldApi) ELSE api
    /\ UNCHANGED <<world, repair, held, pointer, runner, adoption, used>>

PublishJobs ==
    /\ In("jobs") /\ pointer' = Rel /\ To("drain")
    /\ UNCHANGED <<world, repair, held, api, runner, adoption, used>>

(* A busy runner keeps working and is adopted later; an idle one is asked  *)
(* to leave.                                                               *)
Drain ==
    /\ In("drain")
    /\ \/ runner.st = "down" /\ To("start-runner") /\ UNCHANGED <<runner, adoption>>
       \/ runner.st # "down" /\ ~LocalAPI /\ Throw /\ UNCHANGED <<runner, adoption>>
       \/ runner.st # "down" /\ LocalAPI /\ adoption' = "pending" /\ To("push")
          /\ UNCHANGED runner
       \/ runner.st # "down" /\ LocalAPI /\ at' = "asked"
          /\ runner' = [runner EXCEPT !.st = "asked"] /\ UNCHANGED <<deploy, adoption>>
    /\ UNCHANGED <<world, repair, held, pointer, api, used>>

Return(phase) == deploy' = [deploy EXCEPT !.phase = phase] /\ at' = "idle"

Asked ==
    /\ at = "asked" /\ Return("waiting-runner")
    /\ UNCHANGED <<world, repair, held, services, used>>

WaitRunner ==
    /\ In("waiting-runner")
    /\ CASE runner.st = "down" -> To("start-runner")
         [] OTHER -> IF LocalAPI THEN Return("waiting-runner") ELSE Throw
    /\ UNCHANGED <<world, repair, held, services, used>>

(* runner.lock lets the launched runner live only if there is no other.    *)
StartRunner ==
    /\ In("start-runner") /\ UNCHANGED adoption
    /\ CASE ~LocalAPI            -> Throw /\ UNCHANGED runner
         [] LocalAPI /\ runner.st = "down" ->
                /\ runner' = [rel |-> Rel, st |-> "up"]
                /\ at' = "ran" /\ UNCHANGED deploy
         [] OTHER -> at' = "ranBeside" /\ UNCHANGED <<runner, deploy>>
    /\ UNCHANGED <<world, repair, held, pointer, api, used>>

RunnerStarted ==
    /\ at \in {"ran", "ranBeside"} /\ at' = "idle"
    /\ deploy' = [deploy EXCEPT !.phase = "verify-runner", !.newRunner = at = "ran"]
    /\ UNCHANGED <<world, repair, held, services, used>>

(* mutant: it waits for a runner that is gone.                             *)
VerifyRunnerPatiently ==
    /\ In("verify-runner")
    /\ IF LocalAPI /\ runner.st = "up" THEN To("push") ELSE Return("verify-runner")
    /\ UNCHANGED <<world, repair, held, services, used>>

VerifyRunner ==
    /\ In("verify-runner")
    /\ IF ~deploy.newRunner \/ runner.st = "down" \/ ~LocalAPI THEN Throw
       ELSE IF runner.st = "up" THEN To("push") ELSE Return("verify-runner")
    /\ UNCHANGED <<world, repair, held, services, used>>

PushFails ==
    /\ In("push") /\ Return("push")
    /\ UNCHANGED <<world, repair, held, services, used>>

PushSucceeds ==
    /\ In("push") /\ at' = "completed"
    /\ deploy' = [deploy EXCEPT !.active = FALSE, !.phase = "complete"]
    /\ UNCHANGED <<world, repair, held, services, used>>

JobPublished ==
    /\ at = "completed" /\ at' = "job"
    /\ repair' = [repair EXCEPT ![held].state = "published"]
    /\ UNCHANGED <<world, held, deploy, services, used>>

DeployFailed ==
    /\ at = "throwing" /\ at' = "thrown"
    /\ deploy' = [deploy EXCEPT !.active = FALSE, !.phase = "failed"]
    /\ UNCHANGED <<world, repair, held, services, used>>

JobFailed ==
    /\ at = "thrown" /\ at' = "job"
    /\ repair' = [repair EXCEPT ![held].state = "failed"]
    /\ UNCHANGED <<world, held, deploy, services, used>>

(* A release that has ended is not begun again, nor is its job.            *)
Ended ==
    /\ at = "release" /\ deploy.phase \in {"complete", "failed"} /\ at' = "idle"
    /\ UNCHANGED <<world, repair, held, deploy, services, used>>

-----------------------------------------------------------------------------
Advance ==
    \/ AdoptIdleRunner \/ Signal \/ EnsureServices \/ Nothing \/ Concluded
    \/ BeginRelease \/ Freeze \/ Frozen \/ Build \/ ReadHead \/ CheckClean \/ Merge
    \/ Merged \/ StopApi \/ LaunchApi \/ SwitchedBefore \/ WaitApi \/ GiveUpApi \/ RestoreApi
    \/ PublishJobs \/ Drain \/ Asked \/ WaitRunner \/ StartRunner \/ RunnerStarted
    \/ VerifyRunner
    \/ PushSucceeds \/ PushFails \/ JobPublished \/ DeployFailed \/ JobFailed
    \/ Ended \/ \E j \in Jobs : StartRepair(j)

Next ==
    \/ Advance \/ Restart \/ Crash
    \/ Edit \/ CommitEdit
    \/ ApiRecords \/ ApiHealthy \/ ApiDies \/ RunnerLeaves \/ RunnerDies
    \/ \E j \in Jobs : RepairReadsHead(j) \/ Repaired(j)

(* The controller goes on and is restarted by launchd; processes that were *)
(* started come up, a runner that was asked leaves, a repair ends.         *)
Fairness ==
    /\ WF_vars(Advance) /\ WF_vars(Restart)
    /\ WF_vars(ApiRecords) /\ WF_vars(ApiHealthy) /\ WF_vars(RunnerLeaves)
    /\ \A j \in Jobs : WF_vars(Repaired(j))

Spec == Init /\ [][Next]_vars
FairSpec == Spec /\ Fairness

-----------------------------------------------------------------------------
(* What runs was built, and is on the main branch: the API, the runner and *)
(* the jobs to come only ever load a release whose build passed and whose  *)
(* commit is merged, whichever step the controller died in.                *)
LiveIsMerged ==
    \A r \in {pointer, api.rel, runner.rel} :
        /\ r \in built \cup {0}
        /\ \E n \in DOMAIN main : main[n] = r

(* What main gets with a repair is what was validated and built: its commit *)
(* lies on the very commit it was made on and is there once, although a    *)
(* person may commit after either check of the head (self-heal-repair.mjs: *)
(* 240, self-heal-release.mjs:198) and the controller may die between the  *)
(* merge and its record.  "Never overwrite concurrent maintenance or the   *)
(* user's working changes" (self-heal-repair.mjs:238).                     *)
AppliedToItsBase ==
    /\ \A n \in DOMAIN main :
          main[n] \in Jobs => n > 1 /\ main[n - 1] = repair[main[n]].base
    /\ \A m, n \in DOMAIN main : main[m] = main[n] => m = n

(* A release of which the push is being repeated.                          *)
Pushing == deploy.active /\ deploy.phase = "push"

(* Wherever a hand-over is cut, fails or waits, production gets its runner *)
(* back, unless the release waits for its push.                            *)
RunnerReturns == (runner.st = "down") ~> (runner.st # "down" \/ Pushing)

(* deploy.json says the release has ended, job.json does not: what a crash *)
(* between the two saves leaves.                                           *)
CutAtItsEnd ==
    /\ held # 0 /\ repair[held].state = "ready" /\ deploy.job = held
    /\ deploy.phase \in {"complete", "failed"}

(* Every release comes to an end, and with it the controller's only slot,  *)
(* but for a push that fails and a crash between the two last saves.       *)
ReleaseEnds == (held # 0) ~> (held = 0 \/ Pushing \/ CutAtItsEnd)

=============================================================================
