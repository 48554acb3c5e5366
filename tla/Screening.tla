------------------------------ MODULE Screening ------------------------------
(***************************************************************************)
(* Sanctions screening in the compliance service: the published list is    *)
(* downloaded, stored and kept in memory by every instance                 *)
(* (sanctions/service.ts); a submission is screened by the instance that   *)
(* takes it, a refresh screens the cleared records again, and reviewers    *)
(* decide (app.ts).                                                        *)
(*                                                                         *)
(* One applicant is followed.  The built-in list is left out.              *)
(***************************************************************************)
EXTENDS Integers, FiniteSets

CONSTANTS
  Servers,    \* instances of the compliance service
  Names,      \* names an applicant may have
  MaxEvents   \* bound on what comes from outside: submissions, decisions,
              \* publications, refreshes an admin asks for, failures

ASSUME ScreeningAssumption == MaxEvents \in Nat /\ Names # {}

VARIABLES
  published,  \* the list the authority publishes
  entries,    \* sanctions_entries: the names of every batch
  meta,       \* sanctions_list_meta: the batch that is the list
  index,      \* index[i]: the list as instance i has it in memory
  refresh,    \* refresh[i]: where a refresh on instance i is
  kyc,     \* kyc_records: the applicant's row
  submission, \* a submission that has been screened and is not yet written
  decision,   \* a decision that has read and locked the record
  events      \* how many events from outside there were

screeningVars ==
  <<published, entries, meta, index, refresh, kyc, submission, decision, events>>

Batches == Servers \X {0, 1}
Lists   == SUBSET Names
Resting == [pc |-> "rest"]
Nothing == [name |-> "nobody", flag |-> "clear", status |-> "none"]
Rows    == [name : Names, flag : {"clear", "flagged"},
            status : {"pending", "approved", "rejected"}] \cup {Nothing}

ScreeningTypeOK ==
  /\ published \in Lists \ {{}}
  /\ entries \in [Batches -> Lists] /\ meta \in Batches
  /\ index \in [Servers -> Lists]
  /\ \A i \in Servers :
       \/ refresh[i] = Resting
       \/ /\ refresh[i].pc \in {"insert", "switch", "prune", "reload", "select", "flag"}
          /\ refresh[i].by \in {"job", "admin"} /\ refresh[i].list \in Lists
          /\ refresh[i].batch \in Batches /\ refresh[i].row \in Rows
  /\ kyc \in Rows
  /\ submission \in {Resting} \cup [pc : {"write"}, on : Servers, row : Rows]
  /\ decision \in {Resting} \cup [pc : {"write"}, by : {"platform", "employer"},
                                   flagged : BOOLEAN, to : {"approved", "rejected"}]
  /\ events \in 0..MaxEvents

ScreeningInit ==
  /\ published \in Lists \ {{}}
  /\ meta \in Batches
  /\ entries = [b \in Batches |-> IF b = meta THEN published ELSE {}]
  /\ index \in [Servers -> Lists \ {{}}]  \* of different days
  /\ refresh = [i \in Servers |-> Resting]
  /\ kyc = Nothing /\ submission = Resting /\ decision = Resting
  /\ events = 0

Event == events < MaxEvents /\ events' = events + 1

Publish(list) ==
  /\ list # published /\ Event
  /\ published' = list
  /\ UNCHANGED <<entries, meta, index, refresh, kyc, submission, decision>>

-----------------------------------------------------------------------------
(* refresh: download, storeSanctionsList, reload, rescreenClearRecords. *)

\* The batch of a refresh is new: it is not the one that is the list, and nothing is
\* in it (of a batch that was left half-way only its name is used again).
Start(i, by) ==
  /\ refresh[i] = Resting
  /\ LET new == CHOOSE b \in {i} \X {0, 1} : b # meta
     IN  /\ refresh' = [refresh EXCEPT ![i] = [pc |-> "insert", by |-> by,
                          list |-> published, batch |-> new, row |-> Nothing]]
         /\ entries' = [entries EXCEPT ![new] = {}]
  /\ UNCHANGED <<published, meta, index, kyc, submission, decision>>

\* One instance refreshes per day, under the job's lock.
StartJob(i) ==
  /\ \A k \in Servers : refresh[k] # Resting => refresh[k].by # "job"
  /\ Start(i, "job") /\ UNCHANGED events

\* POST /sanctions/refresh takes no lock.
StartByAdmin(i) == Event /\ Start(i, "admin")

Go(i, pc) == refresh' = [refresh EXCEPT ![i].pc = pc]
Done(i)   == refresh' = [refresh EXCEPT ![i] = Resting]
Reached(i, pc) == refresh[i].pc = pc

\* The names still to be stored are stored chunk by chunk.
Insert(i) ==
  /\ Reached(i, "insert")
  /\ \E name \in refresh[i].list :
       LET rest == refresh[i].list \ {name}
       IN  /\ entries' = [entries EXCEPT ![refresh[i].batch] = @ \cup {name}]
           /\ refresh' = [refresh EXCEPT ![i].list = rest,
                            ![i].pc = IF rest = {} THEN "switch" ELSE @]
  /\ UNCHANGED <<published, meta, index, kyc, submission, decision, events>>

Switch(i) ==
  /\ Reached(i, "switch") /\ Go(i, "prune")
  /\ meta' = refresh[i].batch
  /\ UNCHANGED <<published, entries, index, kyc, submission, decision, events>>

\* DELETE ... WHERE batch_id <> the refresh's own.
Prune(i) ==
  /\ Reached(i, "prune") /\ Go(i, "reload")
  /\ entries' = [b \in Batches |-> IF b = refresh[i].batch THEN entries[b] ELSE {}]
  /\ UNCHANGED <<published, meta, index, kyc, submission, decision, events>>

\* Faulty: the list in memory is the one read at start.
NotReloaded(i) ==
  /\ Reached(i, "reload") /\ Go(i, "select")
  /\ UNCHANGED <<published, entries, meta, index, kyc, submission, decision, events>>

Reload(i) ==
  /\ Reached(i, "reload") /\ Go(i, "select")
  /\ index' = [index EXCEPT ![i] = entries[meta]]
  /\ UNCHANGED <<published, entries, meta, kyc, submission, decision, events>>

\* SELECT the clear records.
SelectClear(i) ==
  /\ Reached(i, "select")
  /\ IF kyc # Nothing /\ kyc.flag = "clear"
     THEN refresh' = [refresh EXCEPT ![i].pc = "flag", ![i].row = kyc]
     ELSE Done(i)
  /\ UNCHANGED <<published, entries, meta, index, kyc, submission, decision, events>>

\* Faulty: a decision does not lock the record it has read.
Unlocked == TRUE

\* FOR UPDATE: other writers wait for a decision's transaction.
RowFree == decision = Resting

\* The row read is screened, and flagged whatever it has become since.
Flag(i) ==
  /\ Reached(i, "flag") /\ Done(i)
  /\ IF refresh[i].row.name \in index[i]
     THEN RowFree /\ kyc' = [kyc EXCEPT !.flag = "flagged", !.status = "rejected"]
     ELSE UNCHANGED kyc
  /\ UNCHANGED <<published, entries, meta, index, submission, decision, events>>

\* A download or a query fails.
Fail(i) ==
  /\ refresh[i] # Resting /\ Event /\ Done(i)
  /\ UNCHANGED <<published, entries, meta, index, kyc, submission, decision>>

\* createSanctionsService loads what is stored.
Restart(i) ==
  /\ Event /\ Done(i)
  /\ index' = [index EXCEPT ![i] = entries[meta]]
  /\ submission' = IF submission # Resting /\ submission.on = i THEN Resting ELSE submission
  /\ UNCHANGED <<published, entries, meta, kyc, decision>>

-----------------------------------------------------------------------------
(* Submissions and decisions. *)

\* POST /submit: screened by the instance's list; auto-approve may be on.
ScreenSubmission(i, n) ==
  /\ submission = Resting /\ Event
  /\ \E status \in {"pending", "approved"} :
       submission' = [pc |-> "write", on |-> i, row |->
         IF n \in index[i] THEN [name |-> n, flag |-> "flagged", status |-> "rejected"]
         ELSE [name |-> n, flag |-> "clear", status |-> status]]
  /\ UNCHANGED <<published, entries, meta, index, refresh, kyc, decision>>

\* INSERT ... ON CONFLICT (user_id) DO UPDATE.
Write ==
  /\ submission # Resting /\ RowFree
  /\ kyc' = submission.row /\ submission' = Resting
  /\ UNCHANGED <<published, entries, meta, index, refresh, decision, events>>

\* setStatusHandler: the record is read and locked; an employer cannot approve a
\* flagged one.
StartDecision(by, to) ==
  /\ decision = Resting /\ kyc # Nothing /\ Event
  /\ ~(to = "approved" /\ by = "employer" /\ kyc.flag = "flagged")
  /\ decision' = [pc |-> "write", by |-> by, to |-> to, flagged |-> kyc.flag = "flagged"]
  /\ UNCHANGED <<published, entries, meta, index, refresh, kyc, submission>>

WriteDecision ==
  /\ decision # Resting
  /\ kyc' = [kyc EXCEPT !.status = decision.to,
                  !.flag = IF decision.to = "approved" THEN "clear" ELSE @]
  /\ decision' = Resting
  /\ UNCHANGED <<published, entries, meta, index, refresh, submission, events>>

-----------------------------------------------------------------------------

Step(i) == Insert(i) \/ Switch(i) \/ Prune(i) \/ Reload(i) \/ SelectClear(i) \/ Flag(i)

ScreeningNext ==
  \/ \E i \in Servers : Step(i) \/ StartJob(i) \/ StartByAdmin(i) \/ Fail(i) \/ Restart(i)
  \/ \E list \in Lists \ {{}} : Publish(list)
  \/ \E i \in Servers, n \in Names : ScreenSubmission(i, n)
  \/ \E by \in {"platform", "employer"}, to \in {"approved", "rejected"} : StartDecision(by, to)
  \/ Write \/ WriteDecision

\* The job comes back every day, once there is somebody to screen, and what has
\* begun goes on.
ScreeningFairness ==
  /\ WF_screeningVars(kyc # Nothing /\ \E i \in Servers : StartJob(i))
  /\ \A i \in Servers : WF_screeningVars(Step(i))
  /\ WF_screeningVars(Write) /\ WF_screeningVars(WriteDecision)

ScreeningSpec == ScreeningInit /\ [][ScreeningNext]_screeningVars /\ ScreeningFairness

\* Without the admin's request: every refresh is the job's.
LockedSpec ==
  ScreeningInit /\ [][ScreeningNext /\ \A i \in Servers : ~StartByAdmin(i)]_screeningVars

-----------------------------------------------------------------------------
(* Properties. *)

\* However submissions, decisions, restarts and refreshes on other instances
\* fall, once they stop an applicant whose name is published is flagged: an
\* instance may have screened with an old list, a refresh may have read the
\* record before it was written, an approval may have cleared the flag.
ListedIsFlagged ==
  <>[](kyc # Nothing /\ kyc.name \in published => kyc.flag = "flagged")

\* "An employer cannot wave through a name the screening flagged" (app.ts:343):
\* not even by a decision taken before the flag came.
EmployerClearsNoFlag ==
  [][decision # Resting /\ decision.by = "employer" /\ decision' = Resting
       => (kyc.flag = "flagged" => kyc'.flag = "flagged")]_screeningVars

\* "Readers never see a half-written list" (service.ts:47).
WholeList == entries[meta] # {}
=============================================================================
