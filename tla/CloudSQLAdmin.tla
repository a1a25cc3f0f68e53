--------------------------- MODULE CloudSQLAdmin ---------------------------
(***************************************************************************)
(* The Cloud SQL Admin API as cloudsql-postgres-operator sees it.  It is   *)
(* not part of the repository: each definition states what the calls made  *)
(* by pkg/controllers and pkg/admission, and the branches taken on their   *)
(* replies (pkg/util/google/google.go), rely on.                           *)
(*                                                                         *)
(* An instance is known by its name.  Inserting, updating and deleting are *)
(* long-running: the call is accepted and an operation runs afterwards; it *)
(* may fail.  The name of a deleted instance stays reserved for a while.   *)
(***************************************************************************)
EXTENDS Naturals

CONSTANTS
  Names,      \* values of ".spec.name"
  Settings,   \* values of the settings a CSQLP instance can be given
  Invalid,    \* settings the API answers with "400 BAD REQUEST"
  Rejected,   \* <<from, to>>: updates answered with 400 (disk shrink, ...)
  Passwords,  \* passwords of the "postgres" user
  None        \* "no value"

ASSUME CloudAssumption ==
  /\ Invalid \subseteq Settings
  /\ Rejected \subseteq Settings \X Settings
  /\ None \notin Settings \cup Passwords

VARIABLE cloud  \* cloud[n]: what the API holds under the name n

\* "Pending": being created, or creation failed.  "Stopped": RUNNABLE with
\* an activation policy other than ALWAYS.  "Reserved": deleted recently.
States == {"Absent", "Reserved", "Pending", "Runnable", "Stopped", "Deleting"}

\* The last operation on the instance ("Done" when there is none).
Operations == {"Done", "Running", "Failed"}

\* History only, read by no action of the operator:
\*   by    - the object (<<key, uid>>) the instance was inserted for, or
\*           None for an instance somebody else created;
\*   asked - whether the operator's request to delete it was accepted.
Gone(st) == [st |-> st, s |-> None, op |-> "Done", pw |-> None,
             by |-> None, asked |-> FALSE]

Exists(n) == cloud[n].st \notin {"Absent", "Reserved"}

\* Replies, by HTTP status code.
Ok == 200
BadRequest == 400
NotFound == 404
Conflict == 409
Precondition == 412
ServerError == 500

GetReply(n) == IF Exists(n) THEN Ok ELSE NotFound

InsertReply(n, s) == IF s \in Invalid THEN BadRequest
                     ELSE IF cloud[n].st = "Absent" THEN Ok ELSE Conflict

\* An update carries the settings version that was read, so one based on
\* settings that have changed since is refused.
UpdateReply(n, from, to) == IF ~Exists(n) THEN NotFound
                            ELSE IF cloud[n].op = "Running" THEN Conflict
                            ELSE IF cloud[n].s # from THEN Precondition
                            ELSE IF to \in Invalid \/ <<from, to>> \in Rejected
                                 THEN BadRequest
                            ELSE Ok

UserReply(n) == IF ~Exists(n) THEN NotFound
                ELSE IF cloud[n].op = "Running" \/ cloud[n].st # "Runnable"
                     THEN Conflict
                ELSE Ok

DeleteReply(n) == IF ~Exists(n) THEN NotFound
                  ELSE IF cloud[n].op = "Running" THEN Conflict ELSE Ok

\* Effects of accepted requests.
Inserted(n, s, owner) ==
  [cloud EXCEPT ![n] = [st |-> "Pending", s |-> s, op |-> "Running",
                        pw |-> None, by |-> owner, asked |-> FALSE]]
Updated(n, s) ==
  [cloud EXCEPT ![n].s = s, ![n].st = "Runnable", ![n].op = "Running"]
\* Changing the user may outlive the reply ("Running") or not ("Done").
UserUpdated(n, pw, op) == [cloud EXCEPT ![n].pw = pw, ![n].op = op]
Deleted(n) ==
  [cloud EXCEPT ![n].st = "Deleting", ![n].op = "Running", ![n].asked = TRUE]

\* The running operation on n completes ...
Finish(n) ==
  /\ cloud[n].op = "Running"
  /\ \/ /\ cloud[n].st = "Deleting"
        /\ cloud' = [cloud EXCEPT ![n] = Gone("Reserved")]
     \/ /\ cloud[n].st # "Deleting"
        /\ cloud' = [cloud EXCEPT ![n].op = "Done",
                                  ![n].st = IF @ = "Pending" THEN "Runnable" ELSE @]

\* ... or fails: an instance that could not be deleted is still there.
Fail(n) ==
  /\ cloud[n].op = "Running"
  /\ cloud' = [cloud EXCEPT ![n].op = "Failed",
                 ![n].st = IF @ = "Deleting" THEN "Runnable" ELSE @]

\* A reserved name becomes available again.
Release(n) ==
  /\ cloud[n].st = "Reserved"
  /\ cloud' = [cloud EXCEPT ![n] = Gone("Absent")]

\* What people and other tools do to an instance behind the operator's back.
OutOfBand(n) ==
  \/ /\ Exists(n) /\ cloud[n].op # "Running"
     /\ \/ \E s \in Settings \ Invalid : cloud' = [cloud EXCEPT ![n].s = s]
        \/ /\ cloud[n].st \in {"Runnable", "Stopped"}
           /\ \E st \in {"Runnable", "Stopped"} :
                cloud' = [cloud EXCEPT ![n].st = st, ![n].op = "Done"]
        \/ cloud' = [cloud EXCEPT ![n] = Gone("Reserved")]
  \/ /\ cloud[n].st = "Absent"
     /\ \E s \in Settings \ Invalid :
          cloud' = [cloud EXCEPT ![n] = [Gone("Runnable") EXCEPT !.s = s]]

Instance(Owners) ==
  [st : States, s : Settings \cup {None}, op : Operations,
   pw : Passwords \cup {None}, by : Owners \cup {None}, asked : BOOLEAN]
=============================================================================
