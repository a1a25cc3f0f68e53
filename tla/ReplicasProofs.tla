--------------------------- MODULE ReplicasProofs ---------------------------
(***************************************************************************)
(* Proofs about the operator's replicas, for any number of them, any       *)
(* certificates, and any durations that ReplicasAssumption allows.         *)
(***************************************************************************)
EXTENDS OperatorReplicas, TLAPS

\* What a replica may hold, and the type of rep.
Held == Config \cup CRD \cup {None}
Cert == Certs \cup {None}
Reps == [Replicas -> Replica]

LEMMA EndedType == Ended \in Replica
BY SMT DEF Ended, Replica, Main, Run, Server

\* The changes that the steps make to the record of a replica.
LEMMA Edits ==
  ASSUME rep \in Reps, NEW r \in Replicas
  PROVE  /\ [rep EXCEPT ![r] = Ended] \in Reps
         /\ \A m \in Main : [rep EXCEPT ![r].main = m] \in Reps
         /\ \A u \in Run : [rep EXCEPT ![r].run = u] \in Reps
         /\ \A s \in Server : [rep EXCEPT ![r].server = s] \in Reps
         /\ \A b \in BOOLEAN : [rep EXCEPT ![r].cut = b] \in Reps
         /\ \A n \in 0 .. 2 : [rep EXCEPT ![r].signals = n] \in Reps
         /\ \A m \in Main, c \in Cert : [rep EXCEPT ![r].main = m, ![r].cert = c] \in
             Reps
         /\ \A m \in Main, o \in Held : [rep EXCEPT ![r].main = m, ![r].seen = o] \in
             Reps
         /\ \A m \in Main, u \in Run : [rep EXCEPT ![r].main = m, ![r].run = u] \in
             Reps
         /\ \A u \in Run, o \in Held : [rep EXCEPT ![r].run = u, ![r].seen = o] \in
             Reps
         /\ \A m \in Main, s \in Server, o \in Held :
              [rep EXCEPT ![r].main = m, ![r].server = s, ![r].seen = o] \in Reps
<1>1. rep[r] \in Replica
  BY DEF Reps
<1>2. \A x \in Replica : [rep EXCEPT ![r] = x] \in Reps
  BY Zenon DEF Reps
<1>3. ASSUME NEW m \in Main
      PROVE  /\ [rep[r] EXCEPT !.main = m] \in Replica
             /\ \A c \in Cert : [rep[r] EXCEPT !.main = m, !.cert = c] \in Replica
             /\ \A u \in Run : [rep[r] EXCEPT !.main = m, !.run = u] \in Replica
             /\ \A o \in Held :
                  /\ [rep[r] EXCEPT !.main = m, !.seen = o] \in Replica
                  /\ \A s \in Server :
                       [rep[r] EXCEPT !.main = m, !.server = s, !.seen = o] \in
                           Replica
  BY <1>1, Zenon DEF Replica, Held, Cert
<1>4. /\ \A u \in Run : /\ [rep[r] EXCEPT !.run = u] \in Replica
                        /\ \A o \in Held : [rep[r] EXCEPT !.run = u, !.seen = o] \in
                            Replica
      /\ \A s \in Server : [rep[r] EXCEPT !.server = s] \in Replica
      /\ \A b \in BOOLEAN : [rep[r] EXCEPT !.cut = b] \in Replica
      /\ \A n \in 0 .. 2 : [rep[r] EXCEPT !.signals = n] \in Replica
  BY <1>1, Zenon DEF Replica, Held
<1> QED BY <1>2, <1>3, <1>4, EndedType, Zenon

\* Whatever step a replica makes, its record stays well-formed.
LEMMA RepStep ==
  ASSUME TypeOK, NEW r \in Replicas
  PROVE  /\ Start(r) => rep' \in Reps
         /\ CreateSecret(r) => rep' \in Reps
         /\ GetSecret(r) => rep' \in Reps
         /\ CreateConfig(r) => rep' \in Reps
         /\ GetConfig(r) => rep' \in Reps
         /\ UpdateConfig(r) => rep' \in Reps
         /\ Observe(r) => rep' \in Reps
         /\ Acquire(r) => rep' \in Reps
         /\ Renew(r) => rep' \in Reps
         /\ Cut(r) => rep' \in Reps
         /\ RenewUnanswered(r) => rep' \in Reps
         /\ GiveUp(r) => rep' \in Reps
         /\ CreateCRD(r) => rep' \in Reps
         /\ GetCRD(r) => rep' \in Reps
         /\ UpdateCRD(r) => rep' \in Reps
         /\ WaitCRD(r) => rep' \in Reps
         /\ Signal(r) => rep' \in Reps
         /\ StopServer(r) => rep' \in Reps
         /\ StopController(r) => rep' \in Reps
         /\ Exit(r) => rep' \in Reps
         /\ Fatal(r) => rep' \in Reps
<1>0. rep \in Reps
  BY DEF TypeOK, Reps
<1>1. ASSUME Start(r) PROVE rep' \in Reps
  <2>1. [rep EXCEPT ![r].main = "CreateSecret"] \in Reps
    BY <1>0, Edits DEF Main
  <2> QED BY <1>1, <2>1, Zenon DEF Start, End, Registered, Goto
<1>2. ASSUME CreateSecret(r) PROVE rep' \in Reps
  <2>1. \A c \in Cert : [rep EXCEPT ![r].main = "CreateConfig", ![r].cert = c] \in
      Reps
    BY <1>0, Edits DEF Main
  <2>2. [rep EXCEPT ![r].main = "GetSecret"] \in Reps
    BY <1>0, Edits DEF Main
  <2>3. \A c \in Certs : c \in Cert
    BY DEF Cert
  <2> QED BY <1>2, <2>1, <2>2, <2>3, Zenon DEF CreateSecret, End, Registered, Goto
<1>3. ASSUME GetSecret(r) PROVE rep' \in Reps
  <2>1. [rep EXCEPT ![r].main = "CreateConfig", ![r].cert = tls] \in Reps
    BY <1>0, Edits DEF Main, Cert, TypeOK
  <2> QED BY <1>3, <2>1, Zenon DEF GetSecret, End, Registered, Goto
<1>4. ASSUME CreateConfig(r) PROVE rep' \in Reps
  <2>1. [rep EXCEPT ![r].main = "GetConfig"] \in Reps
    BY <1>0, Edits DEF Main, Server, Held
  <2>2. [rep EXCEPT ![r].main = "Acquire", ![r].server = "up", ![r].seen = None] \in
      Reps
    BY <1>0, Edits DEF Main, Server, Held
  <2> QED BY <1>4, <2>1, <2>2, Zenon DEF CreateConfig, End, Registered, Goto
<1>5. ASSUME GetConfig(r) PROVE rep' \in Reps
  <2>1. [rep EXCEPT ![r].main = "UpdateConfig", ![r].seen = config] \in Reps
    BY <1>0, Edits DEF Main, Server, Held, TypeOK
  <2>2. [rep EXCEPT ![r].main = "Acquire", ![r].server = "up", ![r].seen = None] \in
      Reps
    BY <1>0, Edits DEF Main, Server, Held, TypeOK
  <2> QED BY <1>5, <2>1, <2>2, Zenon DEF GetConfig, End, Registered, Goto
<1>6. ASSUME UpdateConfig(r) PROVE rep' \in Reps
  <2>1. [rep EXCEPT ![r] = Ended] \in Reps
    BY <1>0, Edits DEF Main, Server, Held
  <2>2. [rep EXCEPT ![r].main = "Acquire", ![r].server = "up", ![r].seen = None] \in
      Reps
    BY <1>0, Edits DEF Main, Server, Held
  <2> QED BY <1>6, <2>1, <2>2, Zenon DEF UpdateConfig, End, Registered, Goto
<1>7. ASSUME Observe(r) PROVE rep' \in Reps
  BY <1>0, <1>7 DEF Observe
<1>8. ASSUME Acquire(r) PROVE rep' \in Reps
  <2>1. [rep EXCEPT ![r].main = "Renew", ![r].run = "CreateCRD"] \in Reps
    BY <1>0, Edits DEF Main, Run
  <2> QED BY <1>8, <2>1, Zenon DEF Acquire, End, Registered, Goto
<1>9. ASSUME Renew(r) PROVE rep' \in Reps
  <2>1. [rep EXCEPT ![r].cut = FALSE] \in Reps
    BY <1>0, Edits
  <2> QED BY <1>9, <2>1, Zenon DEF Renew, End, Registered, Goto
<1>10. ASSUME Cut(r) PROVE rep' \in Reps
  <2>1. [rep EXCEPT ![r].cut = TRUE] \in Reps
    BY <1>0, Edits
  <2> QED BY <1>10, <2>1, Zenon DEF Cut, End, Registered, Goto
<1>11. ASSUME RenewUnanswered(r) PROVE rep' \in Reps
  BY <1>0, <1>11 DEF RenewUnanswered
<1>12. ASSUME GiveUp(r) PROVE rep' \in Reps
  <2>1. [rep EXCEPT ![r] = Ended] \in Reps
    BY <1>0, Edits
  <2> QED BY <1>12, <2>1, Zenon DEF GiveUp, End, Registered, Goto
<1>13. ASSUME CreateCRD(r) PROVE rep' \in Reps
  <2>1. [rep EXCEPT ![r].run = "WaitCRD"] \in Reps
    BY <1>0, Edits DEF Run
  <2>2. [rep EXCEPT ![r].run = "GetCRD"] \in Reps
    BY <1>0, Edits DEF Run
  <2> QED BY <1>13, <2>1, <2>2, Zenon DEF CreateCRD, End, Registered, Goto
<1>14. ASSUME GetCRD(r) PROVE rep' \in Reps
  <2>1. [rep EXCEPT ![r].run = "WaitCRD"] \in Reps
    BY <1>0, Edits DEF Run, Held, TypeOK
  <2>2. [rep EXCEPT ![r].run = "UpdateCRD", ![r].seen = crd] \in Reps
    BY <1>0, Edits DEF Run, Held, TypeOK
  <2> QED BY <1>14, <2>1, <2>2, Zenon DEF GetCRD, End, Registered, Goto
<1>15. ASSUME UpdateCRD(r) PROVE rep' \in Reps
  <2>1. [rep EXCEPT ![r] = Ended] \in Reps
    BY <1>0, Edits DEF Run, Held
  <2>2. [rep EXCEPT ![r].run = "WaitCRD", ![r].seen = None] \in Reps
    BY <1>0, Edits DEF Run, Held
  <2> QED BY <1>15, <2>1, <2>2, Zenon DEF UpdateCRD, End, Registered, Goto
<1>16. ASSUME WaitCRD(r) PROVE rep' \in Reps
  <2>1. [rep EXCEPT ![r].run = "Control"] \in Reps
    BY <1>0, Edits DEF Run
  <2> QED BY <1>16, <2>1, Zenon DEF WaitCRD, End, Registered, Goto
<1>17. ASSUME Signal(r) PROVE rep' \in Reps
  <2>1. [rep EXCEPT ![r] = Ended] \in Reps
    BY <1>0, Edits
  <2>2. [rep EXCEPT ![r].signals = 1] \in Reps
    <3>1. 1 \in 0 .. 2
      OBVIOUS
    <3> QED BY <1>0, <3>1, Edits
  <2> QED BY <1>17, <2>1, <2>2, Zenon DEF Signal, End, Registered, Goto
<1>18. ASSUME StopServer(r) PROVE rep' \in Reps
  <2>1. [rep EXCEPT ![r].server = "down"] \in Reps
    BY <1>0, Edits DEF Server
  <2> QED BY <1>18, <2>1, Zenon DEF StopServer, End, Registered, Goto
<1>19. ASSUME StopController(r) PROVE rep' \in Reps
  <2>1. [rep EXCEPT ![r].run = "Wait"] \in Reps
    BY <1>0, Edits DEF Run
  <2> QED BY <1>19, <2>1, Zenon DEF StopController, End, Registered, Goto
<1>20. ASSUME Exit(r) PROVE rep' \in Reps
  <2>1. [rep EXCEPT ![r] = Ended] \in Reps
    BY <1>0, Edits
  <2> QED BY <1>20, <2>1, Zenon DEF Exit, End, Registered, Goto
<1>21. ASSUME Fatal(r) PROVE rep' \in Reps
  <2>1. [rep EXCEPT ![r] = Ended] \in Reps
    BY <1>0, Edits
  <2> QED BY <1>21, <2>1, Zenon DEF Fatal, End, Registered, Goto
<1> QED BY <1>1, <1>2, <1>3, <1>4, <1>5, <1>6, <1>7, <1>8, <1>9, <1>10, <1>11, <1>12,
    <1>13, <1>14, <1>15, <1>16, <1>17, <1>18, <1>19, <1>20, <1>21
-----------------------------------------------------------------------------
(* Type correctness.                                                       *)

\* A replica that reads an object has seen that it exists.
Seen ==
  \A r \in Replicas :
    /\ At(r, "GetSecret") => tls # None
    /\ rep[r].main \notin {"Exited", "CreateSecret", "GetSecret"}
         => rep[r].cert # None
    /\ rep[r].main \in {"GetConfig", "UpdateConfig"} => config # None
    /\ rep[r].run \in {"GetCRD", "UpdateCRD", "WaitCRD", "Control"} => crd # None

Ages == [Replicas -> 0 .. LeaseDuration \cup {None}]
Bounds == [faults : 0 .. MaxFaults, signals : 0 .. MaxSignals]

\* The objects and the bounds.
ObjectsType ==
  /\ tls \in Certs \cup {None}
  /\ config \in Config \cup {None}
  /\ crd \in CRD \cup {None}
  /\ holder \in Replicas \cup {None, Former}
  /\ age \in Ages

LEMMA InitType == Init => TypeOK
<1> SUFFICES ASSUME Init PROVE TypeOK
  OBVIOUS
<1>1. config \in Config \cup {None}
  BY DEF Init, Config
<1>2. [former |-> TRUE, established |-> TRUE] \in CRD
  BY DEF CRD
<1>3. rep \in [Replicas -> Replica] /\ age \in [Replicas -> 0 .. LeaseDuration \cup
    {None}]
  BY EndedType DEF Init
<1>4. used \in [faults : 0 .. MaxFaults, signals : 0 .. MaxSignals]
  BY ReplicasAssumption DEF Init
<1>5. \A r \in Replicas : rep[r].main = "Exited" /\ rep[r].run = "off"
  BY DEF Init, Ended
<1> QED BY <1>1, <1>2, <1>3, <1>4, <1>5 DEF Init, TypeOK, At

LEMMA DefinitionTypes ==
  /\ [former |-> FALSE, established |-> FALSE] \in CRD
  /\ \A d \in CRD : /\ [d EXCEPT !.former = FALSE] \in CRD
                   /\ [d EXCEPT !.established = TRUE] \in CRD
<1>1. FALSE \in BOOLEAN /\ TRUE \in BOOLEAN
  OBVIOUS
<1> QED BY <1>1, Zenon DEF CRD

LEMMA DesiredType ==
  ASSUME TypeOK, NEW r \in Replicas,
         rep[r].main \notin {"Exited", "CreateSecret", "GetSecret"}
  PROVE  Desired(r) \in Config
<1>1. rep[r] \in Replica
  BY DEF TypeOK
<1>2. rep[r].cert \in Certs
  BY <1>1, ReplicasAssumption DEF TypeOK, Replica
<1> QED BY <1>2, Zenon DEF Desired, Config

LEMMA SeenStep ==
  ASSUME TypeOK, [Next]_vars
  PROVE  Seen'
<1> USE ReplicasAssumption, ObjectsAssumption
        DEF TypeOK, Seen, At, In, Goto, Registered, End, Ended, Replica, Desired
<1>1. ASSUME NEW r \in Replicas, Start(r) PROVE Seen'
  BY <1>1 DEF Start
<1>2. ASSUME NEW r \in Replicas, CreateSecret(r) PROVE Seen'
  BY <1>2 DEF CreateSecret
<1>3. ASSUME NEW r \in Replicas, GetSecret(r) PROVE Seen'
  BY <1>3 DEF GetSecret
<1>4. ASSUME NEW r \in Replicas, CreateConfig(r) PROVE Seen'
  BY <1>4 DEF CreateConfig
<1>5. ASSUME NEW r \in Replicas, GetConfig(r) PROVE Seen'
  BY <1>5 DEF GetConfig
<1>6. ASSUME NEW r \in Replicas, UpdateConfig(r) PROVE Seen'
  BY <1>6 DEF UpdateConfig
<1>7. ASSUME NEW r \in Replicas, Observe(r) PROVE Seen'
  BY <1>7 DEF Observe
<1>8. ASSUME NEW r \in Replicas, Acquire(r) PROVE Seen'
  BY <1>8 DEF Acquire
<1>9. ASSUME NEW r \in Replicas, Renew(r) PROVE Seen'
  BY <1>9 DEF Renew
<1>10. ASSUME NEW r \in Replicas, Cut(r) PROVE Seen'
  BY <1>10 DEF Cut
<1>11. ASSUME NEW r \in Replicas, RenewUnanswered(r) PROVE Seen'
  BY <1>11 DEF RenewUnanswered
<1>12. ASSUME NEW r \in Replicas, GiveUp(r) PROVE Seen'
  BY <1>12 DEF GiveUp
<1>13. ASSUME NEW r \in Replicas, CreateCRD(r) PROVE Seen'
  <2>1. [former |-> FALSE, established |-> FALSE] # None
    BY DefinitionTypes
  <2> QED BY <1>13, <2>1 DEF CreateCRD
<1>14. ASSUME NEW r \in Replicas, GetCRD(r) PROVE Seen'
  BY <1>14 DEF GetCRD
<1>15. ASSUME NEW r \in Replicas, UpdateCRD(r) PROVE Seen'
  BY <1>15 DEF UpdateCRD
<1>16. ASSUME NEW r \in Replicas, WaitCRD(r) PROVE Seen'
  BY <1>16 DEF WaitCRD
<1>17. ASSUME NEW r \in Replicas, Signal(r) PROVE Seen'
  BY <1>17 DEF Signal
<1>18. ASSUME NEW r \in Replicas, StopServer(r) PROVE Seen'
  BY <1>18 DEF StopServer
<1>19. ASSUME NEW r \in Replicas, StopController(r) PROVE Seen'
  BY <1>19 DEF StopController
<1>20. ASSUME NEW r \in Replicas, Exit(r) PROVE Seen'
  BY <1>20 DEF Exit
<1>21. ASSUME NEW r \in Replicas, Fatal(r) PROVE Seen'
  BY <1>21 DEF Fatal
<1>22. CASE Tick
  BY <1>22 DEF Tick
<1>23. CASE Establish
  <2>1. crd \in CRD /\ crd' = [crd EXCEPT !.established = TRUE]
    BY <1>23 DEF Establish
  <2>2. crd' \in CRD
    BY <2>1, DefinitionTypes, Zenon
  <2>3. crd' # None
    BY <2>2, Zenon
  <2> QED BY <1>23, <2>3 DEF Establish
<1>24. CASE UNCHANGED vars
  BY <1>24 DEF vars
<1> QED
  BY <1>1, <1>2, <1>3, <1>4, <1>5, <1>6, <1>7, <1>8, <1>9, <1>10, <1>11, <1>12,
      <1>13, <1>14, <1>15, <1>16, <1>17, <1>18, <1>19, <1>20, <1>21, <1>22, <1>23,
      <1>24 DEF Next, Proceed, Elect, Lead

LEMMA ObjectsStep ==
  ASSUME TypeOK, [Next]_vars
  PROVE  ObjectsType'
<1> USE ReplicasAssumption, ObjectsAssumption
        DEF TypeOK, ObjectsType, Ages, End, Touched
<1>1. ASSUME NEW r \in Replicas, Start(r) PROVE ObjectsType'
  BY <1>1 DEF Start
<1>2. ASSUME NEW r \in Replicas, CreateSecret(r) PROVE ObjectsType'
  BY <1>2 DEF CreateSecret
<1>3. ASSUME NEW r \in Replicas, GetSecret(r) PROVE ObjectsType'
  BY <1>3 DEF GetSecret
<1>4. ASSUME NEW r \in Replicas, CreateConfig(r) PROVE ObjectsType'
  BY <1>4, DesiredType DEF CreateConfig, Registered, At
<1>5. ASSUME NEW r \in Replicas, GetConfig(r) PROVE ObjectsType'
  BY <1>5 DEF GetConfig
<1>6. ASSUME NEW r \in Replicas, UpdateConfig(r) PROVE ObjectsType'
  BY <1>6, DesiredType DEF UpdateConfig, Registered, At
<1>7. ASSUME NEW r \in Replicas, Observe(r) PROVE ObjectsType'
  BY <1>7 DEF Observe
<1>8. ASSUME NEW r \in Replicas, Acquire(r) PROVE ObjectsType'
  BY <1>8 DEF Acquire
<1>9. ASSUME NEW r \in Replicas, Renew(r) PROVE ObjectsType'
  BY <1>9 DEF Renew
<1>10. ASSUME NEW r \in Replicas, Cut(r) PROVE ObjectsType'
  BY <1>10 DEF Cut
<1>11. ASSUME NEW r \in Replicas, RenewUnanswered(r) PROVE ObjectsType'
  BY <1>11 DEF RenewUnanswered
<1>12. ASSUME NEW r \in Replicas, GiveUp(r) PROVE ObjectsType'
  BY <1>12 DEF GiveUp
<1>13. ASSUME NEW r \in Replicas, CreateCRD(r) PROVE ObjectsType'
  BY <1>13, DefinitionTypes DEF CreateCRD
<1>14. ASSUME NEW r \in Replicas, GetCRD(r) PROVE ObjectsType'
  BY <1>14 DEF GetCRD
<1>15. ASSUME NEW r \in Replicas, UpdateCRD(r) PROVE ObjectsType'
  BY <1>15, DefinitionTypes DEF UpdateCRD, In
<1>16. ASSUME NEW r \in Replicas, WaitCRD(r) PROVE ObjectsType'
  BY <1>16 DEF WaitCRD
<1>17. ASSUME NEW r \in Replicas, Signal(r) PROVE ObjectsType'
  BY <1>17 DEF Signal
<1>18. ASSUME NEW r \in Replicas, StopServer(r) PROVE ObjectsType'
  BY <1>18 DEF StopServer
<1>19. ASSUME NEW r \in Replicas, StopController(r) PROVE ObjectsType'
  BY <1>19 DEF StopController
<1>20. ASSUME NEW r \in Replicas, Exit(r) PROVE ObjectsType'
  BY <1>20 DEF Exit
<1>21. ASSUME NEW r \in Replicas, Fatal(r) PROVE ObjectsType'
  BY <1>21 DEF Fatal
<1>22. CASE Tick
  BY <1>22 DEF Tick
<1>23. CASE Establish
  BY <1>23, DefinitionTypes DEF Establish
<1>24. CASE UNCHANGED vars
  BY <1>24 DEF vars
<1> QED
  BY <1>1, <1>2, <1>3, <1>4, <1>5, <1>6, <1>7, <1>8, <1>9, <1>10, <1>11, <1>12,
      <1>13, <1>14, <1>15, <1>16, <1>17, <1>18, <1>19, <1>20, <1>21, <1>22, <1>23,
      <1>24 DEF Next, Proceed, Elect, Lead

LEMMA InitEnded ==
  Init => \A r \in Replicas : /\ rep[r].main = "Exited" /\ rep[r].run = "off"
                               /\ rep[r].server = "off" /\ rep[r].cert = None
<1> SUFFICES ASSUME Init, NEW r \in Replicas
             PROVE  /\ rep[r].main = "Exited" /\ rep[r].run = "off"
                    /\ rep[r].server = "off" /\ rep[r].cert = None
  OBVIOUS
<1>1. rep[r] = Ended
  BY Zenon DEF Init
<1> QED BY <1>1 DEF Ended

LEMMA UsedStep ==
  ASSUME TypeOK, [Next]_vars
  PROVE  used' \in Bounds
<1> USE ReplicasAssumption DEF TypeOK, Bounds
<1>1. ASSUME NEW r \in Replicas, Start(r) PROVE used' \in Bounds
  BY <1>1 DEF Start
<1>2. ASSUME NEW r \in Replicas, CreateSecret(r) PROVE used' \in Bounds
  BY <1>2 DEF CreateSecret
<1>3. ASSUME NEW r \in Replicas, GetSecret(r) PROVE used' \in Bounds
  BY <1>3 DEF GetSecret
<1>4. ASSUME NEW r \in Replicas, CreateConfig(r) PROVE used' \in Bounds
  BY <1>4 DEF CreateConfig
<1>5. ASSUME NEW r \in Replicas, GetConfig(r) PROVE used' \in Bounds
  BY <1>5 DEF GetConfig
<1>6. ASSUME NEW r \in Replicas, UpdateConfig(r) PROVE used' \in Bounds
  BY <1>6 DEF UpdateConfig
<1>7. ASSUME NEW r \in Replicas, Observe(r) PROVE used' \in Bounds
  BY <1>7 DEF Observe
<1>8. ASSUME NEW r \in Replicas, Acquire(r) PROVE used' \in Bounds
  BY <1>8 DEF Acquire
<1>9. ASSUME NEW r \in Replicas, Renew(r) PROVE used' \in Bounds
  BY <1>9 DEF Renew
<1>10. ASSUME NEW r \in Replicas, Cut(r) PROVE used' \in Bounds
  BY <1>10 DEF Cut
<1>11. ASSUME NEW r \in Replicas, RenewUnanswered(r) PROVE used' \in Bounds
  BY <1>11 DEF RenewUnanswered
<1>12. ASSUME NEW r \in Replicas, GiveUp(r) PROVE used' \in Bounds
  BY <1>12 DEF GiveUp
<1>13. ASSUME NEW r \in Replicas, CreateCRD(r) PROVE used' \in Bounds
  BY <1>13 DEF CreateCRD
<1>14. ASSUME NEW r \in Replicas, GetCRD(r) PROVE used' \in Bounds
  BY <1>14 DEF GetCRD
<1>15. ASSUME NEW r \in Replicas, UpdateCRD(r) PROVE used' \in Bounds
  BY <1>15 DEF UpdateCRD
<1>16. ASSUME NEW r \in Replicas, WaitCRD(r) PROVE used' \in Bounds
  BY <1>16 DEF WaitCRD
<1>17. ASSUME NEW r \in Replicas, Signal(r) PROVE used' \in Bounds
  BY <1>17 DEF Signal
<1>18. ASSUME NEW r \in Replicas, StopServer(r) PROVE used' \in Bounds
  BY <1>18 DEF StopServer
<1>19. ASSUME NEW r \in Replicas, StopController(r) PROVE used' \in Bounds
  BY <1>19 DEF StopController
<1>20. ASSUME NEW r \in Replicas, Exit(r) PROVE used' \in Bounds
  BY <1>20 DEF Exit
<1>21. ASSUME NEW r \in Replicas, Fatal(r) PROVE used' \in Bounds
  BY <1>21 DEF Fatal
<1>22. CASE Tick
  BY <1>22 DEF Tick
<1>23. CASE Establish
  BY <1>23 DEF Establish
<1>24. CASE UNCHANGED vars
  BY <1>24 DEF vars
<1> QED
  BY <1>1, <1>2, <1>3, <1>4, <1>5, <1>6, <1>7, <1>8, <1>9, <1>10, <1>11, <1>12,
      <1>13, <1>14, <1>15, <1>16, <1>17, <1>18, <1>19, <1>20, <1>21, <1>22, <1>23,
      <1>24 DEF Next, Proceed, Elect, Lead

LEMMA NextType == TypeOK /\ [Next]_vars => TypeOK'
<1> SUFFICES ASSUME TypeOK, [Next]_vars PROVE TypeOK'
  OBVIOUS
<1>1. rep' \in Reps
  <2>1. rep \in Reps
    BY DEF TypeOK, Reps
  <2>2. CASE Next
    BY <2>1, <2>2, RepStep DEF Next, Proceed, Elect, Lead, Tick, Establish
  <2>3. CASE UNCHANGED vars
    BY <2>1, <2>3 DEF vars
  <2> QED BY <2>2, <2>3
<1> QED
  BY <1>1, SeenStep, ObjectsStep, UsedStep
     DEF TypeOK, Reps, Seen, ObjectsType, Ages, Bounds, At

\* The variables stay within their types, for any number of replicas and
\* signals, and any durations.
THEOREM ReplicasTypeCorrect == Spec => []TypeOK
<1> QED BY InitType, NextType, PTL DEF Spec
-----------------------------------------------------------------------------
(* The lock.                                                               *)

\* The replica that runs the controller is the one that renews the lock.  The
\* record names it, it has renewed it in time or is about to give up, and
\* nobody else has been looking at the record for longer.
LockInv ==
  \A r \in Replicas :
    /\ Active(r) <=> At(r, "Renew")
    /\ At(r, "Renew") => /\ holder = r
                         /\ age[r] \in 0 .. Deadline(r)
                         /\ \A q \in Replicas : age[q] # None => age[q] <= age[r]

\* A step that leaves the lock alone, and the calls of whoever renews it.
LEMMA LockKept ==
  ASSUME LockInv, UNCHANGED <<holder, age>>,
         \A q \in Replicas : /\ Active(q)' = Active(q)
                            /\ At(q, "Renew")' = At(q, "Renew")
                            /\ rep'[q].cut = rep[q].cut
  PROVE  LockInv'
BY DEF LockInv, Deadline

LEMMA LockStep ==
  ASSUME TypeOK, LockInv, [Next]_vars
  PROVE  LockInv'
<1> USE ReplicasAssumption, ObjectsAssumption
        DEF TypeOK, LockInv, Active, Deadline, Touched, Expired, At, In, Goto,
            Registered, End, Ended, Stopping, Replica
<1>1. ASSUME NEW r \in Replicas, Start(r) PROVE LockInv'
  BY <1>1 DEF Start
<1>2. ASSUME NEW r \in Replicas, CreateSecret(r) PROVE LockInv'
  BY <1>2 DEF CreateSecret
<1>3. ASSUME NEW r \in Replicas, GetSecret(r) PROVE LockInv'
  BY <1>3 DEF GetSecret
<1>4. ASSUME NEW r \in Replicas, CreateConfig(r) PROVE LockInv'
  <2>1. /\ \A q \in Replicas \ {r} : rep'[q] = rep[q]
        /\ rep'[r].main # "Renew" /\ rep[r].main # "Renew"
        /\ rep'[r].run = rep[r].run /\ rep'[r].cut = rep[r].cut
        /\ UNCHANGED <<holder, age>>
    BY <1>4 DEF CreateConfig
  <2> HIDE DEF LockInv
  <2> QED BY <2>1, LockKept
<1>5. ASSUME NEW r \in Replicas, GetConfig(r) PROVE LockInv'
  <2>1. /\ \A q \in Replicas \ {r} : rep'[q] = rep[q]
        /\ rep'[r].main # "Renew" /\ rep[r].main # "Renew"
        /\ rep'[r].run = rep[r].run /\ rep'[r].cut = rep[r].cut
        /\ UNCHANGED <<holder, age>>
    BY <1>5 DEF GetConfig
  <2> HIDE DEF LockInv
  <2> QED BY <2>1, LockKept
<1>6. ASSUME NEW r \in Replicas, UpdateConfig(r) PROVE LockInv'
  BY <1>6 DEF UpdateConfig
<1>7. ASSUME NEW r \in Replicas, Observe(r) PROVE LockInv'
  BY <1>7 DEF Observe
<1>8. ASSUME NEW r \in Replicas, Acquire(r) PROVE LockInv'
  BY <1>8 DEF Acquire
<1>9. ASSUME NEW r \in Replicas, Renew(r) PROVE LockInv'
  BY <1>9 DEF Renew
<1>10. ASSUME NEW r \in Replicas, Cut(r) PROVE LockInv'
  BY <1>10 DEF Cut
<1>11. ASSUME NEW r \in Replicas, RenewUnanswered(r) PROVE LockInv'
  BY <1>11 DEF RenewUnanswered
<1>12. ASSUME NEW r \in Replicas, GiveUp(r) PROVE LockInv'
  BY <1>12 DEF GiveUp
<1>13. ASSUME NEW r \in Replicas, CreateCRD(r) PROVE LockInv'
  BY <1>13 DEF CreateCRD
<1>14. ASSUME NEW r \in Replicas, GetCRD(r) PROVE LockInv'
  BY <1>14 DEF GetCRD
<1>15. ASSUME NEW r \in Replicas, UpdateCRD(r) PROVE LockInv'
  BY <1>15 DEF UpdateCRD
<1>16. ASSUME NEW r \in Replicas, WaitCRD(r) PROVE LockInv'
  BY <1>16 DEF WaitCRD
<1>17. ASSUME NEW r \in Replicas, Signal(r) PROVE LockInv'
  BY <1>17 DEF Signal
<1>18. ASSUME NEW r \in Replicas, StopServer(r) PROVE LockInv'
  BY <1>18 DEF StopServer
<1>19. ASSUME NEW r \in Replicas, StopController(r) PROVE LockInv'
  BY <1>19 DEF StopController
<1>20. ASSUME NEW r \in Replicas, Exit(r) PROVE LockInv'
  BY <1>20 DEF Exit
<1>21. ASSUME NEW r \in Replicas, Fatal(r) PROVE LockInv'
  BY <1>21 DEF Fatal
<1>22. CASE Tick
  BY <1>22 DEF Tick
<1>23. CASE Establish
  BY <1>23 DEF Establish
<1>24. CASE UNCHANGED vars
  BY <1>24 DEF vars
<1> QED
  BY <1>1, <1>2, <1>3, <1>4, <1>5, <1>6, <1>7, <1>8, <1>9, <1>10, <1>11, <1>12,
      <1>13, <1>14, <1>15, <1>16, <1>17, <1>18, <1>19, <1>20, <1>21, <1>22, <1>23,
      <1>24 DEF Next, Proceed, Elect, Lead

\* Two replicas never run the controller at once: whoever loses the lock to
\* another replica has given up before, however late it notices.
THEOREM OneActiveReplica == Spec => []AtMostOneActive
<1>1. Init => LockInv
  BY InitEnded DEF LockInv, Active, At, In
<1>2. TypeOK /\ LockInv /\ [Next]_vars => LockInv'
  BY LockStep
<1>3. LockInv => AtMostOneActive
  BY DEF LockInv, AtMostOneActive, At, Active
<1> QED BY <1>1, <1>2, <1>3, ReplicasTypeCorrect, PTL DEF Spec
-----------------------------------------------------------------------------
(* The certificate.                                                        *)

Early == {"Exited", "CreateSecret", "GetSecret"}

\* There is one certificate, that of the secret, in every replica that has
\* one; so whoever writes the configuration writes the same.
TrustInv ==
  \A r \in Replicas :
    /\ rep[r].cert \in {None, tls}
    /\ rep[r].server = "up" => /\ rep[r].main \notin Early
                               /\ config # None /\ config.ca = rep[r].cert

LEMMA TrustStep ==
  ASSUME TypeOK, TrustInv, [Next]_vars
  PROVE  TrustInv'
<1> USE ReplicasAssumption, ObjectsAssumption
        DEF TypeOK, TrustInv, Early, Desired, At, In, Goto, Registered, End, Ended,
            Stopping, Replica, Config
<1>1. ASSUME NEW r \in Replicas, Start(r) PROVE TrustInv'
  BY <1>1 DEF Start
<1>2. ASSUME NEW r \in Replicas, CreateSecret(r) PROVE TrustInv'
  BY <1>2 DEF CreateSecret
<1>3. ASSUME NEW r \in Replicas, GetSecret(r) PROVE TrustInv'
  BY <1>3 DEF GetSecret
<1>4. ASSUME NEW r \in Replicas, CreateConfig(r) PROVE TrustInv'
  BY <1>4 DEF CreateConfig
<1>5. ASSUME NEW r \in Replicas, GetConfig(r) PROVE TrustInv'
  <2>1. CASE config = Desired(r) /\ Registered(r)
    <3>1. config.ca = rep[r].cert
      BY <2>1
    <3> QED BY <1>5, <2>1, <3>1 DEF GetConfig
  <2>2. CASE rep' = [rep EXCEPT ![r].main = "UpdateConfig", ![r].seen = config]
    BY <1>5, <2>2 DEF GetConfig
  <2> QED BY <1>5, <2>1, <2>2 DEF GetConfig
<1>6. ASSUME NEW r \in Replicas, UpdateConfig(r) PROVE TrustInv'
  BY <1>6 DEF UpdateConfig
<1>7. ASSUME NEW r \in Replicas, Observe(r) PROVE TrustInv'
  BY <1>7 DEF Observe
<1>8. ASSUME NEW r \in Replicas, Acquire(r) PROVE TrustInv'
  BY <1>8 DEF Acquire
<1>9. ASSUME NEW r \in Replicas, Renew(r) PROVE TrustInv'
  BY <1>9 DEF Renew
<1>10. ASSUME NEW r \in Replicas, Cut(r) PROVE TrustInv'
  BY <1>10 DEF Cut
<1>11. ASSUME NEW r \in Replicas, RenewUnanswered(r) PROVE TrustInv'
  BY <1>11 DEF RenewUnanswered
<1>12. ASSUME NEW r \in Replicas, GiveUp(r) PROVE TrustInv'
  BY <1>12 DEF GiveUp
<1>13. ASSUME NEW r \in Replicas, CreateCRD(r) PROVE TrustInv'
  BY <1>13 DEF CreateCRD
<1>14. ASSUME NEW r \in Replicas, GetCRD(r) PROVE TrustInv'
  BY <1>14 DEF GetCRD
<1>15. ASSUME NEW r \in Replicas, UpdateCRD(r) PROVE TrustInv'
  <2>1. \A q \in Replicas :
          \/ /\ rep'[q].main = rep[q].main /\ rep'[q].server = rep[q].server
             /\ rep'[q].cert = rep[q].cert
          \/ rep'[q].cert = None /\ rep'[q].server = "off"
    BY <1>15 DEF UpdateCRD
  <2> QED BY <1>15, <2>1 DEF UpdateCRD
<1>16. ASSUME NEW r \in Replicas, WaitCRD(r) PROVE TrustInv'
  BY <1>16 DEF WaitCRD
<1>17. ASSUME NEW r \in Replicas, Signal(r) PROVE TrustInv'
  BY <1>17 DEF Signal
<1>18. ASSUME NEW r \in Replicas, StopServer(r) PROVE TrustInv'
  BY <1>18 DEF StopServer
<1>19. ASSUME NEW r \in Replicas, StopController(r) PROVE TrustInv'
  BY <1>19 DEF StopController
<1>20. ASSUME NEW r \in Replicas, Exit(r) PROVE TrustInv'
  BY <1>20 DEF Exit
<1>21. ASSUME NEW r \in Replicas, Fatal(r) PROVE TrustInv'
  BY <1>21 DEF Fatal
<1>22. CASE Tick
  BY <1>22 DEF Tick
<1>23. CASE Establish
  BY <1>23 DEF Establish
<1>24. CASE UNCHANGED vars
  BY <1>24 DEF vars
<1> QED
  BY <1>1, <1>2, <1>3, <1>4, <1>5, <1>6, <1>7, <1>8, <1>9, <1>10, <1>11, <1>12,
      <1>13, <1>14, <1>15, <1>16, <1>17, <1>18, <1>19, <1>20, <1>21, <1>22, <1>23,
      <1>24 DEF Next, Proceed, Elect, Lead

\* Every replica that serves the webhook serves the certificate that the
\* configuration trusts, whatever races there are on the way up.
THEOREM CertificateIsTrusted == Spec => []TrustedCertificate
<1>1. Init => TrustInv
  BY InitEnded DEF TrustInv
<1>2. TypeOK /\ TrustInv /\ [Next]_vars => TrustInv'
  BY TrustStep
<1>3. TrustInv => TrustedCertificate
  BY DEF TrustInv, TrustedCertificate
<1> QED BY <1>1, <1>2, <1>3, ReplicasTypeCorrect, PTL DEF Spec
-----------------------------------------------------------------------------
(* The custom resource definition.                                         *)

\* Nobody makes the definition an earlier version again.
DefinedInv ==
  \A r \in Replicas :
    /\ rep[r].run \in {"WaitCRD", "Control"} => crd # None /\ crd.former = FALSE
    /\ In(r, "Control") => crd.established = TRUE

LEMMA DefinedStep ==
  ASSUME TypeOK, DefinedInv, [Next]_vars
  PROVE  DefinedInv'
<1> USE ReplicasAssumption, ObjectsAssumption
        DEF TypeOK, DefinedInv, At, In, Goto, Registered, End, Ended, Stopping,
            Replica, CRD
<1>1. ASSUME NEW r \in Replicas, Start(r) PROVE DefinedInv'
  BY <1>1 DEF Start
<1>2. ASSUME NEW r \in Replicas, CreateSecret(r) PROVE DefinedInv'
  BY <1>2 DEF CreateSecret
<1>3. ASSUME NEW r \in Replicas, GetSecret(r) PROVE DefinedInv'
  BY <1>3 DEF GetSecret
<1>4. ASSUME NEW r \in Replicas, CreateConfig(r) PROVE DefinedInv'
  BY <1>4 DEF CreateConfig
<1>5. ASSUME NEW r \in Replicas, GetConfig(r) PROVE DefinedInv'
  BY <1>5 DEF GetConfig
<1>6. ASSUME NEW r \in Replicas, UpdateConfig(r) PROVE DefinedInv'
  <2>1. \A q \in Replicas : rep'[q].run = rep[q].run \/ rep'[q].run = "off"
    BY <1>6 DEF UpdateConfig
  <2> QED BY <1>6, <2>1 DEF UpdateConfig
<1>7. ASSUME NEW r \in Replicas, Observe(r) PROVE DefinedInv'
  BY <1>7 DEF Observe
<1>8. ASSUME NEW r \in Replicas, Acquire(r) PROVE DefinedInv'
  BY <1>8 DEF Acquire
<1>9. ASSUME NEW r \in Replicas, Renew(r) PROVE DefinedInv'
  BY <1>9 DEF Renew
<1>10. ASSUME NEW r \in Replicas, Cut(r) PROVE DefinedInv'
  BY <1>10 DEF Cut
<1>11. ASSUME NEW r \in Replicas, RenewUnanswered(r) PROVE DefinedInv'
  BY <1>11 DEF RenewUnanswered
<1>12. ASSUME NEW r \in Replicas, GiveUp(r) PROVE DefinedInv'
  BY <1>12 DEF GiveUp
<1>13. ASSUME NEW r \in Replicas, CreateCRD(r) PROVE DefinedInv'
  <2>1. [former |-> FALSE, established |-> FALSE] # None
    BY DefinitionTypes
  <2> QED BY <1>13, <2>1 DEF CreateCRD
<1>14. ASSUME NEW r \in Replicas, GetCRD(r) PROVE DefinedInv'
  <2>1. CASE rep' = [rep EXCEPT ![r].run = "WaitCRD"] /\ ~crd.former
    <3>1. crd \in CRD
      BY <1>14 DEF GetCRD
    <3>2. crd.former = FALSE
      BY <2>1, <3>1
    <3> QED BY <1>14, <2>1, <3>1, <3>2 DEF GetCRD
  <2>2. CASE rep' = [rep EXCEPT ![r].run = "UpdateCRD", ![r].seen = crd]
    <3>1. \A q \in Replicas : rep'[q].run = rep[q].run \/ rep'[q].run = "UpdateCRD"
      BY <2>2
    <3> QED BY <1>14, <3>1 DEF GetCRD
  <2> QED BY <1>14, <2>1, <2>2 DEF GetCRD
<1>15. ASSUME NEW r \in Replicas, UpdateCRD(r) PROVE DefinedInv'
  BY <1>15 DEF UpdateCRD
<1>16. ASSUME NEW r \in Replicas, WaitCRD(r) PROVE DefinedInv'
  BY <1>16 DEF WaitCRD
<1>17. ASSUME NEW r \in Replicas, Signal(r) PROVE DefinedInv'
  <2>1. \A q \in Replicas : rep'[q].run = rep[q].run \/ rep'[q].run = "off"
    BY <1>17 DEF Signal
  <2> QED BY <1>17, <2>1 DEF Signal
<1>18. ASSUME NEW r \in Replicas, StopServer(r) PROVE DefinedInv'
  BY <1>18 DEF StopServer
<1>19. ASSUME NEW r \in Replicas, StopController(r) PROVE DefinedInv'
  BY <1>19 DEF StopController
<1>20. ASSUME NEW r \in Replicas, Exit(r) PROVE DefinedInv'
  BY <1>20 DEF Exit
<1>21. ASSUME NEW r \in Replicas, Fatal(r) PROVE DefinedInv'
  BY <1>21 DEF Fatal
<1>22. CASE Tick
  BY <1>22 DEF Tick
<1>23. CASE Establish
  BY <1>23 DEF Establish
<1>24. CASE UNCHANGED vars
  BY <1>24 DEF vars
<1> QED
  BY <1>1, <1>2, <1>3, <1>4, <1>5, <1>6, <1>7, <1>8, <1>9, <1>10, <1>11, <1>12,
      <1>13, <1>14, <1>15, <1>16, <1>17, <1>18, <1>19, <1>20, <1>21, <1>22, <1>23,
      <1>24 DEF Next, Proceed, Elect, Lead

\* The controller runs only once the resource is served as it is defined by
\* this version of the operator.
THEOREM ResourceDefinedFirst == Spec => []DefinedFirst
<1>1. Init => DefinedInv
  BY InitEnded DEF DefinedInv, In
<1>2. TypeOK /\ DefinedInv /\ [Next]_vars => DefinedInv'
  BY DefinedStep
<1>3. TypeOK /\ DefinedInv => DefinedFirst
  <2> SUFFICES ASSUME TypeOK, DefinedInv, NEW r \in Replicas, In(r, "Control")
               PROVE  crd = [former |-> FALSE, established |-> TRUE]
    BY DEF DefinedFirst
  <2>1. crd \in CRD /\ crd.former = FALSE /\ crd.established = TRUE
    BY DEF TypeOK, DefinedInv, In
  <2> QED BY <2>1 DEF CRD
<1> QED BY <1>1, <1>2, <1>3, ReplicasTypeCorrect, PTL DEF Spec
=============================================================================
