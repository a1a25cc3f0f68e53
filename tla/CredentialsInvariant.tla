------------------------ MODULE CredentialsInvariant ------------------------
(***************************************************************************)
(* Why the credentials that pods are given are the right ones.  A password *)
(* takes a long way: it is set on the instance, written to the secret in   *)
(* the operator's namespace, announced in the status of the object, read   *)
(* by the webhook and written to the secret in the namespace of the pod.   *)
(* The invariant says what each station knows about the earlier ones.  It  *)
(* is about the first object of a name: a successor may find what its      *)
(* predecessor has left behind (see the README).                           *)
(***************************************************************************)
EXTENDS AdmissionWebhook, OrphanInvariant

Deletion == {"DeleteGet", "Delete", "RemoveFinalizer"}

\* The versions of k between the cache and the API server.
Logged(k) == {log[k][j] : j \in 1 .. Len(log[k])}

\* The object that is stored is the first of its name.
Original(k) == Live(k) # None /\ Live(k).uid = history.first[k]

\* There has been no object, or the first one is still there.
Sole(k) == history.first[k] = None \/ Original(k)

\* The status says that the instance has been looked after: the connection name
\* is reported, or the settings have been compared.
Tells(o) == o.conn \/ o.conds.upToDate # ""

\* The password of k has been written.
Known(k) == secret[k] # None /\ secret[k].pw # None

\* The object is on its way out, as far as anybody can tell from the cache, and
\* no sync is under way that takes it for one to be looked after.
Ending(k) ==
  /\ \A o \in Logged(k) : Condemned(o)
  /\ w.key = k => w.pc \notin Setting \cup {"AddFinalizer"}

\* The steps of an admission at which it has learned nothing yet.
Unread == {"none", "GetObject"}
-----------------------------------------------------------------------------
\* Whatever tells of an object tells of the first one, while that is stored.
OnlyFirst ==
  \A k \in Keys :
    /\ history.first[k] # None => history.first[k] <= used.uids
    /\ Sole(k) =>
         /\ \A o \in Logged(k) : o # None => o.uid = history.first[k]
         /\ secret[k] # None => secret[k].uid = history.first[k]
         /\ w.key = k => w.p.uid = history.first[k]
         /\ \A ns \in Namespaces :
              local[ns, k] # None => local[ns, k].uid = history.first[k]
         /\ \A p \in Pods :
              KeyOf(p) = k /\ pod[p].pc \notin Unread => pod[p].uid = history.first[k]

\* An object that was protected is, and one whose deletion has been seen is
\* condemned.
Firm ==
  \A k \in Keys : Original(k) =>
    /\ \A o \in Logged(k) : Protected(o) => Protected(Live(k))
    /\ w.key = k /\ w.pc \in Deletion => Condemned(Live(k))

\* That is announced only when there is a password.
Announced ==
  \A k \in Keys : Original(k) =>
    /\ \A o \in Logged(k) : o # None /\ Tells(o) => Known(k)
    /\ w.key = k /\ (Tells(w.p) \/ w.pc \in {"MaybeUpdate", "GetUpdated"}) => Known(k)

\* The webhook takes the password on, and nothing takes the copies away.
Copied ==
  \A k \in Keys : Original(k) =>
    /\ \A ns \in Namespaces :
         local[ns, k] # None => Known(k) /\ local[ns, k].pw = secret[k].pw
    /\ \A p \in Pods : KeyOf(p) = k =>
         /\ InPod(p, "GetSecret") /\ pod[p].conn => Known(k)
         /\ pod[p].pc \in {"CreateLocal", "GetLocal", "PatchLocal"}
              => Known(k) /\ pod[p].pw = secret[k].pw
         /\ InPod(p, "admitted") => local[Target[p]] # None

\* What is about to be written is a password, and a worker that rests is not
\* concerned with any object.
Chosen ==
  /\ At("PutSecret") => w.pw # None
  /\ w.pc \in {"Idle", "Panic"} => w.key = None

\* A request to delete an instance is made for the first object only when that
\* is on its way out.
Sought ==
  \A k \in Keys, n \in Names :
    Sole(k) /\ <<k, n>> \in Requests /\ cloud[n].asked => Original(k) /\ Ending(k)

\* Provided that nobody else deletes instances: the password is set on the
\* instance before it is written, and the instance stays until the object goes.
Served ==
  \A k \in Keys : Original(k) =>
    /\ At("PutSecret") /\ w.key = k => Exists(Name) /\ cloud[Name].pw = w.pw
    /\ Known(k) => /\ Exists(Live(k).name) \/ Ending(k)
                   /\ MadeFor(Live(k).name, k, Live(k))
                        => cloud[Live(k).name].pw = secret[k].pw

\* Whatever is done to its instance: the secret of a pod that was given access
\* belongs to the object and holds the password in the operator's own secret;
\* which is the one on the instance, unless that has been made anew.
CopiesAgree ==
  \A p \in Pods :
    LET k == KeyOf(p)
        o == Live(k)
        s == local[Target[p]]
    IN InPod(p, "admitted") /\ Original(k) /\ o.uid = pod[p].uid
       => /\ s # None /\ s.uid = o.uid /\ Known(k) /\ s.pw = secret[k].pw
          /\ MadeFor(o.name, k, o) => cloud[o.name].pw \in {None, s.pw}

\* What docs/design/00-overview.adoc:74 says of generated passwords does hold of
\* the first object of a name, as long as nobody else deletes its instance: one
\* that is reported as up to date has been given a password, since a sync looks
\* at the settings only after the secret, and trusts a secret only if its
\* password was set on this instance (compare PasswordGenerated).
PasswordGeneratedOnce ==
  \A k \in Keys :
    /\ Original(k) /\ Live(k).conds.upToDate = "InstanceUpToDate"
    /\ MadeFor(Live(k).name, k, Live(k))
    => cloud[Live(k).name].pw # None

\* An instance that is being deleted is one whose deletion has been asked for.
DeletionAsked == \A n \in Names : cloud[n].st = "Deleting" => cloud[n].asked

\* Nobody but the operator deletes instances: one is there until the operator
\* has asked for its deletion.
Stays == \A n \in Names : Exists(n) /\ ~cloud[n].asked => Exists(n)'

NothingLost == [][Stays]_<<vars, admission>>

\* What is inductive whatever is done to instances.
CopiesInv == OnlyFirst /\ Firm /\ Announced /\ Copied /\ Chosen

\* The invariant that is inductive as long as nothing is lost: each station of
\* the password agrees with the ones before it, however far behind the cache is
\* and wherever a sync, an admission or a call is interrupted.
CredentialsInv == CopiesInv /\ Sought /\ Served
=============================================================================
