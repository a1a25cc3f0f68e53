--------------------------- MODULE OrphanInvariant ---------------------------
(***************************************************************************)
(* Why no instance is ever orphaned.  The controller reads objects from a  *)
(* cache that may be several versions behind, and yet adds and removes the *)
(* finalizer at the right time.  The invariant below says what a version   *)
(* read from the cache tells about the versions that follow it, and what   *)
(* each phase of a sync may rely on.                                       *)
(***************************************************************************)
EXTENDS ControllerProperties

Protected(e) == e # None /\ e.fin
Condemned(e) == Protected(e) /\ e.del
Same(e, f) == e.uid = f.uid /\ e.name = f.name

\* The steps of a sync from reading the instance to writing the password.
Setting == {"Get", "Insert", "GetNew", "ListOps", "GetSecret", "CreateSecret",
            "SetPassword", "PutSecret"}

\* The versions s of an object, oldest first: once there is one that is
\* protected and not preceded by condemned ones only, the object stays and
\* stays protected; the successors of a condemned version are condemned
\* versions of the same object until one that is not protected any more.
Coherent(s) ==
  /\ \A j, l \in 1 .. Len(s) :
       j <= l /\ ~Condemned(s[j]) /\ Protected(s[l])
         => Protected(s[Len(s)]) /\ Same(s[Len(s)], s[l])
  /\ \A j, m, l \in 1 .. Len(s) :
       j <= m /\ m <= l /\ Condemned(s[j]) /\ Protected(s[l])
         => Condemned(s[m]) /\ Same(s[j], s[m])

\* No version was protected unless the last one is.
Kept(s) == \A l \in 1 .. Len(s) : Protected(s[l]) => Protected(s[Len(s)])

\* A protected version is preceded only by condemned versions of o.
Doomed(s, o) ==
  \A j, l \in 1 .. Len(s) :
    j <= l /\ Protected(s[l]) => Condemned(s[j]) /\ Same(s[j], o)

\* Nobody owns what is not there.
Vacant == \A n \in Names : ~Exists(n) => cloud[n].by = None

\* The finalizer is about to be added to an object that has never had it.
Adding == At("AddFinalizer") => Kept(log[w.key])

\* An instance is about to be created for the object that is stored.
Creating ==
  w.pc \in {"Get", "Insert"} => Protected(Live(w.key)) /\ Same(Live(w.key), w.p)

\* The cached deletion timestamp is not out of date.
Deleting ==
  w.pc \in {"DeleteGet", "Delete", "RemoveFinalizer"}
    => w.p = w.i /\ Doomed(log[w.key], w.i)

\* Nothing is left that would be orphaned when the finalizer is removed.
Cleared ==
  At("RemoveFinalizer")
    => \A n \in Names : cloud[n].by # None /\ ~cloud[n].asked => cloud[n].by[1] # w.key

\* The invariant that is inductive, for any number of objects, names, faults
\* and versions the cache may be behind.
OrphanInv ==
  /\ TypeOK
  /\ Vacant
  /\ NoOrphan
  /\ \A k \in Keys : Coherent(log[k])
  /\ Adding
  /\ Creating
  /\ Deleting
  /\ Cleared
=============================================================================
