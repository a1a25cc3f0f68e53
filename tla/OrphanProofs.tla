----------------------------- MODULE OrphanProofs -----------------------------
(***************************************************************************)
(* Proof that no instance is ever orphaned, for every value of the         *)
(* constants.                                                              *)
(***************************************************************************)
EXTENDS ControllerProofs, OrphanInvariant

(* Versions.                                                               *)

\* e is a later version of the same object, with the same finalizer.
Continues(live, e) ==
  /\ Protected(e) <=> Protected(live)
  /\ Protected(e) => Same(live, e) /\ (Condemned(live) => Condemned(e))

LEMMA AppendFacts ==
  ASSUME NEW S, NEW s \in Seq(S), s # <<>>, NEW e \in S
  PROVE  /\ Len(s) \in Nat /\ Len(s) > 0
         /\ Append(s, e) \in Seq(S)
         /\ Len(Append(s, e)) = Len(s) + 1
         /\ \A i \in 1 .. Len(s) : Append(s, e)[i] = s[i]
         /\ Append(s, e)[Len(s) + 1] = e
<1>1. Len(s) \in Nat /\ Len(s) # 0
  OBVIOUS
<1> QED BY <1>1

\* A version that continues the last one.
LEMMA ContinueLog ==
  ASSUME NEW S, NEW s \in Seq(S), s # <<>>, NEW e \in S,
         Continues(s[Len(s)], e)
  PROVE  /\ Coherent(s) => Coherent(Append(s, e))
         /\ Kept(s) => Kept(Append(s, e))
         /\ \A o : Doomed(s, o) => Doomed(Append(s, e), o)
<1> DEFINE t == Append(s, e)
           n == Len(s)
<1>1. /\ t = Append(s, e) /\ n = Len(s) /\ n \in Nat /\ n > 0 /\ Len(t) = n + 1
      /\ \A i \in 1 .. n : t[i] = s[i]
      /\ t[n + 1] = e
  BY AppendFacts
<1> HIDE DEF t, n
<1>2. \A i \in 1 .. n + 1 : i \in 1 .. n \/ i = n + 1
  BY <1>1
<1>3. n \in 1 .. n
  BY <1>1
<1>4. /\ Protected(e) <=> Protected(s[n])
      /\ Protected(e) => Same(s[n], e) /\ (Condemned(s[n]) => Condemned(e))
  BY <1>1 DEF Continues
<1>5. ASSUME Coherent(s) PROVE Coherent(t)
  <2>1. ASSUME NEW j \in 1 .. n + 1, NEW l \in 1 .. n + 1, j <= l,
               ~Condemned(t[j]), Protected(t[l])
        PROVE  Protected(t[n + 1]) /\ Same(t[n + 1], t[l])
    <3>1. CASE l \in 1 .. n
      <4>1. j \in 1 .. n /\ t[j] = s[j] /\ t[l] = s[l]
        BY <1>1, <2>1, <3>1
      <4>2. Protected(s[n]) /\ Same(s[n], s[l])
        BY <1>1, <1>5, <2>1, <3>1, <4>1 DEF Coherent
      <4> QED BY <1>1, <1>4, <4>1, <4>2 DEF Same
    <3>2. CASE l = n + 1
      BY <2>1, <3>2 DEF Same
    <3> QED BY <1>2, <3>1, <3>2
  <2>2. ASSUME NEW j \in 1 .. n + 1, NEW m \in 1 .. n + 1, NEW l \in 1 .. n + 1,
               j <= m, m <= l, Condemned(t[j]), Protected(t[l])
        PROVE  Condemned(t[m]) /\ Same(t[j], t[m])
    <3>1. CASE l \in 1 .. n
      <4>1. /\ j \in 1 .. n /\ m \in 1 .. n
            /\ t[j] = s[j] /\ t[m] = s[m] /\ t[l] = s[l]
        BY <1>1, <2>2, <3>1
      <4> QED BY <1>1, <1>5, <2>2, <3>1, <4>1 DEF Coherent
    <3>2. CASE l = n + 1 /\ j = n + 1
      <4>1. m = j
        BY <2>2, <3>2
      <4> QED BY <2>2, <4>1 DEF Same
    <3>3. CASE l = n + 1 /\ j \in 1 .. n
      <4>1. \A i \in 1 .. n : j <= i => Condemned(s[i]) /\ Same(s[j], s[i])
        BY <1>1, <1>3, <1>4, <1>5, <2>2, <3>3 DEF Coherent
      <4>2. CASE m \in 1 .. n
        BY <1>1, <2>2, <3>3, <4>1, <4>2
      <4>3. CASE m = n + 1
        <5>1. Condemned(s[n]) /\ Same(s[j], s[n])
          BY <1>3, <3>3, <4>1
        <5>2. Condemned(e) /\ Same(s[n], e)
          BY <1>1, <1>4, <2>2, <3>3, <5>1
        <5> QED BY <1>1, <3>3, <4>3, <5>1, <5>2 DEF Same
      <4> QED BY <1>2, <4>2, <4>3
    <3> QED BY <1>2, <3>1, <3>2, <3>3
  <2> QED BY <1>1, <2>1, <2>2 DEF Coherent
<1>6. ASSUME Kept(s) PROVE Kept(t)
  BY <1>1, <1>2, <1>4, <1>6 DEF Kept
<1>7. ASSUME NEW o, Doomed(s, o) PROVE Doomed(t, o)
  <2>1. ASSUME NEW j \in 1 .. n + 1, NEW l \in 1 .. n + 1, j <= l, Protected(t[l])
        PROVE  Condemned(t[j]) /\ Same(t[j], o)
    <3>1. CASE l \in 1 .. n
      <4>1. j \in 1 .. n /\ t[j] = s[j] /\ t[l] = s[l]
        BY <1>1, <2>1, <3>1
      <4> QED BY <1>1, <1>7, <2>1, <3>1, <4>1 DEF Doomed
    <3>2. CASE l = n + 1
      <4>1. \A i \in 1 .. n : Condemned(s[i]) /\ Same(s[i], o)
        BY <1>1, <1>3, <1>4, <1>7, <2>1, <3>2 DEF Doomed
      <4>2. CASE j \in 1 .. n
        BY <1>1, <4>1, <4>2
      <4>3. CASE j = n + 1
        BY <1>1, <1>3, <1>4, <2>1, <3>2, <4>1, <4>3 DEF Same
      <4> QED BY <1>2, <4>2, <4>3
    <3> QED BY <1>2, <3>1, <3>2
  <2> QED BY <1>1, <2>1 DEF Doomed
<1> QED BY <1>1, <1>5, <1>6, <1>7

\* The first protected version.
LEMMA ProtectLog ==
  ASSUME NEW S, NEW s \in Seq(S), s # <<>>, NEW e \in S,
         Kept(s), ~Protected(s[Len(s)])
  PROVE  Coherent(Append(s, e))
<1> DEFINE t == Append(s, e)
           n == Len(s)
<1>1. /\ t = Append(s, e) /\ n = Len(s) /\ n \in Nat /\ n > 0 /\ Len(t) = n + 1
      /\ \A i \in 1 .. n : t[i] = s[i]
      /\ t[n + 1] = e
  BY AppendFacts
<1> HIDE DEF t, n
<1>2. \A i \in 1 .. n : ~Protected(t[i])
  BY <1>1 DEF Kept
<1>3. \A i \in 1 .. n + 1 : Protected(t[i]) => i = n + 1
  BY <1>1, <1>2
<1>4. \A j, l \in 1 .. n + 1 :
        j <= l /\ ~Condemned(t[j]) /\ Protected(t[l])
          => Protected(t[n + 1]) /\ Same(t[n + 1], t[l])
  BY <1>3 DEF Same
<1>5. \A j, m, l \in 1 .. n + 1 :
        j <= m /\ m <= l /\ Condemned(t[j]) /\ Protected(t[l])
          => Condemned(t[m]) /\ Same(t[j], t[m])
  <2>1. \A j, m, l \in 1 .. n + 1 :
          j <= m /\ m <= l /\ Condemned(t[j]) /\ Protected(t[l]) => j = m
    BY <1>1, <1>3 DEF Condemned
  <2> QED BY <2>1 DEF Same
<1> QED BY <1>1, <1>4, <1>5 DEF Coherent

\* The finalizer is removed.
LEMMA ReleaseLog ==
  ASSUME NEW S, NEW s \in Seq(S), s # <<>>, NEW e \in S, NEW o,
         Coherent(s), Doomed(s, o), ~Protected(e)
  PROVE  Coherent(Append(s, e))
<1> DEFINE t == Append(s, e)
           n == Len(s)
<1>1. /\ t = Append(s, e) /\ n = Len(s) /\ n \in Nat /\ n > 0 /\ Len(t) = n + 1
      /\ \A i \in 1 .. n : t[i] = s[i]
      /\ t[n + 1] = e
  BY AppendFacts
<1> HIDE DEF t, n
<1>2. \A l \in 1 .. n + 1 : Protected(t[l]) => l \in 1 .. n /\ Protected(s[l])
  BY <1>1
<1>3. ASSUME NEW j \in 1 .. n + 1, NEW l \in 1 .. n + 1, j <= l, Protected(t[l])
      PROVE  Condemned(t[j])
  <2>1. j \in 1 .. n /\ l \in 1 .. n /\ Protected(s[l]) /\ t[j] = s[j]
    BY <1>1, <1>2, <1>3
  <2> QED BY <1>1, <1>3, <2>1 DEF Doomed
<1>4. ASSUME NEW j \in 1 .. n + 1, NEW m \in 1 .. n + 1, NEW l \in 1 .. n + 1,
             j <= m, m <= l, Condemned(t[j]), Protected(t[l])
      PROVE  Condemned(t[m]) /\ Same(t[j], t[m])
  <2>1. /\ j \in 1 .. n /\ m \in 1 .. n /\ l \in 1 .. n /\ Protected(s[l])
        /\ t[j] = s[j] /\ t[m] = s[m]
    BY <1>1, <1>2, <1>4
  <2> QED BY <1>1, <1>4, <2>1 DEF Coherent
<1> QED BY <1>1, <1>3, <1>4 DEF Coherent

\* The informer forgets old versions.
LEMMA SuffixLog ==
  ASSUME NEW S, NEW s \in Seq(S), NEW t \in Seq(S), Len(t) > 0,
         NEW d \in Nat, Len(s) = Len(t) + d,
         \A i \in 1 .. Len(t) : t[i] = s[i + d]
  PROVE  /\ t[Len(t)] = s[Len(s)]
         /\ Coherent(s) => Coherent(t)
         /\ Kept(s) => Kept(t)
         /\ \A o : Doomed(s, o) => Doomed(t, o)
<1>1. PICK n \in Nat : n = Len(t) /\ n > 0 /\ Len(s) = n + d
  OBVIOUS
<1>2. \A i \in 1 .. n : i + d \in 1 .. n + d /\ t[i] = s[i + d]
  BY <1>1
<1>3. t[n] = s[n + d]
  BY <1>1, <1>2
<1>4. ASSUME Coherent(s) PROVE Coherent(t)
  <2>1. ASSUME NEW j \in 1 .. n, NEW l \in 1 .. n, j <= l,
               ~Condemned(t[j]), Protected(t[l])
        PROVE  Protected(t[n]) /\ Same(t[n], t[l])
    <3>1. j + d <= l + d /\ j + d \in 1 .. n + d /\ l + d \in 1 .. n + d
      BY <1>2, <2>1
    <3>2. ~Condemned(s[j + d]) /\ Protected(s[l + d])
      BY <1>2, <2>1
    <3> QED BY <1>1, <1>2, <1>3, <1>4, <3>1, <3>2 DEF Coherent
  <2>2. ASSUME NEW j \in 1 .. n, NEW m \in 1 .. n, NEW l \in 1 .. n,
               j <= m, m <= l, Condemned(t[j]), Protected(t[l])
        PROVE  Condemned(t[m]) /\ Same(t[j], t[m])
    <3>1. /\ j + d <= m + d /\ m + d <= l + d
          /\ j + d \in 1 .. n + d /\ m + d \in 1 .. n + d /\ l + d \in 1 .. n + d
      BY <1>2, <2>2
    <3>2. Condemned(s[j + d]) /\ Protected(s[l + d])
      BY <1>2, <2>2
    <3>3. Condemned(s[m + d]) /\ Same(s[j + d], s[m + d])
      BY <1>1, <1>4, <3>1, <3>2 DEF Coherent
    <3> QED BY <1>2, <3>3
  <2> QED BY <1>1, <2>1, <2>2 DEF Coherent
<1>5. ASSUME Kept(s) PROVE Kept(t)
  BY <1>1, <1>2, <1>3, <1>5 DEF Kept
<1>6. ASSUME NEW o, Doomed(s, o) PROVE Doomed(t, o)
  <2>1. ASSUME NEW j \in 1 .. n, NEW l \in 1 .. n, j <= l, Protected(t[l])
        PROVE  Condemned(t[j]) /\ Same(t[j], o)
    <3>1. j + d <= l + d /\ j + d \in 1 .. n + d /\ l + d \in 1 .. n + d
      BY <1>2, <2>1
    <3>2. Protected(s[l + d])
      BY <1>2, <2>1
    <3>3. Condemned(s[j + d]) /\ Same(s[j + d], o)
      BY <1>1, <1>6, <3>1, <3>2 DEF Doomed
    <3> QED BY <1>2, <3>3
  <2> QED BY <1>1, <2>1 DEF Doomed
<1> QED BY <1>1, <1>3, <1>4, <1>5, <1>6
-----------------------------------------------------------------------------
(* What most steps have in common: the versions of an object only continue *)
(* or are forgotten, and instances get no new owners.                      *)

Advance ==
  \A k \in Keys :
    /\ Coherent(log[k]) => Coherent(log'[k])
    /\ Kept(log[k]) => Kept(log'[k])
    /\ \A o : Doomed(log[k], o) => Doomed(log'[k], o)
    /\ Continues(Live(k), Live(k)')

\* By and asked are history, so this is about what instances are there.
QuietCloud ==
  /\ Vacant'
  /\ \A n \in Names :
       \/ cloud'[n].by = None
       \/ /\ cloud'[n].by = cloud[n].by
          /\ cloud[n].asked => cloud'[n].asked

Critical == {"AddFinalizer", "Get", "Insert", "DeleteGet", "Delete", "RemoveFinalizer"}

SameWork == w'.pc = w.pc /\ w'.key = w.key /\ w'.i = w.i /\ w'.p = w.p

LEMMA LogType ==
  ASSUME TypeOK, NEW k \in Keys
  PROVE  log[k] \in Seq(Object \cup {None}) /\ log[k] # <<>>
BY DEF TypeOK

LEMMA CriticalKey == ASSUME TypeOK, w.pc \in Critical PROVE w.key \in Keys
BY DEF TypeOK, Critical

\* An instance that is owned keeps its owner when versions only continue.
LEMMA SteadyOwners ==
  ASSUME NoOrphan, Advance, QuietCloud
  PROVE  NoOrphan'
<1> SUFFICES ASSUME NEW n \in Names, NEW k \in Keys,
                    cloud'[n].by # None, cloud'[n].by[1] = k, ~cloud'[n].asked
             PROVE  MadeFor(n, k, Live(k))' /\ Live(k)'.fin
  BY DEF NoOrphan
<1>1. cloud'[n].by = cloud[n].by /\ ~cloud[n].asked
  BY DEF QuietCloud
<1>2. MadeFor(n, k, Live(k)) /\ Live(k).fin
  BY <1>1 DEF NoOrphan
<1>3. Protected(Live(k)) /\ cloud[n].by = <<k, Live(k).uid>> /\ Live(k).name = n
  BY <1>2 DEF MadeFor, Protected
<1>4. Protected(Live(k)') /\ Same(Live(k), Live(k)')
  BY <1>3 DEF Advance, Continues
<1> QED BY <1>1, <1>3, <1>4 DEF MadeFor, Protected, Same

\* Most steps keep the invariant.
LEMMA Steady ==
  ASSUME OrphanInv, TypeOK', Advance, QuietCloud, SameWork \/ w'.pc \notin Critical
  PROVE  OrphanInv'
<1>1. NoOrphan'
  BY SteadyOwners DEF OrphanInv
<1>2. \A k \in Keys : Coherent(log'[k])
  BY DEF OrphanInv, Advance
<1>3. CASE w'.pc \notin Critical
  BY <1>1, <1>2, <1>3 DEF OrphanInv, QuietCloud, Critical, Adding, Creating,
                          Deleting, Cleared, At
<1>4. CASE SameWork /\ w.pc \in Critical
  <2>1. w.key \in Keys
    BY <1>4, CriticalKey DEF OrphanInv
  <2>2. Adding'
    BY <1>4, <2>1 DEF OrphanInv, Adding, At, SameWork, Advance
  <2>3. Creating'
    <3>1. SUFFICES ASSUME w.pc \in {"Get", "Insert"}
                   PROVE  Protected(Live(w.key)') /\ Same(Live(w.key)', w.p)
      <4>1. Live(w.key)' = log'[w'.key][Len(log'[w'.key])]
        BY DEF Live
      <4> QED BY <1>4, <3>1 DEF Creating, SameWork, Live
    <3>2. Protected(Live(w.key)) /\ Same(Live(w.key), w.p)
      BY <3>1 DEF OrphanInv, Creating
    <3>3. Continues(Live(w.key), Live(w.key)')
      BY <1>4, <2>1 DEF Advance, SameWork, Live
    <3> QED BY <3>2, <3>3 DEF Continues, Same
  <2>4. Deleting'
    BY <1>4, <2>1 DEF OrphanInv, Deleting, SameWork, Advance
  <2>5. Cleared'
    BY <1>4 DEF OrphanInv, Cleared, At, SameWork, QuietCloud
  <2> QED BY <1>1, <1>2, <2>2, <2>3, <2>4, <2>5 DEF OrphanInv, QuietCloud
<1> QED BY <1>3, <1>4 DEF SameWork

\* Versions only continue when none is added ...
LEMMA AdvanceSame ==
  ASSUME UNCHANGED log
  PROVE  Advance
BY DEF Advance, Continues, Live, Same

\* ... when one is added that continues the last one ...
LEMMA AdvanceAppend ==
  ASSUME TypeOK, NEW k \in Keys, NEW e \in Object \cup {None},
         Continues(Live(k), e), log' = [log EXCEPT ![k] = Append(@, e)]
  PROVE  Advance
<1> SUFFICES ASSUME NEW j \in Keys
             PROVE  /\ Coherent(log[j]) => Coherent(log'[j])
                    /\ Kept(log[j]) => Kept(log'[j])
                    /\ \A o : Doomed(log[j], o) => Doomed(log'[j], o)
                    /\ Continues(Live(j), Live(j)')
  BY DEF Advance
<1>1. CASE j # k
  <2>1. log'[j] = log[j]
    BY <1>1 DEF TypeOK
  <2> QED BY <2>1 DEF Continues, Live, Same
<1>2. CASE j = k
  <2>1. log'[k] = Append(log[k], e)
    BY DEF TypeOK
  <2>2. log[k] \in Seq(Object \cup {None}) /\ log[k] # <<>>
    BY LogType
  <2>3. Continues(log[k][Len(log[k])], e)
    BY DEF Live
  <2>4. Live(k)' = e
    <3>1. /\ Len(Append(log[k], e)) = Len(log[k]) + 1
          /\ Append(log[k], e)[Len(log[k]) + 1] = e
      BY <2>2, AppendFacts
    <3> QED BY <2>1, <3>1 DEF Live
  <2>5. /\ Coherent(log[k]) => Coherent(Append(log[k], e))
        /\ Kept(log[k]) => Kept(Append(log[k], e))
        /\ \A o : Doomed(log[k], o) => Doomed(Append(log[k], e), o)
    BY <2>2, <2>3, ContinueLog
  <2> QED BY <1>2, <2>1, <2>4, <2>5
<1> QED BY <1>1, <1>2

LEMMA AdvanceStore ==
  ASSUME TypeOK, NEW k \in Keys, NEW e \in Object \cup {None},
         Continues(Live(k), e), Store(k, e)
  PROVE  Advance
<1>1. CASE e = Live(k)
  <2>1. log' = log
    BY <1>1 DEF Store, TypeOK
  <2> QED BY <2>1, AdvanceSame
<1>2. CASE e # Live(k)
  BY <1>2, AdvanceAppend DEF Store
<1> QED BY <1>1, <1>2

\* ... or when old ones are forgotten.
LEMMA ForgetLog ==
  ASSUME TypeOK, NEW k \in Keys,
         log'[k] \in {log[k], Tail(log[k]), <<Live(k)>>}, log'[k] # <<>>
  PROVE  /\ Coherent(log[k]) => Coherent(log'[k])
         /\ Kept(log[k]) => Kept(log'[k])
         /\ \A o : Doomed(log[k], o) => Doomed(log'[k], o)
         /\ Continues(Live(k), Live(k)')
<1>1. log[k] \in Seq(Object \cup {None}) /\ log[k] # <<>>
  BY LogType
<1>2. PICK n \in Nat : n = Len(log[k]) /\ n > 0
  BY LiveType
<1>3. CASE log'[k] = log[k]
  BY <1>3 DEF Continues, Live, Same
<1>4. CASE log'[k] = Tail(log[k])
  <2>1. PICK t \in Seq(Object \cup {None}) :
          /\ t = Tail(log[k]) /\ Len(t) = n - 1
          /\ \A i \in 1 .. Len(t) : t[i] = log[k][i + 1]
    BY <1>1, <1>2, HeadTailProperties, Zenon
  <2>2. Len(t) > 0
    BY <1>2, <1>4, <2>1
  <2>3. /\ t[Len(t)] = log[k][Len(log[k])]
        /\ Coherent(log[k]) => Coherent(t)
        /\ Kept(log[k]) => Kept(t)
        /\ \A o : Doomed(log[k], o) => Doomed(t, o)
    <3>1. Len(log[k]) = Len(t) + 1 /\ \A i \in 1 .. Len(t) : t[i] = log[k][i + 1]
      BY <1>2, <2>1
    <3>2. 1 \in Nat
      OBVIOUS
    <3> QED BY <1>1, <2>2, <3>1, <3>2, SuffixLog
  <2>4. log'[k] = t
    BY <1>4, <2>1
  <2> HIDE <1>4
  <2> QED BY <2>3, <2>4 DEF Continues, Live, Same
<1>5. CASE log'[k] = <<Live(k)>>
  <2> DEFINE u == <<Live(k)>>
  <2>0. u \in Seq(Object \cup {None}) /\ Len(u) = 1 /\ u[1] = Live(k)
    BY LiveType
  <2>1. PICK t \in Seq(Object \cup {None}) :
          t = u /\ Len(t) = 1 /\ t[1] = Live(k)
    <3> HIDE DEF u
    <3> QED BY <2>0
  <2>2. n - 1 \in Nat
    BY <1>2
  <2>3. PICK d \in Nat : d = n - 1
    BY <2>2
  <2>4. /\ Len(t) > 0 /\ Len(log[k]) = Len(t) + d
        /\ \A i \in 1 .. Len(t) : t[i] = log[k][i + d]
    <3>1. \A i \in 1 .. Len(t) : i = 1
      BY <2>1
    <3>2. 1 + d = n
      BY <1>2, <2>3
    <3> QED BY <1>2, <2>1, <2>3, <3>1, <3>2 DEF Live
  <2>5. /\ t[Len(t)] = log[k][Len(log[k])]
        /\ Coherent(log[k]) => Coherent(t)
        /\ Kept(log[k]) => Kept(t)
        /\ \A o : Doomed(log[k], o) => Doomed(t, o)
    BY <1>1, <2>4, SuffixLog
  <2>6. log'[k] = t
    BY <1>5, <2>1
  <2> HIDE <1>5
  <2> QED BY <2>5, <2>6 DEF Continues, Live, Same
<1> QED BY <1>3, <1>4, <1>5
-----------------------------------------------------------------------------
(* Steps of the cloud, of users and of the informer, and restarts.         *)

LEMMA QuietSame ==
  ASSUME Vacant, UNCHANGED cloud
  PROVE  QuietCloud
BY DEF QuietCloud, Vacant, Exists

LEMMA QuietChange ==
  ASSUME TypeOK, Vacant, NEW n \in Names, NEW c, cloud' = [cloud EXCEPT ![n] = c],
         c.st \in {"Absent", "Reserved"} => c.by = None,
         c.by = None \/ (c.by = cloud[n].by /\ (cloud[n].asked => c.asked))
  PROVE  QuietCloud
<1>1. cloud'[n] = c /\ \A m \in Names \ {n} : cloud'[m] = cloud[m]
  BY DEF TypeOK
<1>2. Vacant'
  BY <1>1 DEF Vacant, Exists
<1> QED BY <1>1, <1>2 DEF QuietCloud

LEMMA CloudStepQuiet ==
  ASSUME TypeOK, Vacant, NEW n \in Names,
         Finish(n) \/ Fail(n) \/ Release(n) \/ OutOfBand(n)
  PROVE  QuietCloud
<1>1. cloud[n] \in Instance(Keys \X Uid)
  BY DEF TypeOK
<1>2. cloud[n].st \in {"Absent", "Reserved"} => cloud[n].by = None
  BY DEF Vacant, Exists
<1>3. PICK c :
        /\ cloud' = [cloud EXCEPT ![n] = c]
        /\ c.st \in {"Absent", "Reserved"} => c.by = None
        /\ c.by = None \/ (c.by = cloud[n].by /\ (cloud[n].asked => c.asked))
  <2>1. \A st : Gone(st).by = None
    BY DEF Gone
  <2>2. CASE Finish(n)
    <3> DEFINE done == [cloud[n] EXCEPT !.op = "Done",
                          !.st = IF @ = "Pending" THEN "Runnable" ELSE @]
    <3>1. cloud' = [cloud EXCEPT ![n] = Gone("Reserved")]
            \/ cloud' = [cloud EXCEPT ![n] = done]
      BY <2>2 DEF Finish, TypeOK
    <3>2. /\ done.by = cloud[n].by /\ done.asked = cloud[n].asked
          /\ done.st \in {"Absent", "Reserved"} => done.st = cloud[n].st
      BY <1>1 DEF Instance
    <3> HIDE DEF done
    <3> QED BY <1>2, <2>1, <3>1, <3>2
  <2>3. CASE Fail(n)
    <3> DEFINE failed == [cloud[n] EXCEPT !.op = "Failed",
                            !.st = IF @ = "Deleting" THEN "Runnable" ELSE @]
    <3>1. cloud' = [cloud EXCEPT ![n] = failed]
      BY <2>3 DEF Fail, TypeOK
    <3>2. /\ failed.by = cloud[n].by /\ failed.asked = cloud[n].asked
          /\ failed.st \in {"Absent", "Reserved"} => failed.st = cloud[n].st
      BY <1>1 DEF Instance
    <3> HIDE DEF failed
    <3> QED BY <1>2, <3>1, <3>2
  <2>4. CASE Release(n)
    BY <2>1, <2>4 DEF Release
  <2>5. CASE OutOfBand(n)
    <3>1. CASE \E s \in Settings : cloud' = [cloud EXCEPT ![n].s = s]
      <4>1. PICK s \in Settings : cloud' = [cloud EXCEPT ![n].s = s]
        BY <3>1
      <4> DEFINE c == [cloud[n] EXCEPT !.s = s]
      <4>2. cloud' = [cloud EXCEPT ![n] = c]
        BY <4>1 DEF TypeOK
      <4>3. c.by = cloud[n].by /\ c.asked = cloud[n].asked /\ c.st = cloud[n].st
        BY <1>1 DEF Instance
      <4> HIDE DEF c
      <4> QED BY <1>2, <4>2, <4>3
    <3>2. CASE \E st \in {"Runnable", "Stopped"} :
                 cloud' = [cloud EXCEPT ![n].st = st, ![n].op = "Done"]
      <4>1. PICK st \in {"Runnable", "Stopped"} :
              cloud' = [cloud EXCEPT ![n].st = st, ![n].op = "Done"]
        BY <3>2
      <4> DEFINE c == [cloud[n] EXCEPT !.st = st, !.op = "Done"]
      <4>2. cloud' = [cloud EXCEPT ![n] = c]
        BY <4>1 DEF TypeOK
      <4>3. c.by = cloud[n].by /\ c.asked = cloud[n].asked /\ c.st = st
        BY <1>1 DEF Instance
      <4> HIDE DEF c
      <4> QED BY <4>2, <4>3
    <3>3. CASE cloud' = [cloud EXCEPT ![n] = Gone("Reserved")]
      BY <2>1, <3>3
    <3>4. CASE \E s \in Settings :
                 cloud' = [cloud EXCEPT ![n] = [Gone("Runnable") EXCEPT !.s = s]]
      <4>1. PICK s \in Settings :
              cloud' = [cloud EXCEPT ![n] = [Gone("Runnable") EXCEPT !.s = s]]
        BY <3>4
      <4>2. [Gone("Runnable") EXCEPT !.s = s].by = None
        BY DEF Gone
      <4> QED BY <4>1, <4>2
    <3> QED BY <2>5, <3>1, <3>2, <3>3, <3>4 DEF OutOfBand
  <2> QED BY <2>2, <2>3, <2>4, <2>5
<1> QED BY <1>3, QuietChange

LEMMA CloudActionInv ==
  ASSUME OrphanInv, TypeOK', NEW n \in Names,
         CloudFinish(n) \/ CloudRelease(n) \/ CloudFail(n) \/ CloudDrift(n)
  PROVE  OrphanInv'
<1>1. Finish(n) \/ Fail(n) \/ Release(n) \/ OutOfBand(n)
  BY DEF CloudFinish, CloudRelease, CloudFail, CloudDrift
<1>2. UNCHANGED <<log, w>>
  BY DEF CloudFinish, CloudRelease, CloudFail, CloudDrift
<1>3. QuietCloud
  BY <1>1, CloudStepQuiet DEF OrphanInv
<1> QED BY <1>2, <1>3, AdvanceSame, Steady DEF SameWork

LEMMA RestartInv ==
  ASSUME OrphanInv, TypeOK', Restart
  PROVE  OrphanInv'
<1>1. \A k \in Keys : log'[k] = <<Live(k)>> /\ log'[k] # <<>>
  BY DEF Restart
<1>2. TypeOK /\ Vacant /\ UNCHANGED cloud /\ w' = Idle
  BY DEF OrphanInv, Restart
<1>3. Advance
  BY <1>1, <1>2, ForgetLog DEF Advance
<1>4. w'.pc \notin Critical
  BY <1>2 DEF Idle, Critical
<1> QED BY <1>2, <1>3, <1>4, QuietSame, Steady

LEMMA InformerInv ==
  ASSUME OrphanInv, TypeOK', NEW k \in Keys, Deliver(k) \/ Resync(k)
  PROVE  OrphanInv'
<1>1. TypeOK /\ Vacant /\ UNCHANGED <<cloud, w>>
  BY DEF OrphanInv, Deliver, Resync
<1>2. \A j \in Keys : log'[j] \in {log[j], Tail(log[j]), <<Live(j)>>} /\ log'[j] # <<>>
  <2>1. log \in [Keys -> Seq(Object \cup {None})]
    BY <1>1 DEF TypeOK
  <2>2. \A j \in Keys : log'[j] \in {log[j], Tail(log[j]), <<Live(j)>>}
    <3>1. CASE Deliver(k)
      <4>1. PICK rest \in {Tail(log[k]), <<Live(k)>>} : log' = [log EXCEPT ![k] = rest]
        BY <3>1 DEF Deliver
      <4> QED BY <2>1, <4>1
    <3>2. CASE Resync(k)
      BY <3>2 DEF Resync
    <3> QED BY <3>1, <3>2
  <2> QED BY <2>2 DEF TypeOK
<1>3. Advance
  BY <1>1, <1>2, ForgetLog DEF Advance
<1> QED BY <1>1, <1>3, QuietSame, Steady DEF SameWork

\* A user's write continues the object.
LEMMA UserWriteInv ==
  ASSUME OrphanInv, TypeOK', NEW k \in Keys, NEW e \in Object \cup {None},
         Continues(Live(k), e), UserWrite(k, e)
  PROVE  OrphanInv'
<1>1. TypeOK /\ Vacant /\ UNCHANGED cloud /\ log' = [log EXCEPT ![k] = Append(@, e)]
  BY DEF OrphanInv, UserWrite
<1>2. Advance
  BY <1>1, AdvanceAppend
<1>3. SameWork
  <2>1. w' = w \/ w' = [w EXCEPT !.rv = "outdated"]
    BY DEF UserWrite, Outdate
  <2>2. w \in Worker
    BY <1>1 DEF TypeOK
  <2> QED BY <2>1, <2>2 DEF SameWork, Worker
<1> QED BY <1>1, <1>2, <1>3, QuietSame, Steady

LEMMA UserActionInv ==
  ASSUME OrphanInv, TypeOK', NEW k \in Keys,
         UserCreate(k) \/ UserEdit(k) \/ UserAnnotate(k) \/ UserDelete(k)
  PROVE  OrphanInv'
<1>1. TypeOK
  BY DEF OrphanInv
<1>2. PICK e \in Object \cup {None} : Continues(Live(k), e) /\ UserWrite(k, e)
  <2>1. CASE UserCreate(k)
    <3> DEFINE blank(n, s) ==
          [uid |-> used.uids + 1, name |-> n, s |-> s, paused |-> FALSE,
           del |-> FALSE, fin |-> FALSE, conn |-> FALSE,
           conds |-> [created |-> "", ready |-> "", upToDate |-> ""]]
    <3>1. PICK n \in Names, s \in Settings : UserWrite(k, blank(n, s))
      BY <2>1 DEF UserCreate
    <3>2. used.uids + 1 \in Uid
      <4>1. used.uids \in 0 .. MaxUid
        BY <1>1 DEF TypeOK
      <4> QED BY <4>1, BoundsType DEF Uid
    <3>3. blank(n, s) \in Object
      BY <3>2 DEF Object, Conditions
    <3>4. Continues(Live(k), blank(n, s))
      BY <2>1 DEF UserCreate, Continues, Protected
    <3> HIDE DEF blank
    <3> QED BY <3>1, <3>3, <3>4
  <2>2. CASE UserEdit(k)
    <3>1. Live(k) \in Object
      BY <1>1, <2>2, LiveType DEF UserEdit
    <3>2. PICK e \in Object : /\ UserWrite(k, e)
                              /\ e.fin = Live(k).fin /\ e.del = Live(k).del
                              /\ Same(Live(k), e)
      <4>1. CASE \E s \in Settings : UserWrite(k, [Live(k) EXCEPT !.s = s])
        <5>1. \A s \in Settings :
                /\ [Live(k) EXCEPT !.s = s] \in Object
                /\ [Live(k) EXCEPT !.s = s].fin = Live(k).fin
                /\ [Live(k) EXCEPT !.s = s].del = Live(k).del
                /\ Same(Live(k), [Live(k) EXCEPT !.s = s])
          BY <3>1 DEF Object, Same
        <5> QED BY <4>1, <5>1
      <4>2. CASE UserWrite(k, [Live(k) EXCEPT !.paused = ~@])
        <5> DEFINE e == [Live(k) EXCEPT !.paused = ~@]
        <5>1. /\ e \in Object /\ e.fin = Live(k).fin /\ e.del = Live(k).del
              /\ Same(Live(k), e)
          BY <3>1 DEF Object, Same
        <5> QED BY <4>2, <5>1
      <4> QED BY <2>2, <4>1, <4>2 DEF UserEdit
    <3> QED BY <3>1, <3>2, ObjectAssumption DEF Continues, Protected, Condemned
  <2>3. CASE UserDelete(k)
    <3>1. Live(k) \in Object
      BY <1>1, <2>3, LiveType DEF UserDelete
    <3> DEFINE e == [Live(k) EXCEPT !.del = TRUE]
    <3>2. e \in Object /\ e.fin = Live(k).fin /\ e.del /\ Same(Live(k), e)
      BY <3>1 DEF Object, Same
    <3>3. \/ Live(k).fin /\ UserWrite(k, e)
          \/ ~Live(k).fin /\ UserWrite(k, None)
      BY <2>3 DEF UserDelete
    <3> HIDE DEF e
    <3> QED BY <3>1, <3>2, <3>3, ObjectAssumption DEF Continues, Protected, Condemned
  <2>4. CASE UserAnnotate(k)
    <3>1. Live(k) \in Object /\ UserWrite(k, Live(k))
      BY <1>1, <2>4, LiveType DEF UserAnnotate
    <3> QED BY <3>1, ObjectAssumption DEF Continues, Protected, Condemned, Same
  <2> QED BY <2>1, <2>2, <2>3, <2>4
<1> QED BY <1>2, UserWriteInv

LEMMA EnvironmentInv ==
  ASSUME OrphanInv, TypeOK', Environment
  PROVE  OrphanInv'
<1>1. CASE Crash
  BY <1>1, RestartInv DEF Crash
<1>2. ASSUME NEW k \in Keys, CollectSecret(k) PROVE OrphanInv'
  <2>1. Vacant /\ UNCHANGED <<cloud, log, w>>
    BY <1>2 DEF OrphanInv, CollectSecret
  <2> QED BY <2>1, AdvanceSame, QuietSame, Steady DEF SameWork
<1> QED BY <1>1, <1>2, InformerInv, UserActionInv, CloudActionInv DEF Environment
-----------------------------------------------------------------------------
(* Calls that neither create nor delete an instance.                       *)

LEMMA LeavePc ==
  ASSUME NEW v, Busy(v), NEW err \in BOOLEAN
  PROVE  Leave(v, err).pc = "PatchStatus"
BY DEF Busy, Worker, Leave

LEMMA GotoPc ==
  ASSUME NEW v, Busy(v), NEW pc \in Steps
  PROVE  /\ Goto(v, pc).pc = pc /\ Goto(v, pc).key = v.key
         /\ Goto(v, pc).i = v.i /\ Goto(v, pc).p = v.p
BY DEF Busy, Worker, Goto

\* A call after which the sync has nothing critical to do.
LEMMA HarmlessCall ==
  ASSUME OrphanInv, TypeOK', UNCHANGED log, QuietCloud, w'.pc \notin Critical
  PROVE  OrphanInv'
BY AdvanceSame, Steady

LEMMA ReadingCallsInv ==
  ASSUME OrphanInv, TypeOK',
         GetNewInstance \/ ListOperations \/ GetSecret \/ CreateSecret
           \/ PutSecret \/ SkipUpdate \/ GetUpdatedInstance
  PROVE  OrphanInv'
<1>1. TypeOK /\ Vacant /\ UNCHANGED <<cloud, log>>
  BY DEF OrphanInv, GetNewInstance, ListOperations, GetSecret, CreateSecret,
         PutSecret, SkipUpdate, GetUpdatedInstance
<1>2. Busy(w)
  BY <1>1, BusyType DEF At, GetNewInstance, ListOperations, GetSecret,
         CreateSecret, PutSecret, SkipUpdate, GetUpdatedInstance
<1>3. w'.pc \in {"ListOps", "PatchStatus", "GetSecret", "CreateSecret",
                 "SetPassword", "MaybeUpdate"}
  <2>1. CASE GetNewInstance
    <3>1. w' = Found \/ w' = Leave(w, TRUE)
      BY <2>1 DEF GetNewInstance
    <3>2. Found.pc = "ListOps"
      BY <1>2 DEF Found, Busy, Worker
    <3> QED BY <1>2, <3>1, <3>2, LeavePc
  <2>2. CASE ListOperations
    <3> DEFINE ready(reason) == [w EXCEPT !.p.conds.ready = reason]
    <3>1. \/ w' = Leave(ready("UnexpectedError"), TRUE)
          \/ w' = Leave(ready("OperationInProgress"), FALSE)
          \/ w' = Leave(ready("UnexpectedError"), FALSE)
          \/ w' = Leave(ready("InstanceNotReady"), FALSE)
          \/ w' = Goto(ready("InstanceReady"), "GetSecret")
      BY <2>2 DEF ListOperations
    <3>2. /\ Busy(ready("UnexpectedError")) /\ Busy(ready("OperationInProgress"))
          /\ Busy(ready("InstanceNotReady")) /\ Busy(ready("InstanceReady"))
      BY <1>2, CondBusy
    <3> HIDE DEF ready
    <3> QED BY <3>1, <3>2 DEF Leave, Goto, Busy, Worker
  <2>3. CASE GetSecret
    <3>1. \/ w' = Leave(w, TRUE)
          \/ \E pc \in {"CreateSecret", "SetPassword", "MaybeUpdate"} : w' = Goto(w, pc)
      BY <2>3 DEF GetSecret
    <3> QED BY <1>2, <3>1 DEF Leave, Goto, Busy, Worker
  <2>4. CASE CreateSecret
    <3>1. w' = Goto(w, "SetPassword") \/ w' = Leave(w, TRUE)
      BY <2>4 DEF CreateSecret
    <3> QED BY <1>2, <3>1 DEF Leave, Goto, Busy, Worker
  <2>5. CASE PutSecret
    <3>1. \/ w' = [w EXCEPT !.pc = "MaybeUpdate", !.pw = None]
          \/ w' = [Leave(w, TRUE) EXCEPT !.pw = None]
      BY <2>5 DEF PutSecret
    <3> QED BY <1>2, <3>1 DEF Busy, Worker, Leave
  <2>6. CASE SkipUpdate
    <3> DEFINE v == [Leave(w, FALSE) EXCEPT !.p.conds.upToDate = "InstanceUpToDate"]
    <3>1. w' = [v EXCEPT !.p.conn = TRUE]
      BY <2>6 DEF SkipUpdate
    <3>2. Busy(v)
      BY <1>2, LeaveBusy, CondBusy
    <3>3. v.pc = "PatchStatus"
      BY <1>2 DEF Leave, Busy, Worker
    <3> HIDE DEF v
    <3> QED BY <3>1, <3>2, <3>3 DEF Busy, Worker
  <2>7. CASE GetUpdatedInstance
    <3>1. \/ w' = [Leave(w, FALSE) EXCEPT !.p.conn = TRUE]
          \/ w' = Leave(w, TRUE)
      BY <2>7 DEF GetUpdatedInstance
    <3> QED BY <1>2, <3>1 DEF Leave, Busy, Worker
  <2> QED BY <2>1, <2>2, <2>3, <2>4, <2>5, <2>6, <2>7
<1> QED BY <1>1, <1>3, QuietSame, HarmlessCall DEF Critical

\* An accepted request that does not concern the owner of an instance.
LEMMA SetPasswordInv ==
  ASSUME OrphanInv, TypeOK', SetPassword
  PROVE  OrphanInv'
<1>1. TypeOK /\ Vacant /\ UNCHANGED log
  BY DEF OrphanInv, SetPassword
<1>2. Busy(w) /\ Name \in Names
  BY <1>1, BusyType DEF SetPassword, At
<1>3. PICK pw \in Passwords, o \in Outcomes(UserReply(Name)), op \in {"Running", "Done"} :
        /\ cloud' = IF o.applied THEN UserUpdated(Name, pw, op) ELSE cloud
        /\ \/ w' = [w EXCEPT !.pc = "PutSecret", !.pw = pw]
           \/ w' = Leave(w, TRUE)
  BY DEF SetPassword
<1>4. QuietCloud
  <2>1. CASE o.applied
    <3> DEFINE c == [cloud[Name] EXCEPT !.pw = pw, !.op = op]
    <3>1. cloud[Name] \in Instance(Keys \X Uid)
      BY <1>1, <1>2 DEF TypeOK
    <3>2. cloud' = [cloud EXCEPT ![Name] = c]
      BY <1>1, <1>2, <1>3, <2>1 DEF UserUpdated, TypeOK
    <3>3. c.by = cloud[Name].by /\ c.asked = cloud[Name].asked /\ c.st = cloud[Name].st
      BY <3>1 DEF Instance
    <3>4. c.st \in {"Absent", "Reserved"} => c.by = None
      BY <1>1, <1>2, <3>3 DEF Vacant, Exists
    <3> HIDE DEF c
    <3> QED BY <1>1, <1>2, <3>2, <3>3, <3>4, QuietChange
  <2>2. CASE ~o.applied
    BY <1>1, <1>3, <2>2, QuietSame
  <2> QED BY <2>1, <2>2
<1>5. w'.pc \in {"PutSecret", "PatchStatus"}
  BY <1>2, <1>3 DEF Leave, Busy, Worker
<1> QED BY <1>1, <1>4, <1>5, HarmlessCall DEF Critical

LEMMA UpdateInstanceInv ==
  ASSUME OrphanInv, TypeOK', UpdateInstance
  PROVE  OrphanInv'
<1>1. TypeOK /\ Vacant /\ UNCHANGED log
  BY DEF OrphanInv, UpdateInstance
<1>2. Busy(w) /\ Name \in Names
  BY <1>1, BusyType DEF UpdateInstance, At
<1> DEFINE upToDate(reason) == [w EXCEPT !.p.conds.upToDate = reason]
           nil(v) == [Leave(v, FALSE) EXCEPT !.nil = TRUE]
<1>3. PICK o \in Outcomes(UpdateReply(Name, w.inst.s, w.p.s)) :
        /\ cloud' = IF o.applied THEN Updated(Name, w.p.s) ELSE cloud
        /\ \/ w' = Goto(upToDate("InstanceUpdated"), "GetUpdated")
           \/ w' = nil(upToDate("Conflict"))
           \/ w' = nil(upToDate("InvalidSpec"))
           \/ w' = Leave(upToDate("UnexpectedError"), TRUE)
  BY DEF UpdateInstance
<1>4. QuietCloud
  <2>1. CASE o.applied
    <3> DEFINE c == [cloud[Name] EXCEPT !.s = w.p.s, !.st = "Runnable", !.op = "Running"]
    <3>1. cloud[Name] \in Instance(Keys \X Uid)
      BY <1>1, <1>2 DEF TypeOK
    <3>2. cloud' = [cloud EXCEPT ![Name] = c]
      BY <1>1, <1>2, <1>3, <2>1 DEF Updated, TypeOK
    <3>3. c.by = cloud[Name].by /\ c.asked = cloud[Name].asked /\ c.st = "Runnable"
      BY <3>1 DEF Instance
    <3> HIDE DEF c
    <3> QED BY <1>1, <1>2, <3>2, <3>3, QuietChange
  <2>2. CASE ~o.applied
    BY <1>1, <1>3, <2>2, QuietSame
  <2> QED BY <2>1, <2>2
<1>5. w'.pc \in {"GetUpdated", "PatchStatus"}
  <2>1. /\ Busy(upToDate("InstanceUpdated")) /\ Busy(upToDate("Conflict"))
        /\ Busy(upToDate("InvalidSpec")) /\ Busy(upToDate("UnexpectedError"))
    BY <1>2, CondBusy
  <2>2. ASSUME NEW v, Busy(v)
        PROVE  /\ nil(v).pc = "PatchStatus"
               /\ \A err \in BOOLEAN : Leave(v, err).pc = "PatchStatus"
               /\ Goto(v, "GetUpdated").pc = "GetUpdated"
    BY <2>2 DEF Busy, Worker, Leave, Goto
  <2> HIDE DEF upToDate, nil
  <2>3. CASE w' = Goto(upToDate("InstanceUpdated"), "GetUpdated")
    BY <2>1, <2>2, <2>3
  <2>4. CASE w' = nil(upToDate("Conflict"))
    BY <2>1, <2>2, <2>4
  <2>5. CASE w' = nil(upToDate("InvalidSpec"))
    BY <2>1, <2>2, <2>5
  <2>6. CASE w' = Leave(upToDate("UnexpectedError"), TRUE)
    BY <2>1, <2>2, <2>6
  <2> QED BY <1>3, <2>3, <2>4, <2>5, <2>6
<1> QED BY <1>1, <1>4, <1>5, HarmlessCall DEF Critical

\* The status patch changes neither the finalizer nor the timestamp.
LEMMA PatchStatusInv ==
  ASSUME OrphanInv, TypeOK', PatchStatus
  PROVE  OrphanInv'
<1>1. TypeOK /\ Vacant /\ UNCHANGED cloud
  BY DEF OrphanInv, PatchStatus
<1>2. Busy(w) /\ w.key \in Keys
  BY <1>1, BusyType DEF PatchStatus, At, Busy
<1>3. w'.pc \in {"Idle", "Panic"}
  <2>1. \E err : AfterPatch(err)
    BY DEF PatchStatus
  <2> QED BY <2>1 DEF AfterPatch, Return, Idle
<1>4. Advance
  <2> DEFINE live == Live(w.key)
             reply == IF live = None THEN NotFound
                      ELSE IF w.rv = "outdated" THEN Conflict ELSE Ok
  <2>1. PICK list \in BOOLEAN :
          \/ UNCHANGED log
          \/ \E o \in Outcomes(reply) :
               IF o.applied THEN Store(w.key, Patched(live, list)) ELSE UNCHANGED log
    BY DEF PatchStatus, ListSent
  <2>2. UNCHANGED log \/ (live # None /\ Store(w.key, Patched(live, list)))
    BY <2>1, OutcomeFacts DEF NotFound, Ok
  <2>3. CASE UNCHANGED log
    BY <2>3, AdvanceSame
  <2>4. CASE live # None /\ Store(w.key, Patched(live, list))
    <3>1. live \in Object /\ w.p \in Object
      BY <1>1, <1>2, <2>4, LiveType DEF Busy
    <3> HIDE DEF live
    <3>2. /\ Patched(live, list) \in Object
          /\ Patched(live, list).fin = live.fin /\ Patched(live, list).del = live.del
          /\ Same(live, Patched(live, list))
      BY <3>1 DEF Patched, Object, Same
    <3>3. Continues(live, Patched(live, list))
      BY <3>1, <3>2, ObjectAssumption DEF Continues, Protected, Condemned
    <3> USE DEF live
    <3> QED BY <1>1, <1>2, <2>4, <3>2, <3>3, AdvanceStore
  <2> QED BY <2>2, <2>3, <2>4
<1> QED BY <1>1, <1>3, <1>4, QuietSame, Steady DEF Critical
-----------------------------------------------------------------------------
(* The beginning of a sync, and the calls that matter.                     *)

LEMMA StillInv ==
  ASSUME OrphanInv, TypeOK', UNCHANGED log, QuietCloud,
         Adding', Creating', Deleting', Cleared'
  PROVE  OrphanInv'
<1>1. NoOrphan'
  BY AdvanceSame, SteadyOwners DEF OrphanInv
<1> QED BY <1>1 DEF OrphanInv, QuietCloud

\* What the version in the cache tells.
LEMMA StartSyncInv ==
  ASSUME OrphanInv, TypeOK', NEW k \in Keys, StartSync(k)
  PROVE  OrphanInv'
<1>1. TypeOK /\ Vacant /\ Coherent(log[k]) /\ UNCHANGED <<cloud, log>>
  BY DEF OrphanInv, StartSync
<1>2. QuietCloud
  BY <1>1, QuietSame
<1> DEFINE i == Cached(k)
<1>3. CASE w' = Idle
  BY <1>1, <1>2, <1>3, HarmlessCall DEF Idle, Critical
<1>4. CASE w' # Idle
  <2>1. w' = [Idle EXCEPT !.pc = FirstStep(i), !.key = k, !.i = i, !.p = i]
    BY <1>4 DEF StartSync
  <2>2. w'.pc = FirstStep(i) /\ w'.key = k /\ w'.i = i /\ w'.p = i
    BY <2>1 DEF Idle
  <2>3. PICK n \in Nat : n = Len(log[k]) /\ n > 0
    BY <1>1, LiveType
  <2>4. 1 \in 1 .. n /\ n \in 1 .. n /\ i = log[k][1] /\ Live(k) = log[k][n]
    BY <2>3 DEF Cached, Live
  <2>5. Live(k)' = Live(k)
    BY <1>1 DEF Live
  <2>6. Adding'
    <3> SUFFICES ASSUME w'.pc = "AddFinalizer" PROVE Kept(log[k])
      BY <1>1, <2>2 DEF Adding, At
    <3>1. ~Condemned(i)
      BY <2>2 DEF FirstStep, Condemned, Protected
    <3>2. \A l \in 1 .. n : 1 <= l
      OBVIOUS
    <3> QED BY <1>1, <2>3, <2>4, <3>1, <3>2 DEF Coherent, Kept
  <2>7. Creating'
    <3> SUFFICES ASSUME w'.pc \in {"Get", "Insert"}
                 PROVE  Protected(Live(k)) /\ Same(Live(k), i)
      <4>1. Live(w.key)' = Live(k)
        BY <1>1, <2>2 DEF Live
      <4> QED BY <2>2, <4>1 DEF Creating
    <3>1. Protected(i) /\ ~Condemned(i)
      BY <2>2 DEF FirstStep, Condemned, Protected
    <3> QED BY <1>1, <2>3, <2>4, <3>1 DEF Coherent
  <2>8. Deleting'
    <3> SUFFICES ASSUME w'.pc \in {"DeleteGet", "Delete", "RemoveFinalizer"}
                 PROVE  Doomed(log[k], i)
      BY <1>1, <2>2 DEF Deleting
    <3>1. Condemned(i)
      BY <2>2 DEF FirstStep, Condemned, Protected
    <3>2. \A j \in 1 .. n : 1 <= j
      OBVIOUS
    <3>3. \A j, l \in 1 .. n :
            j <= l /\ Protected(log[k][l])
              => Condemned(log[k][j]) /\ Same(i, log[k][j])
      BY <1>1, <2>3, <2>4, <3>1, <3>2 DEF Coherent
    <3> QED BY <2>3, <3>3 DEF Doomed, Same
  <2>9. Cleared'
    BY <2>2 DEF Cleared, At, FirstStep
  <2> QED BY <1>1, <1>2, <2>6, <2>7, <2>8, <2>9, StillInv
<1> QED BY <1>3, <1>4

\* An object that owns no instance may change in any way.
LEMMA UnownedOwners ==
  ASSUME TypeOK, NoOrphan, UNCHANGED cloud, NEW k \in Keys, NEW e,
         log' = [log EXCEPT ![k] = Append(@, e)],
         \A n \in Names : cloud[n].by # None /\ ~cloud[n].asked => cloud[n].by[1] # k
  PROVE  NoOrphan'
<1> SUFFICES ASSUME NEW n \in Names, NEW j \in Keys,
                    cloud[n].by # None, cloud[n].by[1] = j, ~cloud[n].asked
             PROVE  MadeFor(n, j, Live(j))' /\ Live(j)'.fin
  BY DEF NoOrphan
<1>1. j # k /\ log'[j] = log[j]
  BY DEF TypeOK
<1>2. Live(j)' = Live(j)
  BY <1>1 DEF Live
<1> QED BY <1>2 DEF NoOrphan, MadeFor

LEMMA AddFinalizerInv ==
  ASSUME OrphanInv, TypeOK', AddFinalizer
  PROVE  OrphanInv'
<1>1. TypeOK /\ Vacant /\ NoOrphan /\ UNCHANGED cloud
  BY DEF OrphanInv, AddFinalizer
<1>2. Busy(w) /\ w.key \in Keys /\ Kept(log[w.key])
  BY <1>1, BusyType DEF OrphanInv, Adding, AddFinalizer, At, Busy
<1>0. PICK k \in Keys : k = w.key
  BY <1>2
<1> DEFINE live == Live(k)
           reply == IF live = None THEN NotFound ELSE Ok
           kept == [live EXCEPT !.fin = TRUE]
<1>3. PICK o \in Outcomes(reply) :
        /\ IF o.applied THEN Store(k, kept) ELSE UNCHANGED log
        /\ IF o.code # Ok \/ live.paused
             THEN Return(o.code # Ok)
             ELSE w' = [w EXCEPT !.pc = "Get", !.rv = "current", !.p = kept]
  BY <1>0 DEF AddFinalizer
<1>4. CASE ~o.applied
  <2>1. w' = Idle /\ UNCHANGED log
    BY <1>3, <1>4, OutcomeFacts DEF Return
  <2> QED BY <1>1, <2>1, QuietSame, HarmlessCall DEF Idle, Critical
<1>5. CASE o.applied
  <2>1. live \in Object /\ live # None
    BY <1>1, <1>2, <1>5, LiveType, OutcomeFacts, ObjectAssumption DEF NotFound, Ok
  <2> HIDE DEF live
  <2>2. kept \in Object /\ kept.fin /\ (live.fin => kept = live)
    BY <2>1 DEF Object
  <2>3. Protected(kept)
    BY <2>2, ObjectAssumption DEF Protected
  <2>4. w'.pc \in {"Idle", "Get"}
        /\ (w'.pc = "Get" => w'.key = k /\ w'.p = kept)
    <3> DEFINE v == [w EXCEPT !.pc = "Get", !.rv = "current", !.p = kept]
    <3>1. w' = Idle \/ w' = v
      BY <1>3 DEF Return
    <3> HIDE DEF kept
    <3>2. v.pc = "Get" /\ v.key = k /\ v.p = kept
      BY <1>0, <1>2 DEF Busy, Worker
    <3>3. Idle.pc = "Idle"
      BY DEF Idle
    <3> HIDE DEF v
    <3> QED BY <3>1, <3>2, <3>3
  <2>5. Live(k)' = kept => Adding' /\ Creating' /\ Deleting' /\ Cleared'
    <3>1. Live(k)' = kept => Creating'
      <4>1. w'.pc = "Get" => Live(w.key)' = log'[k][Len(log'[k])]
        BY <2>4 DEF Live
      <4> QED BY <2>3, <2>4, <4>1 DEF Creating, Same, Live
    <3> QED BY <2>4, <3>1 DEF Adding, Deleting, Cleared, At
  <2>6. CASE live.fin
    <3>1. UNCHANGED log
      BY <1>1, <1>3, <1>5, <2>2, <2>6 DEF Store, live, TypeOK
    <3>2. Live(k)' = kept
      <4>1. Live(k)' = Live(k)
        BY <3>1 DEF Live
      <4> QED BY <2>2, <2>6, <4>1 DEF live
    <3> QED BY <1>1, <2>5, <3>1, <3>2, QuietSame, StillInv
  <2>7. CASE ~live.fin
    <3>1. kept # live
      BY <2>2, <2>7
    <3>2. log' = [log EXCEPT ![k] = Append(@, kept)]
      BY <1>3, <1>5, <3>1 DEF Store, live
    <3>3. log'[k] = Append(log[k], kept) /\ \A j \in Keys \ {k} : log'[j] = log[j]
      BY <1>1, <1>2, <3>2 DEF TypeOK
    <3>4. log[k] \in Seq(Object \cup {None}) /\ log[k] # <<>>
      BY <1>1, LogType
    <3>5. ~Protected(log[k][Len(log[k])])
      BY <2>7 DEF Protected, live, Live
    <3> HIDE DEF kept
    <3>6. \A j \in Keys : Coherent(log'[j])
      <4>1. Coherent(Append(log[k], kept))
        BY <1>0, <1>2, <2>2, <3>4, <3>5, ProtectLog
      <4> QED BY <3>3, <4>1 DEF OrphanInv
    <3>7. NoOrphan'
      <4>1. ASSUME NEW n \in Names, cloud[n].by # None, ~cloud[n].asked
            PROVE  cloud[n].by[1] # k
        BY <1>1, <1>2, <2>7, <4>1 DEF NoOrphan, live
      <4> QED BY <1>1, <3>2, <4>1, UnownedOwners
    <3>8. Live(k)' = kept
      <4>1. /\ Len(Append(log[k], kept)) = Len(log[k]) + 1
            /\ Append(log[k], kept)[Len(log[k]) + 1] = kept
        BY <2>2, <3>4, AppendFacts
      <4>2. log'[k][Len(log'[k])] = kept
        BY <3>3, <4>1
      <4> QED BY <4>2 DEF Live
    <3>9. Vacant'
      BY <1>1, QuietSame DEF QuietCloud
    <3> QED BY <2>5, <3>6, <3>7, <3>8, <3>9 DEF OrphanInv
  <2> QED BY <2>6, <2>7
<1> QED BY <1>4, <1>5

LEMMA GetInstanceInv ==
  ASSUME OrphanInv, TypeOK', GetInstance
  PROVE  OrphanInv'
<1>1. TypeOK /\ Vacant /\ UNCHANGED <<cloud, log>> /\ w.pc = "Get"
  BY DEF OrphanInv, GetInstance, At
<1>2. Busy(w)
  BY <1>1, BusyType
<1>3. w' = Found \/ w' = Goto(w, "Insert") \/ w' = Leave(w, TRUE)
  BY DEF GetInstance
<1>4. CASE w' = Found \/ w' = Leave(w, TRUE)
  <2>1. w'.pc \in {"ListOps", "PatchStatus"}
    BY <1>2, <1>4 DEF Found, Leave, Busy, Worker
  <2> QED BY <1>1, <2>1, QuietSame, HarmlessCall DEF Critical
<1>5. CASE w' = Goto(w, "Insert")
  <2>1. w'.pc = "Insert" /\ w'.key = w.key /\ w'.p = w.p
    BY <1>2, <1>5 DEF Goto, Busy, Worker
  <2>2. Live(w.key)' = Live(w.key)
    BY <1>1, <2>1 DEF Live
  <2>3. Creating'
    BY <1>1, <2>1, <2>2 DEF OrphanInv, Creating
  <2>4. Adding' /\ Deleting' /\ Cleared'
    BY <2>1 DEF Adding, Deleting, Cleared, At
  <2> QED BY <1>1, <2>3, <2>4, QuietSame, StillInv
<1> QED BY <1>3, <1>4, <1>5

\* The instance gets an owner that is stored and protected.
LEMMA InsertInstanceInv ==
  ASSUME OrphanInv, TypeOK', InsertInstance
  PROVE  OrphanInv'
<1>1. TypeOK /\ Vacant /\ NoOrphan /\ UNCHANGED log /\ w.pc = "Insert"
  BY DEF OrphanInv, InsertInstance, At
<1>2. Busy(w) /\ Name \in Names
  BY <1>1, BusyType
<1> DEFINE created(reason) == [w EXCEPT !.p.conds.created = reason]
<1>3. PICK o \in Outcomes(InsertReply(Name, w.p.s)) :
        /\ cloud' = IF o.applied
                      THEN Inserted(Name, w.p.s, <<w.key, w.p.uid>>) ELSE cloud
        /\ \/ w' = Goto(created("InstanceCreated"), "GetNew")
           \/ w' = Leave(created("NameUnavailable"), FALSE)
           \/ w' = Leave(created("InvalidSpec"), FALSE)
           \/ w' = Leave(created("UnexpectedError"), TRUE)
  BY DEF InsertInstance
<1>4. w'.pc \in {"GetNew", "PatchStatus"}
  <2>1. /\ Busy(created("InstanceCreated")) /\ Busy(created("NameUnavailable"))
        /\ Busy(created("InvalidSpec")) /\ Busy(created("UnexpectedError"))
    BY <1>2, CondBusy
  <2> HIDE DEF created
  <2> QED BY <1>3, <2>1 DEF Goto, Leave, Busy, Worker
<1>5. CASE ~o.applied
  BY <1>1, <1>3, <1>4, <1>5, QuietSame, HarmlessCall DEF Critical
<1>6. CASE o.applied
  <2>1. PICK c :
          /\ c = [st |-> "Pending", s |-> w.p.s, op |-> "Running", pw |-> None,
                  by |-> <<w.key, w.p.uid>>, asked |-> FALSE]
          /\ cloud' = [cloud EXCEPT ![Name] = c]
    BY <1>3, <1>6 DEF Inserted
  <2>2. cloud'[Name] = c /\ \A n \in Names \ {Name} : cloud'[n] = cloud[n]
    BY <1>1, <1>2, <2>1 DEF TypeOK
  <2>3. c.st = "Pending" /\ c.by = <<w.key, w.p.uid>>
    BY <2>1
  <2>4. Vacant'
    BY <1>1, <2>2, <2>3 DEF Vacant, Exists
  <2>5. \A k \in Keys : Live(k)' = Live(k)
    BY <1>1 DEF Live
  <2>6. Protected(Live(w.key)) /\ Same(Live(w.key), w.p)
    BY <1>1 DEF OrphanInv, Creating
  <2>7. NoOrphan'
    <3> SUFFICES ASSUME NEW n \in Names, NEW k \in Keys, cloud'[n].by # None,
                        cloud'[n].by[1] = k, ~cloud'[n].asked
                 PROVE  MadeFor(n, k, Live(k))' /\ Live(k)'.fin
      BY DEF NoOrphan
    <3>1. CASE n = Name
      <4>1. k = w.key /\ cloud'[n].by = <<k, w.p.uid>>
        BY <2>2, <2>3, <3>1
      <4>2. Live(k) # None /\ Live(k).fin /\ Live(k).uid = w.p.uid /\ Live(k).name = n
        BY <2>6, <3>1, <4>1 DEF Protected, Same, Name
      <4> QED BY <2>5, <4>1, <4>2 DEF MadeFor
    <3>2. CASE n # Name
      <4>1. cloud'[n] = cloud[n]
        BY <2>2, <3>2
      <4> QED BY <1>1, <2>5, <4>1 DEF NoOrphan, MadeFor
    <3> QED BY <3>1, <3>2
  <2>8. Adding' /\ Creating' /\ Deleting' /\ Cleared'
    BY <1>4 DEF Adding, Creating, Deleting, Cleared, At
  <2> QED BY <1>1, <2>4, <2>7, <2>8 DEF OrphanInv
<1> QED BY <1>5, <1>6

\* The only instance that can be owned by an object that is being cleaned up
\* is the one the object names.
LEMMA OwnedName ==
  ASSUME OrphanInv, w.pc \in {"DeleteGet", "Delete"}, NEW n \in Names,
         cloud[n].by # None, ~cloud[n].asked, cloud[n].by[1] = w.key
  PROVE  n = Name
<1>1. w.key \in Keys /\ NoOrphan /\ TypeOK
  BY CriticalKey DEF OrphanInv, Critical
<1>2. Protected(Live(w.key)) /\ Live(w.key).name = n
  BY <1>1 DEF NoOrphan, MadeFor, Protected
<1>3. w.p = w.i /\ Doomed(log[w.key], w.i)
  BY DEF OrphanInv, Deleting
<1>4. PICK m \in Nat : m = Len(log[w.key]) /\ m > 0
  BY <1>1, LiveType
<1>5. m \in 1 .. m /\ m <= m
  BY <1>4
<1>6. Same(Live(w.key), w.i)
  BY <1>2, <1>3, <1>4, <1>5 DEF Doomed, Live
<1> QED BY <1>2, <1>3, <1>6 DEF Same, Name

\* The cleanup goes on.
LEMMA CleanupGoesOn ==
  ASSUME OrphanInv, w.pc \in {"DeleteGet", "Delete"}, UNCHANGED log,
         NEW pc \in {"Delete", "RemoveFinalizer"}, w' = Goto(w, pc)
  PROVE  /\ w'.pc = pc /\ w'.key = w.key
         /\ Adding' /\ Creating' /\ Deleting'
<1>1. Busy(w)
  BY BusyType DEF OrphanInv
<1>2. w'.pc = pc /\ w'.key = w.key /\ w'.i = w.i /\ w'.p = w.p
  BY <1>1 DEF Goto, Busy, Worker
<1>3. Deleting'
  BY <1>2 DEF OrphanInv, Deleting
<1> QED BY <1>2, <1>3 DEF Adding, Creating, At

LEMMA DeleteGetInv ==
  ASSUME OrphanInv, TypeOK', DeleteGet
  PROVE  OrphanInv'
<1>1. TypeOK /\ Vacant /\ UNCHANGED <<cloud, log>> /\ w.pc = "DeleteGet"
  BY DEF OrphanInv, DeleteGet, At
<1>2. Busy(w) /\ Name \in Names
  BY <1>1, BusyType
<1>3. PICK o \in Outcomes(GetReply(Name)) :
        \/ w' = Idle
        \/ o.code = Ok /\ w' = Goto(w, "Delete")
        \/ ~o.lost /\ o.code # Ok /\ w' = Goto(w, "RemoveFinalizer")
  BY DEF DeleteGet, Return
<1>4. CASE w' = Idle
  BY <1>1, <1>4, QuietSame, HarmlessCall DEF Idle, Critical
<1>5. CASE w' = Goto(w, "Delete")
  <2>1. w'.pc = "Delete" /\ Adding' /\ Creating' /\ Deleting'
    BY <1>1, <1>5, CleanupGoesOn
  <2> QED BY <1>1, <2>1, QuietSame, StillInv DEF Cleared, At
<1>6. CASE ~o.lost /\ o.code # Ok /\ w' = Goto(w, "RemoveFinalizer")
  <2>1. w'.pc = "RemoveFinalizer" /\ w'.key = w.key /\ Adding' /\ Creating' /\ Deleting'
    BY <1>1, <1>6, CleanupGoesOn
  <2>2. ~Exists(Name)
    BY <1>6, OutcomeFacts DEF GetReply
  <2>3. cloud[Name].by = None
    BY <1>1, <1>2, <2>2 DEF Vacant
  <2>4. Cleared'
    BY <1>1, <2>1, <2>3, OwnedName DEF Cleared
  <2> QED BY <1>1, <2>1, <2>4, QuietSame, StillInv
<1> QED BY <1>3, <1>4, <1>5, <1>6

LEMMA DeleteInstanceInv ==
  ASSUME OrphanInv, TypeOK', DeleteInstance
  PROVE  OrphanInv'
<1>1. TypeOK /\ Vacant /\ UNCHANGED log /\ w.pc = "Delete"
  BY DEF OrphanInv, DeleteInstance, At
<1>2. Busy(w) /\ Name \in Names
  BY <1>1, BusyType
<1>3. PICK o \in Outcomes(DeleteReply(Name)) :
        /\ cloud' = IF o.applied THEN Deleted(Name) ELSE cloud
        /\ \/ w' = Idle
           \/ o.code = Ok /\ w' = Goto(w, "RemoveFinalizer")
  BY DEF DeleteInstance, Return
<1> DEFINE c == [cloud[Name] EXCEPT !.st = "Deleting", !.op = "Running", !.asked = TRUE]
<1>4. o.applied => cloud' = [cloud EXCEPT ![Name] = c]
  BY <1>1, <1>2, <1>3 DEF Deleted, TypeOK
<1>5. c.by = cloud[Name].by /\ c.asked = TRUE /\ c.st = "Deleting"
  <2>1. cloud[Name] \in Instance(Keys \X Uid)
    BY <1>1, <1>2 DEF TypeOK
  <2> QED BY <2>1 DEF Instance
<1> HIDE DEF c
<1>6. QuietCloud
  <2>1. CASE o.applied
    BY <1>1, <1>2, <1>4, <1>5, <2>1, QuietChange
  <2>2. CASE ~o.applied
    BY <1>1, <1>3, <2>2, QuietSame
  <2> QED BY <2>1, <2>2
<1>7. CASE w' = Idle
  BY <1>1, <1>6, <1>7, HarmlessCall DEF Idle, Critical
<1>8. CASE o.code = Ok /\ w' = Goto(w, "RemoveFinalizer")
  <2>1. w'.pc = "RemoveFinalizer" /\ w'.key = w.key /\ Adding' /\ Creating' /\ Deleting'
    BY <1>1, <1>8, CleanupGoesOn
  <2>2. cloud'[Name] = c /\ \A n \in Names \ {Name} : cloud'[n] = cloud[n]
    <3>1. o.applied
      BY <1>8, OutcomeFacts
    <3> QED BY <1>1, <1>2, <1>4, <3>1 DEF TypeOK
  <2>3. Cleared'
    <3> SUFFICES ASSUME NEW n \in Names, cloud'[n].by # None, ~cloud'[n].asked
                 PROVE  cloud'[n].by[1] # w.key
      BY <2>1 DEF Cleared
    <3>1. n # Name /\ cloud'[n] = cloud[n]
      BY <1>5, <2>2
    <3> QED BY <1>1, <3>1, OwnedName
  <2> QED BY <1>1, <1>6, <2>1, <2>3, StillInv
<1> QED BY <1>3, <1>7, <1>8

\* The finalizer goes when nothing is left to be orphaned.
LEMMA RemoveFinalizerInv ==
  ASSUME OrphanInv, TypeOK', RemoveFinalizer
  PROVE  OrphanInv'
<1>1. /\ TypeOK /\ Vacant /\ NoOrphan /\ UNCHANGED cloud
      /\ w.pc = "RemoveFinalizer" /\ w' = Idle
  BY DEF OrphanInv, RemoveFinalizer, At, Return
<1>2. PICK k \in Keys : k = w.key
  BY <1>1, CriticalKey DEF Critical
<1>3. Doomed(log[k], w.i)
  BY <1>1, <1>2 DEF OrphanInv, Deleting
<1>4. \A n \in Names : cloud[n].by # None /\ ~cloud[n].asked => cloud[n].by[1] # k
  BY <1>1, <1>2 DEF OrphanInv, Cleared, At
<1> DEFINE e == Released(Live(k))
<1>5. CASE UNCHANGED log
  BY <1>1, <1>5, QuietSame, HarmlessCall DEF Idle, Critical
<1>6. CASE Live(k) # None /\ Store(k, e) /\ e # Live(k)
  <2>1. log' = [log EXCEPT ![k] = Append(@, e)]
    BY <1>6 DEF Store
  <2>2. Live(k) \in Object
    BY <1>1, <1>6, LiveType
  <2>3. e \in Object \cup {None} /\ ~Protected(e)
    BY <2>2 DEF Released, Protected, Object
  <2> HIDE DEF e
  <2>4. log[k] \in Seq(Object \cup {None}) /\ log[k] # <<>> /\ Coherent(log[k])
    BY <1>1, LogType DEF OrphanInv
  <2>5. Coherent(Append(log[k], e))
    BY <1>3, <2>3, <2>4, ReleaseLog
  <2>6. \A j \in Keys : Coherent(log'[j])
    <3>1. log'[k] = Append(log[k], e) /\ \A j \in Keys \ {k} : log'[j] = log[j]
      BY <1>1, <2>1 DEF TypeOK
    <3> QED BY <2>5, <3>1 DEF OrphanInv
  <2>7. NoOrphan'
    BY <1>1, <1>4, <2>1, UnownedOwners
  <2>8. Vacant'
    BY <1>1, QuietSame DEF QuietCloud
  <2>9. Adding' /\ Creating' /\ Deleting' /\ Cleared'
    BY <1>1 DEF Idle, Adding, Creating, Deleting, Cleared, At
  <2> QED BY <2>6, <2>7, <2>8, <2>9 DEF OrphanInv
<1>7. UNCHANGED log \/ (Live(k) # None /\ Store(k, e) /\ e # Live(k))
  <2> DEFINE reply == IF Live(k) = None THEN NotFound ELSE Ok
  <2>1. PICK o \in Outcomes(reply) :
          IF o.applied THEN Store(k, e) ELSE UNCHANGED log
    BY <1>2 DEF RemoveFinalizer
  <2>2. o.applied => Live(k) # None
    BY OutcomeFacts DEF NotFound, Ok
  <2>3. e = Live(k) /\ Store(k, e) => UNCHANGED log
    BY <1>1 DEF Store, TypeOK
  <2> QED BY <2>1, <2>2, <2>3
<1> QED BY <1>5, <1>6, <1>7
-----------------------------------------------------------------------------
(* The theorem.                                                            *)

LEMMA InitInv == Init => OrphanInv
<1> SUFFICES ASSUME Init PROVE OrphanInv
  OBVIOUS
<1>1. TypeOK
  BY InitType
<1>2. Vacant /\ NoOrphan
  BY DEF Init, Vacant, NoOrphan, Gone
<1>3. \A k \in Keys : Coherent(log[k])
  BY DEF Init, Coherent, Protected
<1>4. Adding /\ Creating /\ Deleting /\ Cleared
  BY DEF Init, Idle, Adding, Creating, Deleting, Cleared, At
<1> QED BY <1>1, <1>2, <1>3, <1>4 DEF OrphanInv

LEMMA NextInv == OrphanInv /\ [Next]_vars => OrphanInv'
<1> SUFFICES ASSUME OrphanInv, [Next]_vars PROVE OrphanInv'
  OBVIOUS
<1>1. TypeOK'
  BY NextType DEF OrphanInv
<1>2. ASSUME NEW k \in Keys, StartSync(k) PROVE OrphanInv'
  BY <1>1, <1>2, StartSyncInv
<1>3. CASE Continue
  BY <1>1, <1>3, AddFinalizerInv, GetInstanceInv, InsertInstanceInv,
     ReadingCallsInv, SetPasswordInv, UpdateInstanceInv, PatchStatusInv,
     DeleteGetInv, DeleteInstanceInv, RemoveFinalizerInv, RestartInv
     DEF Continue, Panic
<1>4. CASE Environment
  BY <1>1, <1>4, EnvironmentInv
<1>5. CASE UNCHANGED vars
  <2>1. Vacant /\ UNCHANGED <<cloud, log, w>>
    BY <1>5 DEF vars, OrphanInv
  <2> QED BY <1>1, <2>1, AdvanceSame, QuietSame, Steady DEF SameWork
<1> QED BY <1>2, <1>3, <1>4, <1>5 DEF Next

\* What the phases of a sync rely on, given a cache that may be behind, holds.
THEOREM OrphanInvariance == Spec => []OrphanInv
<1>1. Init => OrphanInv
  BY InitInv
<1>2. OrphanInv /\ [Next]_vars => OrphanInv'
  BY NextInv
<1> QED BY <1>1, <1>2, PTL DEF Spec

\* Orphan mitigation works: whatever crashes, failed calls, lost replies and
\* stale reads happen, an instance that the operator created, and has not got
\* the deletion of accepted, belongs to a stored object with the finalizer.
THEOREM NothingOrphaned == Spec => []NoOrphan
<1>1. OrphanInv => NoOrphan
  BY DEF OrphanInv
<1> QED BY <1>1, OrphanInvariance, PTL
=============================================================================
