---------------------------- MODULE K8sStoreProofs ----------------------------
(***************************************************************************)
(* K8sLeaseStore.Put implements the Store contract, for any number of      *)
(* keys, concurrent Puts, foreign writes and attempts.  The invariant says *)
(* what an Update may rely on: a resourceVersion never returns, so if it   *)
(* is still the one that was read, so is the version annotation.  That a   *)
(* write shows under one key only follows from the names: two valid keys   *)
(* never share a Lease object, for any alphabet and any length limits.     *)
(***************************************************************************)
EXTENDS K8sLeaseStore, SequenceTheorems, TLAPS

-----------------------------------------------------------------------------
(* Names.                                                                  *)

\* Where the parts of an encoded name lie.
LEMMA Parts ==
  ASSUME NEW k \in Key
  PROVE  /\ k.namespace \in Seq(Char) /\ k.name \in Seq(Char)
         /\ Len(k.namespace) \in Nat /\ Len(k.name) \in Nat
         /\ k8sLeaseName(k) \in Seq(Char)
         /\ Len(k8sLeaseName(k)) = Len(k.namespace) + 1 + Len(k.name)
         /\ k8sLeaseName(k)[Len(k.namespace) + 1] = Dot
         /\ \A i \in 1 .. Len(k.namespace) : k8sLeaseName(k)[i] = k.namespace[i]
         /\ \A i \in 1 .. Len(k.name) : k8sLeaseName(k)[Len(k.namespace) + 1 + i] = k.name[i]
<1>1. k.namespace \in Seq(Char) /\ k.name \in Seq(Char) /\ Dot \in Char
  BY NamesAssumption, Zenon
<1> DEFINE a == k.namespace
           c == k.name
           d == <<Dot>>
           ad == a \o d
<1>2. d \in Seq(Char) /\ Len(d) = 1 /\ d[1] = Dot
  BY <1>1
<1>3. ad \in Seq(Char) /\ Len(ad) = Len(a) + 1 /\ ad[Len(a) + 1] = Dot
      /\ \A i \in 1 .. Len(a) : ad[i] = a[i]
  BY <1>1, <1>2
<1>4. Len(a) \in Nat /\ Len(c) \in Nat
  BY <1>1
<1> HIDE DEF a, c, d, ad
<1>5. k8sLeaseName(k) = ad \o c
  BY Zenon DEF k8sLeaseName, a, c, d, ad
<1>6. a \in Seq(Char) /\ c \in Seq(Char)
  BY <1>1, Zenon DEF a, c
<1>7. /\ ad \o c \in Seq(Char) /\ Len(ad \o c) = Len(a) + 1 + Len(c)
      /\ \A i \in 1 .. Len(a) + 1 : (ad \o c)[i] = ad[i]
      /\ \A i \in 1 .. Len(c) : (ad \o c)[Len(a) + 1 + i] = c[i]
  BY <1>3, <1>4, <1>6
<1> QED BY <1>3, <1>4, <1>5, <1>6, <1>7 DEF a, c

\* k8sLeaseName is injective on valid keys: the first dot of an object's name is
\* the separator.
THEOREM Injective ==
  \A j, k \in ValidKey : k8sLeaseName(j) = k8sLeaseName(k) => j = k
<1> SUFFICES ASSUME NEW j \in ValidKey, NEW k \in ValidKey, k8sLeaseName(j) = k8sLeaseName(k)
             PROVE  j = k
  OBVIOUS
<1>0. /\ j \in Key /\ k \in Key /\ IsDNS1123Label(j.namespace) /\ IsDNS1123Label(k.namespace)
  BY Zenon DEF ValidKey, ValidateKey
<1> DEFINE n == k8sLeaseName(k)
           lj == Len(j.namespace)
           lk == Len(k.namespace)
<1>1. /\ j.namespace \in Seq(Char) /\ j.name \in Seq(Char) /\ lj \in Nat /\ Len(j.name) \in Nat
      /\ Len(n) = lj + 1 + Len(j.name) /\ n[lj + 1] = Dot
      /\ \A i \in 1 .. lj : n[i] = j.namespace[i]
      /\ \A i \in 1 .. Len(j.name) : n[lj + 1 + i] = j.name[i]
  BY <1>0, Parts, Zenon
<1>2. /\ k.namespace \in Seq(Char) /\ k.name \in Seq(Char) /\ lk \in Nat /\ Len(k.name) \in Nat
      /\ Len(n) = lk + 1 + Len(k.name) /\ n[lk + 1] = Dot
      /\ \A i \in 1 .. lk : n[i] = k.namespace[i]
      /\ \A i \in 1 .. Len(k.name) : n[lk + 1 + i] = k.name[i]
  BY <1>0, Parts, Zenon
<1>3. /\ \A i \in 1 .. lj : j.namespace[i] # Dot
      /\ \A i \in 1 .. lk : k.namespace[i] # Dot
  BY <1>0, NamesAssumption DEF IsDNS1123Label
<1> HIDE DEF n, lj, lk
<1>4. lj = lk
  <2>1. ~(lj < lk)
    <3> SUFFICES ASSUME lj < lk PROVE FALSE
      OBVIOUS
    <3>1. lj + 1 \in 1 .. lk
      BY <1>1, <1>2
    <3> QED BY <1>1, <1>2, <1>3, <3>1, Zenon
  <2>2. ~(lk < lj)
    <3> SUFFICES ASSUME lk < lj PROVE FALSE
      OBVIOUS
    <3>1. lk + 1 \in 1 .. lj
      BY <1>1, <1>2
    <3> QED BY <1>1, <1>2, <1>3, <3>1, Zenon
  <2> QED BY <1>1, <1>2, <2>1, <2>2
<1>5. j.namespace = k.namespace
  <2>1. Len(j.namespace) = Len(k.namespace) /\ \A i \in 1 .. Len(j.namespace) : j.namespace[i] = k.namespace[i]
    BY <1>1, <1>2, <1>4, Zenon DEF lj, lk
  <2> QED BY <1>1, <1>2, <2>1, SeqEqual, Zenon
<1>6. j.name = k.name
  <2>1. Len(j.name) \in Nat /\ Len(k.name) \in Nat
    BY <1>1, <1>2, Zenon
  <2>2. Len(j.name) = Len(k.name)
    <3>1. lk + 1 + Len(j.name) = lk + 1 + Len(k.name)
      BY <1>1, <1>2, <1>4, Zenon
    <3>2. lk \in Nat
      BY <1>2, Zenon
    <3> DEFINE x == Len(j.name)
               y == Len(k.name)
    <3>3. x \in Nat /\ y \in Nat /\ lk + 1 + x = lk + 1 + y
      BY <2>1, <3>1, Zenon
    <3> HIDE DEF x, y
    <3>4. x = y
      BY <3>2, <3>3
    <3> QED BY <3>4, Zenon DEF x, y
  <2>3. \A i \in 1 .. Len(j.name) : j.name[i] = k.name[i]
    BY <1>1, <1>2, <1>4, <2>2, Zenon
  <2> QED BY <1>1, <1>2, <2>2, <2>3, SeqEqual, Zenon
<1> QED BY <1>0, <1>5, <1>6, NamesAssumption

\* The object's name is a subdomain, within its length limit.
LEMMA Subdomain ==
  ASSUME NEW k \in ValidKey
  PROVE  IsDNS1123Subdomain(k8sLeaseName(k))
<1>0. k \in Key /\ IsDNS1123Label(k.namespace) /\ IsDNS1123Subdomain(k.name)
      /\ Len(k.namespace) + 1 + Len(k.name) <= MaxSubdomain
  BY Zenon DEF ValidKey, ValidateKey
<1> DEFINE n == k8sLeaseName(k)
           a == k.namespace
           c == k.name
           l == Len(a)
<1>1. /\ a \in Seq(Char) /\ c \in Seq(Char) /\ n \in Seq(Char)
      /\ Len(n) = l + 1 + Len(c) /\ n[l + 1] = Dot
      /\ \A i \in 1 .. l : n[i] = a[i]
      /\ \A i \in 1 .. Len(c) : n[l + 1 + i] = c[i]
  BY <1>0, Parts, Zenon
<1>2. /\ l \in Nat /\ Len(c) \in Nat /\ 1 <= l /\ 1 <= Len(c)
      /\ l + 1 + Len(c) <= MaxSubdomain /\ MaxSubdomain \in Nat
      /\ a[1] \in Alnum /\ a[l] \in Alnum /\ c[1] \in Alnum /\ c[Len(c)] \in Alnum
      /\ \A i \in 1 .. l : a[i] \in Alnum \cup {Dash}
      /\ \A i \in 1 .. Len(c) : c[i] \in Alnum \cup {Dash, Dot}
      /\ \A i \in 2 .. Len(c) - 1 : c[i] = Dot => c[i - 1] \in Alnum /\ c[i + 1] \in Alnum
  <2>1. l \in Nat /\ Len(c) \in Nat /\ MaxSubdomain \in Nat /\ l + 1 + Len(c) <= MaxSubdomain
    <3>1. l \in Nat /\ Len(c) \in Nat
      BY <1>0, Parts, Zenon
    <3>2. l + 1 + Len(c) <= MaxSubdomain
      BY <1>0, Zenon
    <3> QED BY <3>1, <3>2, NamesAssumption, Zenon
  <2>2. 1 <= l /\ a[1] \in Alnum /\ a[l] \in Alnum /\ \A i \in 1 .. l : a[i] \in Alnum \cup {Dash}
    <3>1. l \in 1 .. MaxLabel /\ a[1] \in Alnum /\ a[l] \in Alnum
          /\ \A i \in 1 .. l : a[i] \in Alnum \cup {Dash}
      BY <1>0, Zenon DEF IsDNS1123Label
    <3> HIDE DEF a, l
    <3> QED BY <3>1, NamesAssumption
  <2>3. /\ 1 <= Len(c) /\ c[1] \in Alnum /\ c[Len(c)] \in Alnum
        /\ \A i \in 1 .. Len(c) : c[i] \in Alnum \cup {Dash, Dot}
        /\ \A i \in 2 .. Len(c) - 1 : c[i] = Dot => c[i - 1] \in Alnum /\ c[i + 1] \in Alnum
    BY <1>0, NamesAssumption DEF IsDNS1123Subdomain
  <2> HIDE DEF n, a, c, l
  <2> QED BY <2>1, <2>2, <2>3, Zenon
<1> HIDE DEF n, a, c, l
<1>3. Len(n) \in 1 .. MaxSubdomain /\ Len(n) \in Nat
  BY <1>1, <1>2
<1>4. n[1] \in Alnum /\ n[l] \in Alnum /\ n[l + 2] \in Alnum /\ n[Len(n)] \in Alnum
  <2>1. n[1] = a[1] /\ n[l] = a[l]
    BY <1>1, <1>2
  <2>2. n[l + 1 + 1] = c[1] /\ n[l + 1 + Len(c)] = c[Len(c)]
    <3>1. 1 \in 1 .. Len(c) /\ Len(c) \in 1 .. Len(c)
      BY <1>2
    <3> QED BY <1>1, <3>1, Zenon
  <2>3. l + 1 + 1 = l + 2
    BY <1>2
  <2> QED BY <1>1, <1>2, <2>1, <2>2, <2>3, Zenon
<1>5. ASSUME NEW i \in 1 .. Len(n)
      PROVE  \/ i \in 1 .. l /\ n[i] = a[i] /\ n[i] # Dot /\ n[i] \in Alnum \cup {Dash, Dot}
             \/ i = l + 1 /\ n[i] = Dot
             \/ /\ i - l - 1 \in 1 .. Len(c) /\ n[i] = c[i - l - 1]
                /\ n[i] \in Alnum \cup {Dash, Dot}
  <2>1. CASE i <= l
    <3>1. i \in 1 .. l
      BY <1>1, <1>2, <2>1
    <3>2. n[i] = a[i]
      BY <1>1, <3>1, Zenon
    <3>3. a[i] \in Alnum \cup {Dash}
      BY <1>2, <3>1, Zenon
    <3> QED BY <3>1, <3>2, <3>3, NamesAssumption, Zenon
  <2>2. CASE i = l + 1
    BY <1>1, <2>2, Zenon
  <2>3. CASE i > l + 1
    <3>1. i - l - 1 \in 1 .. Len(c) /\ l + 1 + (i - l - 1) = i
      BY <1>1, <1>2, <2>3
    <3> QED BY <1>1, <1>2, <3>1
  <2> QED BY <1>1, <1>2, <2>1, <2>2, <2>3
<1>6. ASSUME NEW i \in 2 .. Len(n) - 1, n[i] = Dot
      PROVE  n[i - 1] \in Alnum /\ n[i + 1] \in Alnum
  <2>0. i \in 1 .. Len(n)
    BY <1>3
  <2>1. CASE i = l + 1
    <3>1. i - 1 = l /\ i + 1 = l + 2
      BY <1>2, <2>1
    <3> QED BY <1>4, <3>1, Zenon
  <2>2. CASE i - l - 1 \in 1 .. Len(c) /\ n[i] = c[i - l - 1]
    <3> DEFINE x == i - l - 1
    <3>1. c[1] # Dot /\ c[Len(c)] # Dot
      BY <1>2, NamesAssumption, Zenon
    <3>2. x \in 2 .. Len(c) - 1
      BY <1>2, <1>6, <2>2, <3>1
    <3>3. c[x - 1] \in Alnum /\ c[x + 1] \in Alnum
      BY <1>2, <1>6, <2>2, <3>2, Zenon
    <3>4. x - 1 \in 1 .. Len(c) /\ x + 1 \in 1 .. Len(c)
          /\ l + 1 + (x - 1) = i - 1 /\ l + 1 + (x + 1) = i + 1
      BY <1>2, <3>2
    <3> HIDE DEF x
    <3>5. n[l + 1 + (x - 1)] = c[x - 1]
      BY <1>1, <3>4, Zenon
    <3>6. n[l + 1 + (x + 1)] = c[x + 1]
      BY <1>1, <3>4, Zenon
    <3> QED BY <3>3, <3>4, <3>5, <3>6, Zenon
  <2> QED BY <1>5, <1>6, <2>0, <2>1, <2>2, Zenon
<1> QED BY <1>3, <1>4, <1>5, <1>6, Zenon DEF IsDNS1123Subdomain, n

-----------------------------------------------------------------------------
(* Put.                                                                    *)

Object == [rv : Nat \ {0}, version : (Nat \ {0}) \cup {Unset}, holder : Holder \cup {NoHolder},
           duration : Nat \cup {Unset}, acquireTime : Int, renewTime : Int, transitions : Nat]

Idle == [pc : {"idle"}, res : {"none", "nil", "conflict", "error"}]

Busy == [pc : {"create", "get", "update"}, name : Names, expected : Nat,
         rec : Contract!Record, rv : Nat, attempt : Nat]

Types ==
  /\ lease \in [Names -> {NoLease} \cup Object]
  /\ put \in [Writer -> Idle \cup Busy]
  /\ puts \in Nat

\* What the earlier steps of a Put have established.
Established(w) ==
  /\ put[w].pc = "create" => put[w].expected = 0
  /\ put[w].pc \in {"get", "update"} => put[w].expected # 0
  /\ put[w].pc = "update" =>
       LET l == lease[put[w].name]
       IN /\ l # NoLease /\ put[w].rv <= l.rv
          /\ l.rv = put[w].rv => versionFromLease(l) = put[w].expected

IInv == Types /\ \A w \in Writer : Established(w)

-----------------------------------------------------------------------------
\* The version annotation of an object reads as a positive number.
LEMMA VersionPositive ==
  ASSUME NEW l \in Object
  PROVE  versionFromLease(l) \in Nat \ {0}
BY K8sAssumption DEF Object, versionFromLease

\* leaseFromRecord and applyRecordToLease make well-formed objects with the
\* next resourceVersion and the given version.
LEMMA Applied ==
  ASSUME NEW l \in {NoLease} \cup Object, NEW r \in Contract!Record, NEW v \in Nat \ {0}
  PROVE  LET o == applyRecordToLease(l, r, v)
         IN o \in Object /\ o.rv = l.rv + 1 /\ versionFromLease(o) = v
<1> DEFINE o == applyRecordToLease(l, r, v)
<1>1. l.rv \in Nat
  BY DEF NoLease, Object
<1>2. leaseDuration(r) \in Nat \cup {Unset}
  BY K8sAssumption DEF leaseDuration, Contract!Record
<1>3. MicroTime(r.acquiredAt) \in Int /\ MicroTime(r.renewedAt) \in Int
  BY K8sAssumption DEF MicroTime, Contract!Record
<1>4. o \in Object
  BY <1>1, <1>2, <1>3 DEF applyRecordToLease, Object, Contract!Record
<1>5. o.version = v /\ v # Unset
  BY K8sAssumption DEF applyRecordToLease
<1> QED BY <1>4, <1>5, Zenon DEF applyRecordToLease, versionFromLease

\* recordFromLease answers a record of the contract.
LEMMA ReadTyped ==
  ASSUME NEW l \in {NoLease} \cup Object
  PROVE  recordFromLease(l) \in Contract!Record
<1>1. CASE l = NoLease
  BY <1>1 DEF recordFromLease, NoRecord, Contract!Record
<1>2. CASE l # NoLease
  <2>1. (IF l.duration = Unset THEN 0 ELSE l.duration * Second) \in Nat
    BY <1>2, K8sAssumption DEF Object
  <2> QED BY <1>2, <2>1, VersionPositive, Zenon DEF recordFromLease, Contract!Record, Object
<1> QED BY <1>1, <1>2, Zenon

\* The initial objects, absent or legacy, meet the invariant.
LEMMA InitInv == Init => IInv
BY DEF Init, IInv, Types, Established, Object, Idle, NoLease, LegacyLease, Resting

-----------------------------------------------------------------------------
\* A step that only changes a call leaves the other calls' knowledge alone.
LEMMA OwnStep ==
  ASSUME IInv, NEW w \in Writer, NEW s \in Idle \cup Busy, put' = [put EXCEPT ![w] = s],
         lease' = lease, puts' \in Nat, Established(w)'
  PROVE  IInv'
<1>1. Types'
  BY Zenon DEF IInv, Types
<1>2. ASSUME NEW v \in Writer, v # w PROVE Established(v)'
  BY <1>2, Zenon DEF IInv, Types, Established
<1> QED BY <1>1, <1>2, Zenon DEF IInv

\* A write that raises the resourceVersion leaves the other calls' knowledge
\* true: the version they read is now an old one.
LEMMA WriteStep ==
  ASSUME IInv, NEW n \in Names, NEW o \in Object, lease' = [lease EXCEPT ![n] = o],
         o.rv = lease[n].rv + 1,
         NEW W \in SUBSET Writer, put' \in [Writer -> Idle \cup Busy], puts' \in Nat,
         \A w \in W : put'[w].pc = "idle", \A w \in Writer \ W : put'[w] = put[w]
  PROVE  IInv'
<1>1. Types'
  BY Zenon DEF IInv, Types
<1>2. ASSUME NEW w \in Writer PROVE Established(w)'
  <2>1. CASE w \in W
    BY <2>1, Zenon DEF Established
  <2>2. CASE w \notin W
    <3>1. put'[w] = put[w] /\ Established(w)
      BY <2>2, Zenon DEF IInv
    <3>2. CASE put[w].pc # "update"
      BY <3>1, <3>2, Zenon DEF Established
    <3>3. CASE put[w].pc = "update"
      <4>1. put[w] \in Busy /\ put[w].name \in Names /\ put[w].rv \in Nat
        BY <3>3, Zenon DEF IInv, Types, Idle, Busy
      <4>2. CASE put[w].name # n
        BY <3>1, <4>1, <4>2, Zenon DEF Established, IInv, Types
      <4>3. CASE put[w].name = n
        <5>1. lease[n] \in Object /\ put[w].rv <= lease[n].rv /\ lease[n].rv \in Nat
          BY <3>1, <3>3, <4>3, Zenon DEF Established, IInv, Types, Object
        <5>2. lease'[n] = o /\ o # NoLease /\ put[w].rv <= o.rv /\ o.rv # put[w].rv
          BY <4>1, <5>1 DEF IInv, Types, Object, NoLease
        <5> QED BY <3>1, <3>3, <4>1, <4>3, <5>2, Zenon DEF Established
      <4> QED BY <4>2, <4>3, Zenon
    <3> QED BY <3>2, <3>3, Zenon
  <2> QED BY <2>1, <2>2, Zenon
<1> QED BY <1>1, <1>2, Zenon DEF IInv

\* An accepted Create or Update writes the version after the one it expected,
\* over a record of the version it expected.
LEMMA PutWrites ==
  ASSUME IInv, NEW w \in Writer, Create(w) \/ Update(w),
         lease' # lease \/ put'[w] = Resting("nil")
  PROVE  \E n \in Names, o \in Object :
           /\ lease' = [lease EXCEPT ![n] = o] /\ o.rv = lease[n].rv + 1
           /\ \E res \in {"nil", "error"} : Finish(w, res)
           /\ versionFromLease(o) = recordFromLease(lease[n]).version + 1
           /\ n = put[w].name /\ recordFromLease(lease[n]).version = put[w].expected
           /\ o = applyRecordToLease(lease[n], put[w].rec, put[w].expected + 1)
<1> DEFINE n == put[w].name
<1>0. ASSUME Finish(w, "conflict") \/ Retry(w), lease' = lease PROVE FALSE
  <2>1. put'[w].pc = "idle" /\ put'[w].res = "nil"
    BY <1>0 DEF Resting
  <2>2. put'[w].pc = "get" \/ put'[w] = Resting("conflict")
    BY <1>0 DEF Finish, Retry, IInv, Types, Idle, Busy
  <2> QED BY <2>1, <2>2 DEF Resting
<1>1. put[w] \in Busy /\ n \in Names /\ put[w].expected \in Nat /\ put[w].rec \in Contract!Record
  BY Zenon DEF IInv, Types, Idle, Busy, Create, Update
<1>2. lease[n] \in {NoLease} \cup Object
  BY <1>1, Zenon DEF IInv, Types
<1>3. CASE Create(w)
  <2>1. lease[n] = NoLease /\ lease' = [lease EXCEPT ![n] = applyRecordToLease(NoLease, put[w].rec, 1)]
        /\ \E res \in {"nil", "error"} : Finish(w, res)
    BY <1>0, <1>3, Zenon DEF Create
  <2>2. recordFromLease(lease[n]).version = 0
    BY <2>1, Zenon DEF recordFromLease, NoRecord
  <2> DEFINE o == applyRecordToLease(NoLease, put[w].rec, 1)
  <2>3. o \in Object /\ o.rv = lease[n].rv + 1 /\ versionFromLease(o) = 1
    BY <1>1, <2>1, Applied, 1 \in Nat \ {0}, Zenon
  <2> HIDE DEF o
  <2>4. lease' = [lease EXCEPT ![n] = o]
    BY <2>1, Zenon DEF o
  <2>5. versionFromLease(o) = recordFromLease(lease[n]).version + 1
    BY <2>2, <2>3
  <2>6. put[w].expected = 0
    BY <1>3, Zenon DEF Create, IInv, Established
  <2>7. 0 + 1 = 1
    OBVIOUS
  <2>8. o = applyRecordToLease(lease[n], put[w].rec, put[w].expected + 1)
    BY <2>1, <2>6, <2>7, Zenon DEF o
  <2> HIDE DEF n
  <2>9. n = put[w].name
    BY Zenon DEF n
  <2> QED BY <1>1, <2>1, <2>2, <2>3, <2>4, <2>5, <2>6, <2>8, <2>9, Zenon
<1>4. CASE Update(w)
  <2>1. lease[n].rv = put[w].rv /\ put[w].pc = "update"
        /\ lease' = [lease EXCEPT ![n] = applyRecordToLease(lease[n], put[w].rec, put[w].expected + 1)]
        /\ \E res \in {"nil", "error"} : Finish(w, res)
    BY <1>0, <1>4, Zenon DEF Update, Current
  <2>2. lease[n] # NoLease /\ versionFromLease(lease[n]) = put[w].expected
    BY <2>1, Zenon DEF IInv, Established
  <2>3. recordFromLease(lease[n]).version = put[w].expected
    BY <2>2, Zenon DEF recordFromLease
  <2> DEFINE o == applyRecordToLease(lease[n], put[w].rec, put[w].expected + 1)
  <2>4. put[w].expected + 1 \in Nat \ {0}
    BY <1>1
  <2>5. o \in Object /\ o.rv = lease[n].rv + 1 /\ versionFromLease(o) = put[w].expected + 1
    BY <1>1, <1>2, <2>4, Applied, Zenon
  <2>6. lease' = [lease EXCEPT ![n] = o]
    BY <2>1, Zenon
  <2>8. o = applyRecordToLease(lease[n], put[w].rec, put[w].expected + 1)
    BY Zenon
  <2> HIDE DEF o
  <2>7. versionFromLease(o) = recordFromLease(lease[n]).version + 1
    BY <2>3, <2>5, Zenon
  <2> HIDE DEF n
  <2>9. n = put[w].name
    BY Zenon DEF n
  <2> QED BY <1>1, <2>1, <2>3, <2>5, <2>6, <2>7, <2>8, <2>9, Zenon
<1> QED BY <1>3, <1>4, Zenon

\* Every step keeps the invariant.
LEMMA NextInv == IInv /\ [Next]_vars => IInv'
<1> SUFFICES ASSUME IInv, [Next]_vars PROVE IInv'
  OBVIOUS
<1>1. ASSUME NEW w \in Writer, NEW res \in {"nil", "conflict", "error"}, Finish(w, res),
             lease' = lease, puts' = puts
      PROVE  IInv'
  <2>1. Resting(res) \in Idle /\ put'[w] = Resting(res)
    BY <1>1, Zenon DEF Resting, Idle, Finish, IInv, Types
  <2>2. Established(w)'
    BY <2>1 DEF Established, Resting
  <2> QED BY <1>1, <2>1, <2>2, OwnStep, Zenon DEF Finish, IInv, Types
<1>2. ASSUME NEW w \in Writer, NEW k \in ValidKey, BeginPut(w, k) PROVE IInv'
  <2>1. PICK a \in Arguments(k) :
          put' = [put EXCEPT ![w] = [pc |-> IF a.expected = 0 THEN "create" ELSE "get",
                                     name |-> k8sLeaseName(k), expected |-> a.expected,
                                     rec |-> a.rec, rv |-> 0, attempt |-> 1]]
    BY <1>2, Zenon DEF BeginPut
  <2>0. k8sLeaseName(k) \in Names
    BY Zenon DEF Names
  <2>2. recordFromLease(lease[k8sLeaseName(k)]).version \in Nat
    BY <2>0, ReadTyped, Zenon DEF IInv, Types, Contract!Record
  <2>3. (puts + 1) * Micro + 1 \in Int
    BY K8sAssumption DEF IInv, Types
  <2>4. a.expected \in Nat /\ a.rec \in Contract!Record
    BY <2>2, <2>3, K8sAssumption DEF Arguments, Contract!Record
  <2> DEFINE s == [pc |-> IF a.expected = 0 THEN "create" ELSE "get", name |-> k8sLeaseName(k),
                   expected |-> a.expected, rec |-> a.rec, rv |-> 0, attempt |-> 1]
  <2>5. s \in Busy /\ put'[w] = s /\ Established(w)'
    <3>1. s \in Busy /\ put'[w] = s
      BY <2>0, <2>1, <2>4, Zenon DEF Busy, IInv, Types
    <3>2. s.pc = (IF a.expected = 0 THEN "create" ELSE "get") /\ s.expected = a.expected
      OBVIOUS
    <3> HIDE DEF s
    <3> QED BY <3>1, <3>2, Zenon DEF Established
  <2>6. put' = [put EXCEPT ![w] = s]
    BY <2>1, Zenon
  <2>7. lease' = lease /\ puts' \in Nat
    BY <1>2 DEF BeginPut, IInv, Types
  <2> HIDE DEF s
  <2> QED BY <2>5, <2>6, <2>7, OwnStep, Zenon
<1>3. ASSUME NEW w \in Writer, Create(w) \/ Update(w), lease' # lease PROVE IInv'
  <2>1. PICK n \in Names, o \in Object :
           /\ lease' = [lease EXCEPT ![n] = o] /\ o.rv = lease[n].rv + 1
           /\ \E res \in {"nil", "error"} : Finish(w, res)
    BY <1>3, PutWrites, Zenon
  <2>2. put' \in [Writer -> Idle \cup Busy] /\ put'[w].pc = "idle"
        /\ \A v \in Writer \ {w} : put'[v] = put[v]
    BY <2>1 DEF Finish, Resting, Idle, IInv, Types
  <2>3. puts' \in Nat
    BY <1>3, Zenon DEF Create, Update, IInv, Types
  <2>4. {w} \in SUBSET Writer /\ \A v \in {w} : put'[v].pc = "idle"
    BY <2>2, Zenon
  <2> QED BY <2>1, <2>2, <2>3, <2>4, WriteStep, Zenon
<1>4. ASSUME NEW w \in Writer, Step(w), lease' = lease PROVE IInv'
  <2>1. CASE \E res \in {"nil", "conflict", "error"} : Finish(w, res)
    BY <1>1, <1>4, <2>1, Zenon DEF Step, Create, GetForPut, Update, Fail
  <2>2. CASE GetForPut(w) /\ put' = [put EXCEPT ![w].pc = "update", ![w].rv = lease[put[w].name].rv]
             /\ lease[put[w].name] # NoLease /\ versionFromLease(lease[put[w].name]) = put[w].expected
    <3>1. put[w] \in Busy /\ put[w].name \in Names
      BY <2>2, Zenon DEF GetForPut, IInv, Types, Idle, Busy
    <3>2. lease[put[w].name] \in Object /\ lease[put[w].name].rv \in Nat
      BY <2>2, <3>1, Zenon DEF IInv, Types, Object
    <3> DEFINE s == [put[w] EXCEPT !.pc = "update", !.rv = lease[put[w].name].rv]
    <3>3. s \in Busy /\ put' = [put EXCEPT ![w] = s] /\ put'[w] = s
      BY <2>2, <3>1, <3>2, Zenon DEF Busy, IInv, Types
    <3>4. s.pc = "update" /\ s.name = put[w].name /\ s.rv = lease[put[w].name].rv
          /\ s.expected = put[w].expected
      BY <3>1, Zenon DEF Busy
    <3>5. Established(w)'
      <4> HIDE DEF s
      <4>1. put[w].expected # 0
        BY <2>2, Zenon DEF IInv, Established, GetForPut
      <4> QED BY <1>4, <2>2, <3>2, <3>3, <3>4, <4>1 DEF Established
    <3> HIDE DEF s
    <3> QED BY <1>4, <2>2, <3>3, <3>5, OwnStep, Zenon DEF GetForPut, IInv, Types
  <2>3. CASE Update(w) /\ put' = [put EXCEPT ![w].pc = "get", ![w].attempt = @ + 1]
    <3>1. put[w] \in Busy /\ put[w].name \in Names
      BY <2>3, Zenon DEF Update, IInv, Types, Idle, Busy
    <3>2. put[w].expected # 0
      BY <2>3, Zenon DEF Update, IInv, Established
    <3> DEFINE s == [put[w] EXCEPT !.pc = "get", !.attempt = @ + 1]
    <3>3. s \in Busy /\ put' = [put EXCEPT ![w] = s] /\ put'[w] = s
      BY <2>3, <3>1 DEF Busy, IInv, Types
    <3>4. Established(w)'
      BY <3>1, <3>2, <3>3, Zenon DEF Established, Busy
    <3> HIDE DEF s
    <3> QED BY <1>4, <2>3, <3>3, <3>4, OwnStep, Zenon DEF Update, IInv, Types
  <2> QED BY <1>4, <2>1, <2>2, <2>3, Zenon DEF Step, Create, GetForPut, Update, Retry, Fail
<1>5. ASSUME NEW n \in Names, Touch(n) PROVE IInv'
  <2> DEFINE o == [lease[n] EXCEPT !.rv = @ + 1]
  <2>1. lease[n] \in Object
    BY <1>5, Zenon DEF Touch, IInv, Types
  <2>2. o \in Object /\ o.rv = lease[n].rv + 1 /\ lease' = [lease EXCEPT ![n] = o]
    BY <1>5, <2>1 DEF Touch, Object, IInv, Types
  <2>3. put' = put /\ puts' = puts /\ put' \in [Writer -> Idle \cup Busy] /\ puts' \in Nat
    BY <1>5, Zenon DEF Touch, IInv, Types
  <2> HIDE DEF o
  <2>4. {} \in SUBSET Writer /\ \A v \in {} : put'[v].pc = "idle"
    OBVIOUS
  <2>5. \A v \in Writer \ {} : put'[v] = put[v]
    BY <2>3, Zenon
  <2> QED BY <2>2, <2>3, <2>4, <2>5, WriteStep, Zenon
<1>6. CASE UNCHANGED vars
  BY <1>6, Zenon DEF vars, IInv, Types, Established
<1>7. ASSUME NEW w \in Writer, Step(w), lease' # lease PROVE Create(w) \/ Update(w)
  BY <1>7, Zenon DEF Step, GetForPut, Fail
<1> QED BY <1>2, <1>3, <1>4, <1>5, <1>6, <1>7, Zenon DEF Next, Quiet

\* The invariant holds in every reachable state.
THEOREM Invariance == Spec => []IInv
BY InitInv, NextInv, PTL DEF Spec

\* The comment of Put and Store's contract: whatever Puts race, answers are
\* lost, and foreign writers move the resourceVersion, what Get shows changes
\* by one accepted Put of one key.
THEOREM StoreRefinement == Spec => ImplementsStore
<1>1. IInv /\ [Next]_vars => [Contract!StoreNext]_Shown
  <2> SUFFICES ASSUME IInv, [Next]_vars PROVE [Contract!StoreNext]_Shown
    OBVIOUS
  <2>1. CASE lease' = lease
    BY <2>1, Zenon DEF Shown
  <2>2. ASSUME NEW w \in Writer, Create(w) \/ Update(w), lease' # lease
        PROVE  Contract!StoreNext
    <3>1. PICK n \in Names, o \in Object :
             /\ lease' = [lease EXCEPT ![n] = o]
             /\ versionFromLease(o) = recordFromLease(lease[n]).version + 1
      BY <2>2, PutWrites, Zenon
    <3>2. PICK k \in ValidKey : n = k8sLeaseName(k)
      BY Zenon DEF Names
    <3>3. lease'[n] = o /\ o # NoLease
      BY <3>1 DEF IInv, Types, Object, NoLease
    <3>4. ASSUME NEW j \in ValidKey, j # k PROVE Shown'[j] = Shown[j]
      <4>1. k8sLeaseName(j) # n /\ k8sLeaseName(j) \in Names
        BY <3>2, <3>4, Injective, Zenon DEF Names
      <4>2. lease'[k8sLeaseName(j)] = lease[k8sLeaseName(j)]
        BY <3>1, <4>1, Zenon DEF IInv, Types
      <4> QED BY <4>2, Zenon DEF Shown
    <3>5. Shown'[k] = recordFromLease(o) /\ recordFromLease(o) \in Contract!Record
      BY <3>2, <3>3, ReadTyped, Zenon DEF Shown
    <3>6. recordFromLease(o).version = recordFromLease(lease[n]).version + 1
      BY <3>1, <3>3, Zenon DEF recordFromLease
    <3>7. Shown[k] = recordFromLease(lease[n])
      BY <3>2, Zenon DEF Shown
    <3>8. Shown' = [Shown EXCEPT ![k] = Shown'[k]]
      BY <3>4, Zenon DEF Shown
    <3> QED BY <3>5, <3>6, <3>7, <3>8, Zenon DEF Contract!StoreNext
  <2>3. ASSUME NEW n \in Names, Touch(n) PROVE Shown' = Shown
    <3>1. lease[n] \in Object /\ lease'[n] = [lease[n] EXCEPT !.rv = @ + 1]
          /\ \A m \in Names : m # n => lease'[m] = lease[m]
      BY <2>3, Zenon DEF Touch, IInv, Types
    <3>2. lease'[n] # NoLease /\ lease[n] # NoLease
      BY <2>3, <3>1 DEF Touch, Object, NoLease
    <3>3. recordFromLease(lease'[n]) = recordFromLease(lease[n])
      BY <3>1, <3>2, Zenon DEF recordFromLease, versionFromLease, Object
    <3>4. \A k \in ValidKey : k8sLeaseName(k) \in Names
      BY Zenon DEF Names
    <3> QED BY <3>1, <3>3, <3>4, Zenon DEF Shown
  <2> QED BY <2>1, <2>2, <2>3, Zenon DEF Next, vars, Quiet, Step, BeginPut, GetForPut, Fail
<1> QED BY <1>1, Invariance, PTL DEF Spec, ImplementsStore

\* maxEncodedKeyLength is the right bound: no Put asks for an object whose name
\* is not a DNS-1123 subdomain.
THEOREM Accepted == Spec => []NamesAccepted
<1>1. ASSUME IInv PROVE NamesAccepted
  <2> SUFFICES ASSUME NEW w \in Writer, put[w].pc # "idle" PROVE IsDNS1123Subdomain(put[w].name)
    BY Zenon DEF NamesAccepted
  <2>1. put[w].name \in Names
    BY <1>1, Zenon DEF IInv, Types, Idle, Busy
  <2> QED BY <2>1, Subdomain, Zenon DEF Names
<1> QED BY <1>1, Invariance, PTL

-----------------------------------------------------------------------------
(* What Put answers.                                                       *)

Version(n) == recordFromLease(lease[n]).version
RenewedAt(n) == recordFromLease(lease[n]).renewedAt
Stamp(w) == put[w].rec.renewedAt

\* Every attempt beyond the first was used up by a foreign write, unless the
\* record itself has moved on.
Attempts(w) ==
  put[w].pc # "idle" =>
    /\ put[w].expected <= Version(put[w].name)
    /\ \/ put[w].expected < Version(put[w].name)
       \/ /\ put[w].attempt <= touches + 1
          /\ put[w].pc = "update" =>
               put[w].rv = lease[put[w].name].rv \/ put[w].attempt <= touches

\* The times Put was called with tell the records of all calls apart, also in
\* whole microseconds.
Stamps ==
  /\ \A w \in Writer : put[w].pc # "idle" =>
       /\ Stamp(w) <= puts * Micro + 1
       /\ \A n \in Names : RenewedAt(n) # MicroTime(Stamp(w))
       /\ \A v \in Writer : (put[v].pc # "idle" /\ v # w) => MicroTime(Stamp(v)) # MicroTime(Stamp(w))
  /\ \A n \in Names : RenewedAt(n) <= puts * Micro + 1

\* The records that the manager passes.
Passed(w) ==
  put[w].pc # "idle" =>
    /\ put[w].rec.ttl = IF put[w].rec.holder = NoHolder THEN 0 ELSE Second
    /\ put[w].rec.acquiredAt = 0

AInv == IInv /\ touches \in Nat /\ Stamps /\ \A w \in Writer : Attempts(w) /\ Passed(w)

\* A time loses less than a microsecond when it is stored.
LEMMA Truncation ==
  ASSUME NEW t \in Int
  PROVE  MicroTime(t) \in t - Micro + 1 .. t
<1>1. Micro \in Nat /\ Micro > 0
  BY K8sAssumption
<1>2. t = Micro * (t \div Micro) + (t % Micro) /\ t % Micro \in 0 .. Micro - 1 /\ t \div Micro \in Int
  BY <1>1
<1>3. Micro * (t \div Micro) = (t \div Micro) * Micro
  BY <1>1, <1>2
<1> QED BY <1>1, <1>2, <1>3 DEF MicroTime

\* What Get shows of a record that Put has stored.
LEMMA ReadBack ==
  ASSUME NEW l \in {NoLease} \cup Object, NEW r \in Contract!Record, NEW v \in Nat \ {0}
  PROVE  LET b == recordFromLease(applyRecordToLease(l, r, v))
         IN /\ b.version = v /\ b.renewedAt = MicroTime(r.renewedAt)
            /\ b.acquiredAt = MicroTime(r.acquiredAt) /\ b.holder = r.holder /\ b.token = r.token
            /\ b.ttl = IF leaseDuration(r) = Unset THEN 0 ELSE leaseDuration(r) * Second
<1> DEFINE o == applyRecordToLease(l, r, v)
<1>1. o \in Object /\ versionFromLease(o) = v
  BY Applied, Zenon
<1>2. o # NoLease
  BY <1>1 DEF Object, NoLease
<1>3. o.holder = r.holder /\ o.duration = leaseDuration(r) /\ o.acquireTime = MicroTime(r.acquiredAt)
      /\ o.renewTime = MicroTime(r.renewedAt) /\ o.transitions = r.token
  BY Zenon DEF applyRecordToLease
<1> HIDE DEF o
<1>4. recordFromLease(o).version = v /\ recordFromLease(o).renewedAt = o.renewTime
      /\ recordFromLease(o).acquiredAt = o.acquireTime /\ recordFromLease(o).holder = o.holder
      /\ recordFromLease(o).token = o.transitions
      /\ recordFromLease(o).ttl = IF o.duration = Unset THEN 0 ELSE o.duration * Second
  BY <1>1, <1>2, Zenon DEF recordFromLease
<1> QED BY <1>3, <1>4, Zenon DEF o

\* What a busy call carries.
LEMMA Carries ==
  ASSUME IInv, NEW w \in Writer, put[w].pc # "idle"
  PROVE  /\ put[w] \in Busy /\ put[w].name \in Names /\ put[w].expected \in Nat
         /\ put[w].rec \in Contract!Record /\ put[w].rv \in Nat /\ put[w].attempt \in Nat
         /\ Stamp(w) \in Int /\ MicroTime(Stamp(w)) \in Int /\ MicroTime(Stamp(w)) <= Stamp(w)
<1>1. put[w] \in Busy
  BY Zenon DEF IInv, Types, Idle
<1>2. put[w].name \in Names /\ put[w].expected \in Nat
      /\ put[w].rec \in Contract!Record /\ put[w].rv \in Nat /\ put[w].attempt \in Nat
  BY <1>1, Zenon DEF Busy
<1>3. Stamp(w) \in Int
  BY <1>2, Zenon DEF Contract!Record, Stamp
<1>4. MicroTime(Stamp(w)) \in Int /\ MicroTime(Stamp(w)) <= Stamp(w)
  BY <1>3, Truncation, K8sAssumption
<1> QED BY <1>1, <1>2, <1>3, <1>4, Zenon

\* What Get shows has the types of a record.
LEMMA ShowsTyped ==
  ASSUME IInv, NEW n \in Names
  PROVE  Version(n) \in Nat /\ RenewedAt(n) \in Int
<1>1. recordFromLease(lease[n]) \in Contract!Record
  BY ReadTyped, Zenon DEF IInv, Types
<1> QED BY <1>1, Zenon DEF Version, RenewedAt, Contract!Record

\* A step that begins no Put and writes no record keeps what is known of the
\* records.
LEMMA RecordsKept ==
  ASSUME AInv, puts' = puts, \A n \in Names : RenewedAt(n)' = RenewedAt(n),
         \A w \in Writer : put'[w].pc # "idle" => put[w].pc # "idle" /\ put'[w].rec = put[w].rec
  PROVE  Stamps' /\ \A w \in Writer : Passed(w)'
<1>1. \A w \in Writer : put'[w].pc # "idle" => Stamp(w)' = Stamp(w)
  BY Zenon DEF Stamp
<1>2. Stamps'
  BY <1>1, Zenon DEF AInv, Stamps
<1>3. \A w \in Writer : Passed(w)'
  BY Zenon DEF AInv, Passed
<1> QED BY <1>2, <1>3, Zenon

\* A call on a record that a step leaves alone keeps its count of attempts.
LEMMA AttemptsKept ==
  ASSUME AInv, NEW w \in Writer, put'[w] = put[w] \/ put'[w].pc = "idle",
         lease' = lease, touches' = touches
  PROVE  Attempts(w)'
<1>1. CASE put'[w].pc = "idle"
  BY <1>1, Zenon DEF Attempts
<1>2. CASE put'[w] = put[w] /\ put'[w].pc # "idle"
  BY <1>2, Zenon DEF AInv, Attempts, Version
<1> QED BY <1>1, <1>2, Zenon

\* A new call's stamp is later than every stamp so far, also in microseconds.
LEMMA BeginAnswers ==
  ASSUME AInv, IInv', NEW w \in Writer, NEW k \in ValidKey, BeginPut(w, k)
  PROVE  AInv'
<1> DEFINE n == k8sLeaseName(k)
           t == (puts + 1) * Micro + 1
<1>1. PICK a \in Arguments(k) :
        put' = [put EXCEPT ![w] = [pc |-> IF a.expected = 0 THEN "create" ELSE "get",
                                   name |-> n, expected |-> a.expected,
                                   rec |-> a.rec, rv |-> 0, attempt |-> 1]]
  BY Zenon DEF BeginPut
<1>2. n \in Names /\ lease' = lease /\ touches' = touches /\ puts' = puts + 1 /\ puts \in Nat
      /\ touches \in Nat /\ IInv /\ puts' \in Nat
  BY DEF Names, BeginPut, AInv, IInv, Types
<1>3. Version(n) \in Nat
  BY <1>2, ShowsTyped, Zenon
<1>4. a.expected \in 0 .. Version(n) /\ a.rec.renewedAt = t /\ a.rec.acquiredAt = 0
      /\ a.rec.ttl = IF a.rec.holder = NoHolder THEN 0 ELSE Second
  BY DEF Arguments, Version
<1>5. put'[w].pc \in {"create", "get"} /\ put'[w].name = n /\ put'[w].expected = a.expected
      /\ put'[w].rec = a.rec /\ put'[w].attempt = 1 /\ \A v \in Writer : v # w => put'[v] = put[v]
  BY <1>1 DEF AInv, IInv, Types
<1>6. Attempts(w)' /\ Passed(w)' /\ Stamp(w)' = t
  <2>1. Version(n)' = Version(n)
    BY <1>2, Zenon DEF Version
  <2>2. a.expected <= Version(n) /\ 1 <= touches + 1
    BY <1>2, <1>3, <1>4
  <2> HIDE DEF n
  <2>3. Attempts(w)'
    BY <1>2, <1>5, <2>1, <2>2 DEF Attempts
  <2> QED BY <1>4, <1>5, <2>3, Zenon DEF Passed, Stamp
<1>7. ASSUME NEW v \in Writer, v # w PROVE Attempts(v)' /\ Passed(v)'
  BY <1>2, <1>5, <1>7, AttemptsKept, Zenon DEF Passed, AInv
<1>8. Stamps'
  <2>1. Micro \in Nat \ {0} /\ puts * Micro \in Nat /\ t \in Int /\ t = puts * Micro + Micro + 1
        /\ puts' * Micro + 1 = t
    BY <1>2, K8sAssumption
  <2> HIDE DEF t
  <2>2. MicroTime(t) \in Int /\ MicroTime(t) > puts * Micro + 1
    BY <2>1, Truncation
  <2>3. ASSUME NEW v \in Writer, v # w, put'[v].pc # "idle"
        PROVE  Stamp(v)' = Stamp(v) /\ Stamp(v) \in Int /\ Stamp(v) <= puts * Micro + 1
               /\ Stamp(v) <= t /\ MicroTime(Stamp(v)) # MicroTime(t)
               /\ put[v].pc # "idle"
    <3>1. put'[v] = put[v] /\ Stamp(v)' = Stamp(v) /\ put[v].pc # "idle"
      BY <1>5, <2>3, Zenon DEF Stamp
    <3>2. Stamp(v) \in Int /\ MicroTime(Stamp(v)) \in Int /\ MicroTime(Stamp(v)) <= Stamp(v)
          /\ Stamp(v) <= puts * Micro + 1
      BY <1>2, <3>1, Carries, Zenon DEF AInv, Stamps
    <3> QED BY <2>1, <2>2, <3>1, <3>2
  <2>4. ASSUME NEW m \in Names
        PROVE  RenewedAt(m)' = RenewedAt(m) /\ RenewedAt(m) <= t /\ RenewedAt(m) # MicroTime(t)
    <3>1. RenewedAt(m)' = RenewedAt(m) /\ RenewedAt(m) \in Int /\ RenewedAt(m) <= puts * Micro + 1
      BY <1>2, ShowsTyped, Zenon DEF RenewedAt, AInv, Stamps
    <3> QED BY <2>1, <2>2, <3>1
  <2>5. t <= t
    BY <2>1
  <2>6. ASSUME NEW v \in Writer, put'[v].pc # "idle"
        PROVE  /\ Stamp(v)' <= t /\ \A m \in Names : RenewedAt(m)' # MicroTime(Stamp(v)')
               /\ \A u \in Writer : (put'[u].pc # "idle" /\ u # v)
                                      => MicroTime(Stamp(u)') # MicroTime(Stamp(v)')
    <3>1. CASE v = w
      BY <1>6, <2>3, <2>4, <2>5, <3>1, Zenon
    <3>2. CASE v # w
      <4>1. Stamp(v)' = Stamp(v) /\ put[v].pc # "idle" /\ Stamp(v) <= t
            /\ MicroTime(Stamp(v)) # MicroTime(t)
        BY <2>3, <2>6, <3>2, Zenon
      <4>2. \A m \in Names : RenewedAt(m)' # MicroTime(Stamp(v))
        BY <2>4, <4>1, Zenon DEF AInv, Stamps
      <4>3. ASSUME NEW u \in Writer, put'[u].pc # "idle", u # v
            PROVE  MicroTime(Stamp(u)') # MicroTime(Stamp(v))
        <5>1. CASE u = w
          BY <1>6, <4>1, <5>1, Zenon
        <5>2. CASE u # w
          BY <2>3, <4>1, <4>3, <5>2, Zenon DEF AInv, Stamps
        <5> QED BY <5>1, <5>2, Zenon
      <4> QED BY <4>1, <4>2, <4>3, Zenon
    <3> QED BY <3>1, <3>2, Zenon
  <2> QED BY <2>1, <2>4, <2>6, Zenon DEF Stamps, MicroTime
<1> QED BY <1>2, <1>6, <1>7, <1>8, Zenon DEF AInv

\* A write moves the record on under every other call, which had another stamp.
LEMMA WriteAnswers ==
  ASSUME AInv, IInv', NEW w \in Writer, Create(w) \/ Update(w), lease' # lease
  PROVE  AInv'
<1>1. PICK n \in Names, o \in Object :
        /\ lease' = [lease EXCEPT ![n] = o]
        /\ \E res \in {"nil", "error"} : Finish(w, res)
        /\ n = put[w].name /\ recordFromLease(lease[n]).version = put[w].expected
        /\ o = applyRecordToLease(lease[n], put[w].rec, put[w].expected + 1)
  BY PutWrites, Zenon DEF AInv
<1>2. puts' = puts /\ touches' = touches /\ touches \in Nat /\ IInv /\ put[w].pc # "idle"
  BY Zenon DEF AInv, Create, Update
<1>3. put'[w].pc = "idle" /\ \A v \in Writer : v # w => put'[v] = put[v]
  BY <1>1 DEF Finish, Resting, AInv, IInv, Types
<1>4. put[w].rec \in Contract!Record /\ put[w].expected \in Nat /\ lease[n] \in {NoLease} \cup Object
      /\ Stamp(w) \in Int /\ MicroTime(Stamp(w)) \in Int /\ MicroTime(Stamp(w)) <= Stamp(w)
  BY <1>2, Carries, Zenon DEF IInv, Types
<1>5. put[w].expected + 1 \in Nat \ {0}
  BY <1>4
<1>6. lease'[n] = o /\ \A m \in Names : m # n => lease'[m] = lease[m]
  BY <1>1, <1>2, Zenon DEF IInv, Types
<1>7. Version(n)' = Version(n) + 1 /\ RenewedAt(n)' = MicroTime(Stamp(w))
      /\ \A m \in Names : m # n => Version(m)' = Version(m) /\ RenewedAt(m)' = RenewedAt(m)
  <2>1. recordFromLease(o).version = put[w].expected + 1
        /\ recordFromLease(o).renewedAt = MicroTime(put[w].rec.renewedAt)
    BY <1>1, <1>4, <1>5, ReadBack, Zenon
  <2>2. Version(n)' = recordFromLease(o).version /\ RenewedAt(n)' = recordFromLease(o).renewedAt
    BY <1>6, Zenon DEF Version, RenewedAt
  <2> QED BY <1>1, <1>6, <2>1, <2>2, Zenon DEF Version, RenewedAt, Stamp
<1>8. ASSUME NEW v \in Writer PROVE Attempts(v)' /\ Passed(v)'
  <2>1. CASE v = w
    BY <1>3, <2>1, Zenon DEF Attempts, Passed
  <2>2. CASE v # w
    <3>1. put'[v] = put[v] /\ Passed(v)'
      BY <1>3, <2>2, Zenon DEF AInv, Passed
    <3>2. CASE put[v].pc # "idle"
      <4>1. put[v].name \in Names /\ put[v].expected \in Nat
        BY <1>2, <3>2, Carries, Zenon
      <4>2. CASE put[v].name # n
        BY <1>2, <1>6, <1>7, <3>1, <4>1, <4>2, Zenon DEF AInv, Attempts
      <4>3. CASE put[v].name = n
        <5>1. Version(n) \in Nat /\ put[v].expected <= Version(n)
          BY <1>2, <3>2, <4>1, <4>3, ShowsTyped, Zenon DEF AInv, Attempts
        <5>2. put[v].expected <= Version(n)' /\ put[v].expected < Version(n)'
          BY <1>7, <4>1, <5>1
        <5> QED BY <3>1, <4>3, <5>2, Zenon DEF Attempts
      <4> QED BY <3>1, <4>2, <4>3, Zenon
    <3> QED BY <3>1, <3>2, Zenon DEF Attempts
  <2> QED BY <2>1, <2>2, Zenon
<1>9. Stamps'
  <2>1. Stamp(w) <= puts * Micro + 1 /\ puts * Micro + 1 \in Int
    BY <1>2, K8sAssumption DEF AInv, Stamps, IInv, Types
  <2>2. MicroTime(Stamp(w)) <= puts * Micro + 1
    BY <1>4, <2>1
  <2>3. \A m \in Names : RenewedAt(m)' <= puts' * Micro + 1
    BY <1>2, <1>7, <2>2, Zenon DEF AInv, Stamps
  <2>4. ASSUME NEW v \in Writer, put'[v].pc # "idle"
        PROVE  v # w /\ put[v].pc # "idle" /\ Stamp(v)' = Stamp(v)
    BY <1>3, <2>4, Zenon DEF Stamp
  <2>5. ASSUME NEW v \in Writer, put'[v].pc # "idle", NEW m \in Names
        PROVE  RenewedAt(m)' # MicroTime(Stamp(v))
    <3>1. MicroTime(Stamp(w)) # MicroTime(Stamp(v)) /\ RenewedAt(m) # MicroTime(Stamp(v))
      BY <1>2, <2>4, <2>5, Zenon DEF AInv, Stamps
    <3> QED BY <1>7, <3>1, Zenon
  <2> QED BY <1>2, <2>3, <2>4, <2>5, Zenon DEF AInv, Stamps
<1> QED BY <1>2, <1>8, <1>9, Zenon DEF AInv

\* A step that writes nothing, a retry after a 409 among them.
LEMMA ReadAnswers ==
  ASSUME AInv, IInv', NEW w \in Writer, Step(w), lease' = lease
  PROVE  AInv'
<1>1. puts' = puts /\ touches' = touches /\ touches \in Nat /\ IInv /\ put[w].pc # "idle"
  BY Zenon DEF AInv, Step, Create, GetForPut, Update, Fail
<1> DEFINE n == put[w].name
<1>2. n \in Names /\ put[w] \in Busy /\ put[w].attempt \in Nat
  BY <1>1, Carries, Zenon
<1>3. \A m \in Names : RenewedAt(m)' = RenewedAt(m) /\ Version(m)' = Version(m)
  BY Zenon DEF RenewedAt, Version
<1>4. ASSUME NEW s, put' = [put EXCEPT ![w] = s],
             s.pc = "idle" \/ (s.rec = put[w].rec /\ Attempts(w)')
      PROVE  AInv'
  <2>1. put'[w] = s /\ \A v \in Writer : v # w => put'[v] = put[v]
    BY <1>1, <1>4, Zenon DEF IInv, Types
  <2>2. Stamps' /\ \A v \in Writer : Passed(v)'
    BY <1>1, <1>3, <1>4, <2>1, RecordsKept, Zenon
  <2>3. ASSUME NEW v \in Writer PROVE Attempts(v)'
    BY <1>1, <1>4, <2>1, AttemptsKept, Zenon DEF Attempts
  <2> QED BY <1>1, <2>2, <2>3, Zenon DEF AInv
<1>5. CASE \E res \in {"nil", "conflict", "error"} : Finish(w, res)
  <2>1. \A res : Resting(res).pc = "idle"
    BY DEF Resting
  <2> QED BY <1>4, <1>5, <2>1, Zenon DEF Finish
<1>6. CASE GetForPut(w) /\ put' = [put EXCEPT ![w].pc = "update", ![w].rv = lease[n].rv]
  <2> DEFINE s == [put[w] EXCEPT !.pc = "update", !.rv = lease[n].rv]
  <2>1. put' = [put EXCEPT ![w] = s] /\ put'[w] = s
    BY <1>1, <1>6, Zenon DEF IInv, Types
  <2>2. s.pc = "update" /\ s.name = n /\ s.expected = put[w].expected /\ s.attempt = put[w].attempt
        /\ s.rv = lease[n].rv /\ s.rec = put[w].rec
    BY <1>2, Zenon DEF Busy
  <2> HIDE DEF s
  <2>3. Attempts(w)'
    BY <1>1, <1>2, <1>3, <2>1, <2>2, Zenon DEF AInv, Attempts
  <2> QED BY <1>4, <2>1, <2>2, <2>3, Zenon
<1>7. CASE Update(w) /\ lease[n].rv # put[w].rv
           /\ put' = [put EXCEPT ![w].pc = "get", ![w].attempt = @ + 1]
  <2> DEFINE s == [put[w] EXCEPT !.pc = "get", !.attempt = @ + 1]
  <2>1. put' = [put EXCEPT ![w] = s] /\ put'[w] = s
    BY <1>1, <1>7, Zenon DEF IInv, Types
  <2>2. s.pc = "get" /\ s.name = n /\ s.expected = put[w].expected /\ s.attempt = put[w].attempt + 1
        /\ s.rec = put[w].rec
    BY <1>2, Zenon DEF Busy
  <2> HIDE DEF s
  <2>3. put[w].expected <= Version(n) /\ (put[w].expected < Version(n) \/ put[w].attempt <= touches)
    BY <1>1, <1>7, Zenon DEF AInv, Attempts, Update
  <2>4. put[w].attempt <= touches => put[w].attempt + 1 <= touches + 1
    BY <1>1, <1>2
  <2>5. Attempts(w)'
    BY <1>1, <1>2, <1>3, <2>1, <2>2, <2>3, <2>4 DEF Attempts
  <2> QED BY <1>4, <2>1, <2>2, <2>5, Zenon
<1> QED BY <1>5, <1>6, <1>7, Zenon DEF Step, Create, GetForPut, Update, Current, Retry, Fail

\* A foreign write changes nothing that Get shows, and pays for the attempt it
\* spoils.
LEMMA TouchAnswers ==
  ASSUME AInv, IInv', NEW n \in Names, Touch(n)
  PROVE  AInv'
<1>1. touches' = touches + 1 /\ touches' \in Nat /\ touches \in Nat /\ put' = put /\ puts' = puts /\ IInv
  BY DEF AInv, Touch
<1>2. lease[n] \in Object /\ lease'[n] = [lease[n] EXCEPT !.rv = @ + 1]
      /\ \A m \in Names : m # n => lease'[m] = lease[m]
  BY <1>1, Zenon DEF Touch, IInv, Types
<1>3. lease'[n] # NoLease /\ lease[n] # NoLease
  BY <1>2 DEF Touch, Object, NoLease
<1>4. recordFromLease(lease'[n]) = recordFromLease(lease[n])
  BY <1>2, <1>3, Zenon DEF recordFromLease, versionFromLease, Object
<1>5. \A m \in Names : RenewedAt(m)' = RenewedAt(m) /\ Version(m)' = Version(m)
  BY <1>2, <1>4, Zenon DEF RenewedAt, Version
<1>6. Stamps' /\ \A w \in Writer : Passed(w)'
  BY <1>1, <1>5, RecordsKept, Zenon
<1>7. ASSUME NEW w \in Writer PROVE Attempts(w)'
  <2>1. CASE put[w].pc # "idle"
    <3>1. put[w].name \in Names /\ put[w].attempt \in Nat /\ Attempts(w)
      BY <1>1, <2>1, Carries, Zenon DEF AInv
    <3>2. put[w].attempt <= touches + 1 => put[w].attempt <= touches' + 1 /\ put[w].attempt <= touches'
      BY <1>1, <3>1
    <3> QED BY <1>1, <1>5, <2>1, <3>1, <3>2, Zenon DEF Attempts
  <2> QED BY <1>1, <2>1, Zenon DEF Attempts
<1> QED BY <1>1, <1>6, <1>7, Zenon DEF AInv

\* The initial state satisfies the longer invariant.
LEMMA InitAnswers == Init => AInv
<1> SUFFICES ASSUME Init PROVE AInv
  OBVIOUS
<1>1. IInv /\ puts = 0 /\ touches = 0 /\ \A w \in Writer : put[w].pc = "idle"
  BY InitInv DEF Init, Resting
<1>2. \A n \in Names : RenewedAt(n) = 0
  BY DEF Init, RenewedAt, recordFromLease, NoRecord, LegacyLease
<1>3. 0 <= puts * Micro + 1 /\ touches \in Nat
  BY <1>1, K8sAssumption
<1> QED BY <1>1, <1>2, <1>3, Zenon DEF AInv, Stamps, Attempts, Passed

\* Every step keeps the longer invariant.
LEMMA NextAnswers == AInv /\ [Next]_vars => AInv'
<1> SUFFICES ASSUME AInv, [Next]_vars PROVE AInv'
  OBVIOUS
<1>1. IInv'
  BY NextInv, Zenon DEF AInv
<1>2. ASSUME NEW w \in Writer, Step(w) PROVE AInv'
  <2>1. CASE lease' = lease
    BY <1>1, <1>2, <2>1, ReadAnswers, Zenon
  <2>2. CASE lease' # lease
    BY <1>1, <1>2, <2>2, WriteAnswers, Zenon DEF Step, GetForPut, Fail
  <2> QED BY <2>1, <2>2, Zenon
<1>3. CASE UNCHANGED vars
  <2>1. \A n \in Names : RenewedAt(n)' = RenewedAt(n) /\ Version(n)' = Version(n)
    BY <1>3, Zenon DEF vars, RenewedAt, Version
  <2>2. Stamps' /\ \A w \in Writer : Passed(w)'
    BY <1>3, <2>1, RecordsKept, Zenon DEF vars
  <2> QED BY <1>1, <1>3, <2>2, AttemptsKept, Zenon DEF vars, AInv
<1> QED BY <1>1, <1>2, <1>3, BeginAnswers, TouchAnswers, Zenon DEF Next, Quiet

\* The longer invariant holds in every reachable state.
LEMMA AnswersInvariance == Spec => []AInv
BY InitAnswers, NextAnswers, PTL DEF Spec

\* Only a step of a call changes it, and a call that ends answers.
LEMMA Ends ==
  ASSUME AInv, [Next]_vars, NEW w \in Writer, put[w].pc # "idle", put'[w].pc = "idle"
  PROVE  Step(w)
<1>1. put \in [Writer -> Idle \cup Busy]
  BY Zenon DEF AInv, IInv, Types
<1>2. ASSUME NEW v \in Writer, Step(v) \/ \E k \in ValidKey : BeginPut(v, k), v # w PROVE put'[w] = put[w]
  BY <1>1, <1>2, Zenon DEF Step, Create, GetForPut, Update, Retry, Fail, Finish, BeginPut
<1>3. \A k \in ValidKey : ~BeginPut(w, k)
  BY Zenon DEF BeginPut
<1> QED BY <1>2, <1>3, Zenon DEF Next, vars, Quiet, Touch

\* The comment of Put: while fewer foreign writes have happened than Put has
\* attempts, ErrConflict is the answer to a record that has moved on.
THEOREM RealConflicts == Spec => ConflictIsReal
<1> DEFINE Real(w) ==
      (put[w].pc # "idle" /\ put'[w] = Resting("conflict") /\ touches < MaxUpdates) =>
         recordFromLease(lease[put[w].name]).version # put[w].expected
<1>1. ASSUME AInv, [Next]_vars, NEW w \in Writer PROVE Real(w)
  <2> SUFFICES ASSUME put[w].pc # "idle", put'[w] = Resting("conflict"), touches < MaxUpdates
               PROVE  recordFromLease(lease[put[w].name]).version # put[w].expected
    BY Zenon
  <2> DEFINE n == put[w].name
  <2>1. put'[w].pc = "idle" /\ put'[w].res = "conflict"
    BY DEF Resting
  <2>2. Step(w) /\ IInv /\ Established(w) /\ Attempts(w)
    BY <1>1, <2>1, Ends, Zenon DEF AInv, IInv
  <2>3. n \in Names /\ put[w].expected \in Nat /\ put[w].attempt \in Nat
        /\ lease[n] \in {NoLease} \cup Object /\ Version(n) \in Nat
    BY <2>2, Carries, ShowsTyped, Zenon DEF IInv, Types
  <2>4. lease[n] = NoLease => Version(n) = 0
    BY Zenon DEF Version, recordFromLease, NoRecord
  <2>5. lease[n] # NoLease => Version(n) = versionFromLease(lease[n]) /\ Version(n) # 0
    BY <2>3, VersionPositive, Zenon DEF Version, recordFromLease
  <2>6. ASSUME NEW res, Finish(w, res) PROVE res = "conflict"
    <3>1. put'[w] = Resting(res)
      BY <2>2, <2>6, Zenon DEF Finish, IInv, Types
    <3> QED BY <2>1, <3>1 DEF Resting
  <2>7. ~(Finish(w, "nil") \/ Finish(w, "error"))
    BY <2>6
  <2>8. CASE Create(w)
    BY <2>2, <2>5, <2>7, <2>8, Zenon DEF Create, Established, Version
  <2>9. CASE GetForPut(w)
    <3>1. ~ put' = [put EXCEPT ![w].pc = "update", ![w].rv = lease[n].rv]
      BY <2>1, <2>2, <1>1 DEF IInv, Types, Idle, Busy
    <3>2. put[w].expected # 0 /\ ~(lease[n] # NoLease /\ versionFromLease(lease[n]) = put[w].expected)
      BY <2>2, <2>9, <3>1, Zenon DEF GetForPut, Established
    <3> QED BY <2>4, <2>5, <3>2, Zenon DEF Version
  <2>10. CASE Update(w)
    <3>1. ~ put' = [put EXCEPT ![w].pc = "get", ![w].attempt = @ + 1]
      BY <2>1, <2>2 DEF IInv, Types, Idle, Busy
    <3>2. lease[n].rv # put[w].rv /\ put[w].attempt = MaxUpdates /\ put[w].pc = "update"
      BY <2>7, <2>10, <3>1, Zenon DEF Update, Current, Retry
    <3>3. ~ put[w].attempt <= touches
      BY <1>1, <3>2, K8sAssumption DEF AInv
    <3>4. put[w].expected < Version(n)
      BY <2>2, <3>2, <3>3, Zenon DEF Attempts
    <3>5. Version(n) # put[w].expected
      BY <2>3, <3>4
    <3> QED BY <3>5, Zenon DEF Version
  <2> QED BY <2>2, <2>7, <2>8, <2>9, <2>10, Zenon DEF Step, Fail
<1>2. AInv /\ [Next]_vars => \A w \in Writer : Real(w)
  BY <1>1, Zenon
<1> QED BY <1>2, AnswersInvariance, PTL DEF Spec, ConflictIsReal

\* What this call wrote reads back as ReadsBackAs says: the conversions to
\* seconds and microseconds lose less than a microsecond of time and nothing
\* else.
LEMMA Conversions ==
  ASSUME NEW l \in {NoLease} \cup Object, NEW r \in Contract!Record, NEW v \in Nat \ {0},
         r.ttl = IF r.holder = NoHolder THEN 0 ELSE Second
  PROVE  ReadsBackAs(recordFromLease(applyRecordToLease(l, r, v)), r, v)
<1> DEFINE b == recordFromLease(applyRecordToLease(l, r, v))
<1>1. /\ b.version = v /\ b.renewedAt = MicroTime(r.renewedAt)
      /\ b.acquiredAt = MicroTime(r.acquiredAt) /\ b.holder = r.holder /\ b.token = r.token
      /\ b.ttl = IF leaseDuration(r) = Unset THEN 0 ELSE leaseDuration(r) * Second
  BY ReadBack, Zenon
<1>2. b \in Contract!Record
  BY Applied, ReadTyped, Zenon
<1> HIDE DEF b
<1>3. MicroTime(r.renewedAt) \in r.renewedAt - Micro + 1 .. r.renewedAt
      /\ MicroTime(r.acquiredAt) \in r.acquiredAt - Micro + 1 .. r.acquiredAt
  BY Truncation, Zenon DEF Contract!Record
<1>4. b.ttl = r.ttl
  <2>1. Second \div Second = 1 /\ 1 * Second = Second /\ Second # 0 /\ 1 # Unset
    BY K8sAssumption
  <2>2. CASE r.holder = NoHolder
    BY <1>1, <2>2, Zenon DEF leaseDuration
  <2>3. CASE r.holder # NoHolder
    BY <1>1, <2>1, <2>3, Zenon DEF leaseDuration
  <2> QED BY <2>2, <2>3, Zenon
<1>5. b = [r EXCEPT !.version = v, !.renewedAt = b.renewedAt, !.acquiredAt = b.acquiredAt]
  BY <1>1, <1>2, <1>4, Zenon DEF Contract!Record
<1>6. ReadsBackAs(b, r, v)
  BY <1>1, <1>3, <1>5, Zenon DEF ReadsBackAs
<1> QED BY <1>6, Zenon DEF b

\* Put's answers about the record: nil is the answer of the call whose record
\* Get now shows, ErrConflict that of a call whose record it does not.
THEOREM ExactAnswers == Spec => PutAnswersExactly
<1> DEFINE r(w) == recordFromLease(lease'[put[w].name])
           Exact(w) ==
             (put[w].pc # "idle" /\ put'[w].pc = "idle") =>
                /\ put'[w].res = "nil" => ReadsBackAs(r(w), put[w].rec, put[w].expected + 1)
                /\ put'[w].res = "conflict" => r(w).renewedAt # MicroTime(put[w].rec.renewedAt)
<1>1. ASSUME AInv, [Next]_vars, NEW w \in Writer PROVE Exact(w)
  <2> SUFFICES ASSUME put[w].pc # "idle", put'[w].pc = "idle"
               PROVE  /\ put'[w].res = "nil" => ReadsBackAs(r(w), put[w].rec, put[w].expected + 1)
                      /\ put'[w].res = "conflict" => r(w).renewedAt # MicroTime(put[w].rec.renewedAt)
    BY Zenon
  <2>1. Step(w) /\ IInv
    BY <1>1, Ends, Zenon DEF AInv
  <2>2. put[w].name \in Names /\ put[w].expected \in Nat /\ put[w].rec \in Contract!Record
        /\ put[w].expected + 1 \in Nat \ {0} /\ lease[put[w].name] \in {NoLease} \cup Object
    BY <2>1, Carries DEF IInv, Types
  <2>3. ASSUME NEW res, Finish(w, res) PROVE put'[w] = Resting(res) /\ put'[w].res = res
    BY <2>1, <2>3, Zenon DEF Finish, Resting, IInv, Types
  <2>4. PICK res \in {"nil", "conflict", "error"} : Finish(w, res)
    <3>1. ~ put' = [put EXCEPT ![w].pc = "get", ![w].attempt = @ + 1]
      BY <2>1 DEF IInv, Types, Idle, Busy
    <3>2. ~ put' = [put EXCEPT ![w].pc = "update", ![w].rv = lease[put[w].name].rv]
      BY <2>1 DEF IInv, Types, Idle, Busy
    <3> QED BY <2>1, <3>1, <3>2, Zenon DEF Step, Create, GetForPut, Update, Retry, Fail
  <2>5. ASSUME put'[w].res = "nil" PROVE ReadsBackAs(r(w), put[w].rec, put[w].expected + 1)
    <3>1. put'[w] = Resting("nil") /\ ~Finish(w, "conflict") /\ ~Finish(w, "error")
      BY <2>3, <2>4, <2>5
    <3>2. ~GetForPut(w) /\ ~Fail(w)
      <4>1. ~ put' = [put EXCEPT ![w].pc = "update", ![w].rv = lease[put[w].name].rv]
        BY <2>1 DEF IInv, Types, Idle, Busy
      <4> QED BY <3>1, <4>1, Zenon DEF GetForPut, Fail
    <3>3. PICK n \in Names, o \in Object :
            /\ lease' = [lease EXCEPT ![n] = o] /\ n = put[w].name
            /\ o = applyRecordToLease(lease[n], put[w].rec, put[w].expected + 1)
      BY <2>1, <3>1, <3>2, PutWrites, Zenon DEF Step
    <3>4. r(w) = recordFromLease(applyRecordToLease(lease[put[w].name], put[w].rec, put[w].expected + 1))
      BY <2>1, <3>3, Zenon DEF IInv, Types
    <3> QED BY <1>1, <2>2, <3>4, Conversions, Zenon DEF AInv, Passed
  <2>6. ASSUME put'[w].res = "conflict" PROVE r(w).renewedAt # MicroTime(put[w].rec.renewedAt)
    <3>1. put'[w].res # "nil" /\ put'[w].res # "error"
      BY <2>6
    <3>2. lease' = lease
      BY <2>1, <2>3, <3>1, Zenon DEF Step, Create, GetForPut, Update, Fail
    <3> QED BY <1>1, <2>2, <3>2, Zenon DEF AInv, Stamps, RenewedAt, Stamp
  <2> QED BY <2>5, <2>6, Zenon
<1>2. AInv /\ [Next]_vars => \A w \in Writer : Exact(w)
  BY <1>1, Zenon
<1> QED BY <1>2, AnswersInvariance, PTL DEF Spec, PutAnswersExactly
=============================================================================
