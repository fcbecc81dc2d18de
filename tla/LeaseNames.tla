------------------------------ MODULE LeaseNames ------------------------------
(***************************************************************************)
(* The Kubernetes store keeps the record of a lease, whose key is a pair   *)
(* of a namespace and a name, in an object with one name (k8sstore.go).    *)
(* ValidateKey (validate.go) decides which keys reach the store, and that  *)
(* decision is all that keeps two keys from sharing an object.             *)
(***************************************************************************)
EXTENDS Integers, Sequences

CONSTANTS
  Char,              \* characters
  Alnum, Dash, Dot,  \* among them: lowercase alphanumerics, '-' and '.'
  Key,               \* the keys requests name, valid or not
  MaxLabel,          \* DNS1123LabelMaxLength, 63
  MaxSubdomain       \* DNS1123SubdomainMaxLength, 253

ASSUME NamesAssumption ==
  /\ Alnum \cup {Dash, Dot} \subseteq Char
  /\ Dash \notin Alnum /\ Dot \notin Alnum /\ Dash # Dot
  /\ Key \subseteq [namespace : Seq(Char), name : Seq(Char)]
  /\ MaxLabel \in Nat /\ MaxSubdomain \in Nat

-----------------------------------------------------------------------------
\* validation.IsDNS1123Label
IsDNS1123Label(s) ==
  /\ Len(s) \in 1 .. MaxLabel
  /\ s[1] \in Alnum /\ s[Len(s)] \in Alnum
  /\ \A i \in 1 .. Len(s) : s[i] \in Alnum \cup {Dash}

\* validation.IsDNS1123Subdomain: labels of any length joined by dots.
IsDNS1123Subdomain(s) ==
  /\ Len(s) \in 1 .. MaxSubdomain
  /\ s[1] \in Alnum /\ s[Len(s)] \in Alnum
  /\ \A i \in 1 .. Len(s) : s[i] \in Alnum \cup {Dash, Dot}
  /\ \A i \in 2 .. Len(s) - 1 : s[i] = Dot => s[i - 1] \in Alnum /\ s[i + 1] \in Alnum

\* Mutant: the namespace may be a subdomain, too.
ValidateKeyDotted(k) ==
  /\ IsDNS1123Subdomain(k.namespace) /\ IsDNS1123Subdomain(k.name)
  /\ Len(k.namespace) + 1 + Len(k.name) <= MaxSubdomain

ValidateKey(k) ==
  /\ IsDNS1123Label(k.namespace) /\ IsDNS1123Subdomain(k.name)
  /\ Len(k.namespace) + 1 + Len(k.name) <= MaxSubdomain

\* The handlers pass on no other key.
ValidKey == {k \in Key : ValidateKey(k)}

k8sLeaseName(k) == k.namespace \o <<Dot>> \o k.name

\* The names of the objects Berth reads and writes.
Names == {k8sLeaseName(k) : k \in ValidKey}
=============================================================================
