----------------------------- MODULE MCSettings -----------------------------
(* Small instances of the specification and its settings for TLC. *)
EXTENDS SettingsReconciliation

CONSTANTS f1, l1, c1

\* Every field absent, or with valid and invalid values; the type of the disk
\* and the instance type vary with the default sizes only.
Variety ==
  [allowDeletion |-> {None, "", "true"},
   availability |-> {None, "Regional", "Elsewhere"},
   backups |-> {[enabled |-> e, startTime |-> t] :
                  e \in {None, TRUE, FALSE}, t \in {None, "04:00", "noon"}},
   flags |-> {None, {}, {f1}, {f1, "malformed"}},
   labels |-> {None, {l1}, {OtherOwner}},
   location |-> {[region |-> g, zone |-> z] : g \in {None, "us-east1"}, z \in {None, "Any", "b"}},
   maintenance |-> {[day |-> d, hour |-> h] :
                      d \in {None, "Any", "Monday", "Sunday", "Someday"},
                      h \in {None, "Any", "00:00", "noon"}},
   name |-> InstanceNames \cup {""},
   networking |-> {[private |-> p, network |-> n, public |-> u, authorized |-> a] :
                     p \in {None, TRUE, FALSE}, n \in {None, "", "vpc-0"},
                     u \in {None, TRUE, FALSE}, a \in {None, {c1}}},
   resources |-> {[max |-> x, min |-> m, disk |-> None, tier |-> None] :
                    x \in {None, 10, 20}, m \in {None, 0, 20}}
                 \cup {[max |-> None, min |-> None, disk |-> d, tier |-> t] :
                    d \in {None, "SSD", "HDD", "tape"}, t \in {None, "db-custom-2-7680"}},
   version |-> {None, "9.6", "11"}]
=============================================================================
