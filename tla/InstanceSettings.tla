-------------------------- MODULE InstanceSettings --------------------------
(***************************************************************************)
(* How the specification of a PostgresqlInstance becomes the settings of a *)
(* CSQLP instance: buildDatabaseInstance and the APIValue conversions, the *)
(* comparison that updateDatabaseInstanceSettings makes, and the request   *)
(* that is sent, from which the JSON encoder omits zero values unless      *)
(* setForceSendFields names them.  What the Cloud SQL Admin API makes of a *)
(* request is external.                                                    *)
(***************************************************************************)
EXTENDS PostgresqlInstanceAdmission

DayValue(d) ==
  CASE d = "Monday" -> 1 [] d = "Tuesday" -> 2 [] d = "Wednesday" -> 3
    [] d = "Thursday" -> 4 [] d = "Friday" -> 5 [] d = "Saturday" -> 6
    [] OTHER -> 7

\* Three hours stand for all; what is no hour becomes 0.
HourValue(h) ==
  CASE h = "04:00" -> 4 [] h = "23:00" -> 23 [] OTHER -> 0

AvailabilityValue(a) == IF a = "Regional" THEN "REGIONAL" ELSE "ZONAL"

DiskTypeValue(d) == IF d = "HDD" THEN "PD_HDD" ELSE "PD_SSD"

ZoneValue(z) == IF z = "Any" THEN "" ELSE z

\* No flags are a nil list; no networks are a list that is empty (so that, to
\* reflect.DeepEqual, they differ from a nil one).  The order in lists is left
\* out: Cloud SQL is assumed to keep it.
FlagsValue(f) == IF f = {} THEN None ELSE f

Settings ==
  [region : Regions, availability : {"REGIONAL", "ZONAL"},
   backupEnabled : BOOLEAN, backupStartTime : Hours,
   flags : Optional(SUBSET Flags), diskSize : Int, diskType : {"PD_HDD", "PD_SSD"},
   authorized : SUBSET Cidrs, ipv4 : BOOLEAN, privateNetwork : Networks \cup {""},
   zone : Zones, day : 0..7, hour : 0..23,
   autoResize : BOOLEAN, resizeLimit : Int, tier : Tiers,
   labels : SUBSET (Labels \cup {Owner})]

\* The disk grows automatically, up to a limit that is not what it starts with
\* (zero: as far as Cloud SQL goes).
AutoResizes(s) == s.resources.max # s.resources.min

\* buildDatabaseInstance
Build(s) ==
  LET any == s.maintenance.day = "Any"
  IN [region          |-> s.location.region,
      availability    |-> AvailabilityValue(s.availability),
      backupEnabled   |-> s.backups.enabled,
      backupStartTime |-> s.backups.startTime,
      flags           |-> FlagsValue(s.flags),
      diskSize        |-> s.resources.min,
      diskType        |-> DiskTypeValue(s.resources.disk),
      authorized      |-> s.networking.authorized,
      ipv4            |-> s.networking.public,
      privateNetwork  |-> IF s.networking.private THEN s.networking.network ELSE "",
      zone            |-> ZoneValue(s.location.zone),
      day             |-> IF any THEN 0 ELSE DayValue(s.maintenance.day),
      hour            |-> IF any THEN 0 ELSE HourValue(s.maintenance.hour),
      autoResize      |-> AutoResizes(s),
      resizeLimit     |-> IF AutoResizes(s) THEN s.resources.max ELSE 0,
      tier            |-> s.resources.tier,
      labels          |-> s.labels]

\* updateDatabaseInstanceSettings: each field of the instance, as it was read,
\* that differs from the desired one is replaced.  The region and the type of
\* the disk are not looked at, nor is the zone when any will do.
Adjust(s, i) ==
  [Build(s) EXCEPT !.region = i.region, !.diskType = i.diskType,
                   !.zone = IF s.location.zone = "Any" THEN i.zone ELSE @]

MustUpdate(s, i) == Adjust(s, i) # i
-----------------------------------------------------------------------------
(* Requests to the Cloud SQL Admin API.                                    *)

\* Mutant of Forced: the switch of the public address is not sent when off.
ForcedButIpv4 == {"backupEnabled", "privateNetwork", "hour", "resizeLimit"}

\* setForceSendFields
Forced == {"backupEnabled", "ipv4", "privateNetwork", "hour", "resizeLimit"}

Zero(f) == CASE f \in {"backupEnabled", "ipv4"} -> FALSE
             [] f \in {"privateNetwork", "zone"} -> ""
             [] f \in {"day", "hour", "resizeLimit"} -> 0
             [] f = "flags" -> None
             [] f = "authorized" -> {}

MayBeZero == {"backupEnabled", "ipv4", "privateNetwork", "zone", "day", "hour",
              "resizeLimit", "flags", "authorized"}

Omitted(i) == {f \in MayBeZero \ Forced : i[f] = Zero(f)}

\* What the instance may have where a field is omitted from the request, as it
\* is read later: no day, no list of flags (nil), a list of networks that is
\* empty (not nil), a zone that is up to Cloud SQL; anything else stays as it
\* is or is set to a default.
FilledIn(f, held) ==
  CASE f = "zone" -> Zones
    [] f \in {"day", "flags", "authorized"} -> {Zero(f)}
    [] f = "ipv4" -> {TRUE} \cup held
    [] OTHER -> {Zero(f)} \cup held

Choices(f, i, held) == IF f \in Omitted(i) THEN FilledIn(f, held[f]) ELSE {i[f]}

\* The settings the instance may have once the request i is accepted;
\* held[f]: what it has now, as a set, empty when it is being created.
Outcome(i, held) ==
  {[i EXCEPT !.backupEnabled = c.backupEnabled, !.ipv4 = c.ipv4,
             !.privateNetwork = c.privateNetwork, !.zone = c.zone,
             !.hour = c.hour, !.resizeLimit = c.resizeLimit] :
     c \in [backupEnabled : Choices("backupEnabled", i, held),
           ipv4 : Choices("ipv4", i, held),
           privateNetwork : Choices("privateNetwork", i, held),
           zone : Choices("zone", i, held),
           hour : Choices("hour", i, held),
           resizeLimit : Choices("resizeLimit", i, held)]}

AfterInsert(i) == Outcome(i, [f \in MayBeZero |-> {}])
AfterUpdate(i, now) == Outcome(i, [f \in MayBeZero |-> {now[f]}])

\* Cloud SQL takes no disk back, nor a private address.
Refused(i, now) ==
  \/ i.diskSize < now.diskSize
  \/ now.privateNetwork # "" /\ i.privateNetwork = ""
=============================================================================
