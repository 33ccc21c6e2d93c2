----------------------------- MODULE Versioning -----------------------------
(***************************************************************************)
(* Versioning of modules/runtime-learning-engine/versioning.ts: the        *)
(* version and its changelog in memory and in version-metadata.json, which *)
(* is replaced by a rename and put aside when it cannot be read.           *)
(***************************************************************************)
EXTENDS Integers, Sequences

CONSTANTS MaxUpgrades,  \* bound: entries of the changelog
          MaxDamage     \* bound: processes after the first, saves and reads that fail,
                        \* files damaged

ASSUME VersioningAssumption == MaxUpgrades \in Nat /\ MaxDamage \in Nat

VARIABLES metadata,      \* in memory
          metadataFile,  \* "absent", "corrupt" or what is in it
          temporary,     \* whether a temporary file was left behind
          quarantined,   \* files put aside
          damage,        \* count of the bounded events
          forgotten      \* history: a file could be neither read nor put aside

versioningVars == <<metadata, metadataFile, temporary, quarantined, damage, forgotten>>

V(major, minor, patch) == [major |-> major, minor |-> minor, patch |-> patch]
DefaultMetadata == [current |-> V(1, 0, 0), schema |-> 1, changelog |-> <<>>]
NoMetadata == [state |-> "absent", was |-> DefaultMetadata]
Sound(m) == [state |-> "sound", was |-> m]

VersioningInit ==
  /\ metadata = DefaultMetadata /\ metadataFile = Sound(DefaultMetadata)
  /\ temporary = FALSE /\ quarantined = {} /\ damage = 0 /\ forgotten = FALSE

Damaging(events) == damage + events <= MaxDamage /\ damage' = damage + events

(* saveMetadata: the temporary is written and renamed; until the rename    *)
(* the file is the old one.                                                *)
SaveMetadata(m) ==
  \/ metadataFile' = Sound(m) /\ temporary' = FALSE /\ UNCHANGED damage
  \/ UNCHANGED metadataFile /\ temporary' = TRUE /\ Damaging(1)

(* Faulty form: a feature keeps the patch level of the version before.     *)
NextVersionKeepingPatch(v, type) ==
  CASE type = "breaking" -> V(v.major + 1, 0, 0)
    [] type = "feature" -> V(v.major, v.minor, v.patch)
    [] OTHER -> V(v.major, v.minor, v.patch + 1)

NextVersion(v, type) ==
  CASE type = "breaking" -> V(v.major + 1, 0, 0)
    [] type = "feature" -> V(v.major, v.minor + 1, 0)
    [] OTHER -> V(v.major, v.minor, v.patch + 1)

RecordUpgrade(type) ==
  LET next == NextVersion(metadata.current, type)
      m == [metadata EXCEPT !.current = next,
                            !.changelog = Append(@, [version |-> next, type |-> type])]
  IN /\ Len(metadata.changelog) < MaxUpgrades
     /\ metadata' = m /\ SaveMetadata(m)
     /\ UNCHANGED <<quarantined, forgotten>>

(* migrateSchema refuses to go back and is done when nothing changes.      *)
MigrateSchema(from, to) ==
  /\ to > from
  /\ LET m == [metadata EXCEPT !.schema = to] IN metadata' = m /\ SaveMetadata(m)
  /\ UNCHANGED <<quarantined, forgotten>>

DamageMetadata ==
  /\ Damaging(1) /\ metadataFile.state = "sound"
  /\ metadataFile' \in {[metadataFile EXCEPT !.state = "corrupt"], NoMetadata}
  /\ forgotten' = (forgotten \/ metadataFile' = NoMetadata)
  /\ UNCHANGED <<metadata, temporary, quarantined>>

(* loadMetadata in the next process: an absent file is written anew, one   *)
(* that is corrupt or cannot be read is put aside, or stays when that      *)
(* fails, and is not written until the next upgrade replaces it.           *)
LoadMetadata ==
  \/ /\ metadataFile.state = "sound" /\ metadata' = metadataFile.was
     /\ Damaging(1) /\ UNCHANGED <<metadataFile, temporary, quarantined, forgotten>>
  \/ /\ metadataFile.state = "absent" /\ metadata' = DefaultMetadata
     /\ metadataFile' = Sound(DefaultMetadata) /\ temporary' = FALSE
     /\ Damaging(1) /\ UNCHANGED <<quarantined, forgotten>>
  \/ /\ metadataFile.state # "absent" /\ metadata' = DefaultMetadata
     /\ Damaging(IF metadataFile.state = "corrupt" THEN 1 ELSE 2)
     /\ \/ /\ quarantined' = quarantined \cup {metadataFile.was}
           /\ metadataFile' = NoMetadata /\ UNCHANGED forgotten
        \/ UNCHANGED <<quarantined, metadataFile>> /\ forgotten' = TRUE
     /\ UNCHANGED temporary

VersioningNext ==
  \/ \E type \in {"breaking", "feature", "fix"} : RecordUpgrade(type)
  \/ \E from, to \in {1, 2} : MigrateSchema(from, to)
  \/ DamageMetadata \/ LoadMetadata

VersioningSpec == VersioningInit /\ [][VersioningNext]_versioningVars

-----------------------------------------------------------------------------
Later(v, w) == \/ v.major > w.major
               \/ v.major = w.major /\ v.minor > w.minor
               \/ v.major = w.major /\ v.minor = w.minor /\ v.patch > w.patch

(* isSafeUpgrade finds the way by the breaking entries between two majors. *)
Breaking(m, from, to) ==
  {i \in DOMAIN m.changelog : /\ m.changelog[i].type = "breaking"
                              /\ m.changelog[i].version.major > from.major
                              /\ m.changelog[i].version.major <= to.major}

Explained(m) ==
  /\ m.current = IF m.changelog = <<>> THEN V(1, 0, 0) ELSE m.changelog[Len(m.changelog)].version
  /\ \A i \in 2 .. Len(m.changelog) : Later(m.changelog[i].version, m.changelog[i - 1].version)
  /\ \A i \in DOMAIN m.changelog :
       LET v == m.changelog[i].version
       IN m.current.major > v.major => Breaking(m, v, m.current) # {}

(* Through crashes, failed saves and damaged files, every version in       *)
(* memory, in the file or put aside is the last of a changelog that only   *)
(* goes up, and from every version of it the breaking change that made the *)
(* next major is found.                                                    *)
VersionsAreExplained ==
  /\ Explained(metadata)
  /\ metadataFile.state = "sound" => Explained(metadataFile.was)
  /\ \A m \in quarantined : Explained(m)
=============================================================================
