-------------------------------- MODULE Skills --------------------------------
(***************************************************************************)
(* skills/registry.js with its cache of downloads, skills/resolver.js, and *)
(* the tools of agents/runtime.js that use it: skills are downloaded from  *)
(* a catalog or created in a conversation, activated for agents, and then  *)
(* part of their prompts.  Downloads are awaited; what was created is also *)
(* kept on disk and restored at the start.  Whether a download or a write  *)
(* succeeds is chosen; of a skill only where it comes from and the version *)
(* of what was created are kept.                                           *)
(*                                                                         *)
(* An operator named Bug... is a plausible wrong version of the definition *)
(* that follows it and is used nowhere in the specification.               *)
(***************************************************************************)
EXTENDS Naturals, FiniteSets

CONSTANTS SkIds,        \* identifiers of skills
          Catalog,      \* those of the catalog
          SkAgents,     \* agents
          PreInstall,   \* config.skills.preInstall
          AgentSkills,  \* agent |-> config.skills.agentSkills
          MaxVersions,  \* bound on the creations of a behaviour
          MaxStarts     \* bound on the starts of the process

ASSUME SkillsAssumption ==
  /\ Catalog \subseteq SkIds /\ PreInstall \subseteq Catalog
  /\ AgentSkills \in [SkAgents -> SUBSET SkIds]

VARIABLES installed,   \* skill |-> 0 from the catalog, or the version created
          activeSkills,\* agent |-> skills
          downloads,   \* _pendingInstalls: skills that are being downloaded
          skCache,     \* skills in the resolver's cache
          disk,        \* skill |-> version in data/skills-local
          versions,    \* number of creations
          starts,      \* number of starts (bounds the runs)
          created,     \* skill |-> version created and not deleted since (history)
          overtaken,   \* skills created while their download ran (history)
          unsaved,     \* skills whose file was not written or not removed (history)
          agreed       \* agent |-> skills somebody wanted for it (history)

skVars == <<installed, activeSkills, downloads, skCache, disk, versions, starts,
            created, overtaken, unsaved, agreed>>
diskVars == <<disk, versions, created, overtaken, unsaved>>

Put(f, id, v) == [i \in DOMAIN f \cup {id} |-> IF i = id THEN v ELSE f[i]]
Dropped(f, S) == [i \in DOMAIN f \ S |-> f[i]]

\* init: the catalog's skills are installed, those of the disk over them, and
\* the configured ones are activated.
Started(fromCatalog, fromDisk) ==
  [i \in fromCatalog \cup DOMAIN fromDisk |->
     IF i \in DOMAIN fromDisk THEN fromDisk[i] ELSE 0]

SkillsInit ==
  /\ installed = [i \in PreInstall |-> 0]
  /\ activeSkills = AgentSkills /\ agreed = AgentSkills
  /\ downloads = {} /\ skCache = PreInstall
  /\ disk = [i \in {} |-> 0]
  /\ versions = 0 /\ starts = 1
  /\ created = [i \in {} |-> 0]
  /\ overtaken = {} /\ unsaved = {}

\* install: what is installed or being downloaded is not downloaded again; a
\* skill of the cache is installed at once.
Install(id) ==
  /\ id \in Catalog /\ id \notin DOMAIN installed /\ id \notin downloads
  /\ IF id \in skCache
     THEN installed' = Put(installed, id, 0) /\ UNCHANGED downloads
     ELSE downloads' = downloads \cup {id} /\ UNCHANGED installed
  /\ UNCHANGED <<activeSkills, skCache, starts, agreed, diskVars>>

\* The skill is installed whatever happened to its name meanwhile.
Downloaded(id) ==
  /\ id \in downloads
  /\ downloads' = downloads \ {id}
  /\ skCache' = skCache \cup {id}
  /\ installed' = Put(installed, id, 0)
  /\ UNCHANGED <<activeSkills, starts, agreed, diskVars>>

DownloadFails(id) ==
  /\ id \in downloads
  /\ downloads' = downloads \ {id}
  /\ UNCHANGED <<installed, activeSkills, skCache, starts, agreed, diskVars>>

CacheExpires(id) ==
  /\ id \in skCache
  /\ skCache' = skCache \ {id}
  /\ UNCHANGED <<installed, activeSkills, downloads, starts, agreed, diskVars>>

\* create_skill: registerLocal takes any name, writes the file, and the skill is
\* active for the agent at once.
Create(id, a) ==
  /\ versions < MaxVersions
  /\ versions' = versions + 1
  /\ installed' = Put(installed, id, versions + 1)
  /\ \/ disk' = Put(disk, id, versions + 1) /\ unsaved' = unsaved \ {id}
     \/ unsaved' = unsaved \cup {id} /\ UNCHANGED disk
  /\ activeSkills' = [activeSkills EXCEPT ![a] = @ \cup {id}]
  /\ created' = Put(created, id, versions + 1)
  /\ overtaken' = IF id \in downloads THEN overtaken \cup {id} ELSE overtaken \ {id}
  /\ agreed' = [agreed EXCEPT ![a] = @ \cup {id}]
  /\ UNCHANGED <<downloads, skCache, starts>>

\* activate_skill
Activate(id, a) ==
  /\ id \in DOMAIN installed /\ id \notin activeSkills[a]
  /\ activeSkills' = [activeSkills EXCEPT ![a] = @ \cup {id}]
  /\ agreed' = [agreed EXCEPT ![a] = @ \cup {id}]
  /\ UNCHANGED <<installed, downloads, skCache, starts, diskVars>>

\* delete_skill and uninstall: only what was created can be deleted; it leaves
\* every agent, the cache and, if that succeeds, the disk.
Delete(id) ==
  /\ id \in DOMAIN installed /\ installed[id] # 0
  /\ installed' = Dropped(installed, {id})
  /\ activeSkills' = [a \in SkAgents |-> activeSkills[a] \ {id}]
  /\ agreed' = [a \in SkAgents |-> agreed[a] \ {id}]
  /\ skCache' = skCache \ {id}
  /\ \/ disk' = Dropped(disk, {id}) /\ unsaved' = unsaved \ {id}
     \/ unsaved' = unsaved \cup {id} /\ UNCHANGED disk
  /\ created' = Dropped(created, {id})
  /\ UNCHANGED <<downloads, versions, starts, overtaken>>

BugRestartSkills ==
  /\ starts < MaxStarts
  /\ starts' = starts + 1
  /\ \E ok \in SUBSET PreInstall :
       /\ skCache' = skCache \cup ok
       /\ installed' = [i \in ok \cup DOMAIN disk |-> IF i \in ok THEN 0 ELSE disk[i]]
  /\ activeSkills' = AgentSkills /\ agreed' = AgentSkills
  /\ downloads' = {} /\ overtaken' = {} /\ unsaved' = {}
  /\ created' = Dropped(created, unsaved)
  /\ UNCHANGED <<disk, versions>>

\* The process starts again.  Of the configured skills those that can be
\* downloaded are installed.
RestartSkills ==
  /\ starts < MaxStarts
  /\ starts' = starts + 1
  /\ \E ok \in SUBSET PreInstall :
       /\ PreInstall \cap skCache \subseteq ok
       /\ skCache' = skCache \cup ok
       /\ installed' = Started(ok, disk)
  /\ activeSkills' = AgentSkills /\ agreed' = AgentSkills
  /\ downloads' = {} /\ overtaken' = {} /\ unsaved' = {}
  /\ created' = Dropped(created, unsaved)
  /\ UNCHANGED <<disk, versions>>

SkillsNext ==
  \/ \E id \in SkIds : \/ Install(id) \/ Downloaded(id) \/ DownloadFails(id)
                       \/ CacheExpires(id) \/ Delete(id)
                       \/ \E a \in SkAgents : Create(id, a) \/ Activate(id, a)
  \/ RestartSkills

-----------------------------------------------------------------------------
\* getSkillPrompts: an active skill that is not installed is passed over.
Prompts(a) == activeSkills[a] \cap DOMAIN installed

SkillsTypeOK ==
  /\ DOMAIN installed \subseteq SkIds
  /\ \A i \in DOMAIN installed : installed[i] \in 0 .. versions
  /\ activeSkills \in [SkAgents -> SUBSET SkIds]
  /\ downloads \subseteq Catalog /\ skCache \subseteq Catalog
  /\ DOMAIN disk \subseteq SkIds /\ DOMAIN created \subseteq SkIds
  /\ overtaken \subseteq SkIds /\ unsaved \subseteq SkIds

\* What somebody created is what the agents get, until it is deleted, also after
\* a restart in which the catalog has a skill of its name: only a download of
\* that name which already ran may overwrite it, and a file that could not be
\* written is not restored.  A deleted skill is in nobody's prompt until
\* somebody wants it again, whatever a late download brings back.
SkillsAsAgreed ==
  /\ \A i \in DOMAIN created \ overtaken :
       i \in DOMAIN installed /\ installed[i] = created[i]
  /\ \A a \in SkAgents : Prompts(a) \subseteq agreed[a]
=============================================================================
