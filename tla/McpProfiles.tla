---------------------------- MODULE McpProfiles ----------------------------
\* The MCP servers a Project may use.  The owner consents to an exact recipe
\* (a revision of a profile), the daemon runs it once to see what it offers,
\* and the owner grants some of its tools.  Settings are open in several
\* tabs, each showing the Project as it last read it.
EXTENDS Naturals, Sequences

CONSTANTS
    Tab, Tool,
    MaxRevisions, MaxVersion, MaxProbes     \* bounds

VARIABLES
    version,        \* of the Project; its other commands, not modelled, raise it too
    revision,       \* mcp_profile_revisions, each with its consent, in their order
    capability,     \* of each revision, its latest snapshot
    grant,          \* of each revision
    probe,          \* the probe under way: the revision it was asked of, or 0
    probes,         \* how many were started
    bundle,         \* the Context7 entrypoint this build brings
    tab,            \* what a tab shows
    proposal        \* the challenge a tab was given

vars == <<version, revision, capability, grant, probe, probes, bundle, tab, proposal>>

\* What the digest covers; every recipe declares the tools of Tool.
Recipe == [name : {"Context7", "own"}, launch : 1 .. 2]
\* A probe that failed offers what no probe does.
NoCapability == [tools |-> {}, ran |-> 0]
NoGrant == [status |-> "NONE", version |-> 0, tools |-> {}]
NoProposal == [status |-> "NONE"]

TypeOK ==
    /\ version \in 0 .. MaxVersion
    /\ revision \in Seq([profile : 1 .. MaxRevisions, recipe : Recipe]) /\ Len(revision) <= MaxRevisions
    /\ capability \in [DOMAIN revision -> [tools : SUBSET Tool, ran : 0 .. MaxRevisions]]
    /\ grant \in [DOMAIN revision -> [status : {"NONE", "ENABLED", "REVOKED"}, version : Nat,
                                      tools : SUBSET Tool]]
    /\ probe \in 0 .. Len(revision) /\ probes \in 0 .. MaxProbes /\ bundle \in 1 .. 2
    /\ tab \in [Tab -> [version : 0 .. MaxVersion, of : 0 .. MaxRevisions, granted : Nat, offered : SUBSET Tool]]
    /\ \A t \in Tab :
         \/ proposal[t] = NoProposal
         \/ proposal[t] \in [status : {"OPEN"}, version : 0 .. MaxVersion, profile : 0 .. MaxRevisions,
                             recipe : Recipe]

----
(* Reading *)

\* selectLatestMcpProfileRevisionsForProject
Latest(r) == \A s \in DOMAIN revision : revision[s].profile = revision[r].profile => s <= r
Shown == {r \in DOMAIN revision : Latest(r)}

Preset == [name |-> "Context7", launch |-> bundle]
\* The profile a new proposal of the preset revises.
Configured == {r \in Shown : revision[r].recipe.name = "Context7"}

\* The queries of a tab are read again; it looks at one of the profiles.
Load(t) ==
    /\ \E r \in (IF Shown = {} THEN {0} ELSE Shown) :
         tab' = [tab EXCEPT ![t] =
                   [version |-> version, of |-> r, granted |-> IF r = 0 THEN 0 ELSE grant[r].version,
                    offered |-> IF r = 0 THEN {} ELSE capability[r].tools]]
    /\ UNCHANGED <<version, revision, capability, grant, probe, probes, bundle, proposal>>

----
(* Consent *)

\* The proposal route.  Between its look at the version and the challenge it resolves the executable;
\* a version that passes meanwhile is found by the confirmation, as one that passes later is.  (A tab
\* that asks again drops the challenge it has first.)
Issue(t, profile, recipe) ==
    /\ tab[t].version = version /\ proposal[t] = NoProposal
    /\ proposal' = [proposal EXCEPT ![t] = [status |-> "OPEN", version |-> version, profile |-> profile,
                                            recipe |-> recipe]]
    /\ UNCHANGED <<version, revision, capability, grant, probe, probes, bundle, tab>>

\* The form, empty or filled from the profile the tab looks at.
Propose(t) ==
    \/ Issue(t, 0, [name |-> "own", launch |-> 1])
    \/ /\ tab[t].of # 0
       /\ Issue(t, revision[tab[t].of].profile, [revision[tab[t].of].recipe EXCEPT !.launch = 2])

\* The Context7 button.
ProposePreset(t) ==
    \/ Configured = {} /\ Issue(t, 0, Preset)
    \/ \E r \in Configured : revision[r].recipe # Preset /\ Issue(t, revision[r].profile, Preset)

\* requireProject
Expected(v) == v = version
Bumped == version < MaxVersion /\ version' = version + 1

\* The profile's latest revision is this very recipe.
Unchanged(p) == \E r \in Shown : revision[r].profile = p.profile /\ revision[r].recipe = p.recipe

\* Mutant: whatever was confirmed since the proposal.
Refused_AnyVersion(p) == Unchanged(p)
Refused(p) == ~Expected(p.version) \/ Unchanged(p)

\* Mutant: a consent is filed without it.
BumpedByConsent_Not == version' = version
BumpedByConsent == Bumped

\* decideMcpProfileConfirmation: a new profile, or the next revision of one.
Filed(p) == [profile |-> IF p.profile = 0 THEN Len(revision) + 1 ELSE p.profile, recipe |-> p.recipe]

\* The challenge is burnt, whatever follows.
Consume(t) == proposal[t].status = "OPEN" /\ proposal' = [proposal EXCEPT ![t] = NoProposal]

\* CONFIRM_MCP_PROFILE
File(p) ==
    /\ ~Refused(p) /\ Len(revision) < MaxRevisions
    /\ BumpedByConsent
    /\ revision' = Append(revision, Filed(p))
    /\ capability' = Append(capability, NoCapability)
    /\ grant' = Append(grant, NoGrant)

Confirm(t) ==
    /\ Consume(t)
    /\ \/ Refused(proposal[t]) /\ UNCHANGED <<version, revision, capability, grant>>
       \/ File(proposal[t])
    /\ UNCHANGED <<probe, probes, bundle, tab>>

\* Five minutes pass over it, or the page drops it.
Expire(t) ==
    /\ proposal[t].status = "OPEN"
    /\ proposal' = [proposal EXCEPT ![t] = NoProposal]
    /\ UNCHANGED <<version, revision, capability, grant, probe, probes, bundle, tab>>

----
(* Probe and grant *)

\* The revision is read, its server started and asked.
Probe(t) ==
    /\ probe = 0 /\ probes < MaxProbes
    /\ tab[t].of \in Shown
    /\ probe' = tab[t].of /\ probes' = probes + 1
    /\ UNCHANGED <<version, revision, capability, grant, bundle, tab, proposal>>

\* Mutant: the profile's latest, read when the answer comes.
Observed_Latest == CHOOSE r \in Shown : revision[r].profile = revision[probe].profile
\* The route's answer names the revision that was asked.
Observed == probe

\* decideMcpCapabilitySnapshot
Snapshot(tools) == [tools |-> tools, ran |-> probe]

\* RECORD_MCP_CAPABILITY_SNAPSHOT
Record ==
    /\ probe # 0
    /\ \E tools \in SUBSET Tool : capability' = [capability EXCEPT ![Observed] = Snapshot(tools)]
    /\ probe' = 0
    /\ UNCHANGED <<version, revision, grant, probes, bundle, tab, proposal>>

\* The panel lets the owner tick what it showed, and not nothing.
Ticked(t) == SUBSET tab[t].offered \ {{}}

\* decideMcpProfileGrant
Grantable(r, tools) == grant[r].status # "REVOKED" /\ tools \subseteq capability[r].tools /\ tools # grant[r].tools

\* The revision a tab looks at, with the versions it shows.
Seen(t) == tab[t].of # 0 /\ Expected(tab[t].version) /\ grant[tab[t].of].version = tab[t].granted

\* SET_MCP_PROFILE_GRANT
SetGrant(t) ==
    /\ Seen(t)
    /\ \E tools \in Ticked(t) :
         /\ Grantable(tab[t].of, tools)
         /\ grant' = [grant EXCEPT ![tab[t].of] = [status |-> "ENABLED", version |-> @.version + 1, tools |-> tools]]
    /\ Bumped
    /\ UNCHANGED <<revision, capability, probe, probes, bundle, tab, proposal>>

\* decideMcpProfileGrantRevocation
Revocable(r) == grant[r].status = "ENABLED"

\* REVOKE_MCP_PROFILE_GRANT
Revoke(t) ==
    /\ Seen(t) /\ Revocable(tab[t].of)
    /\ grant' = [grant EXCEPT ![tab[t].of].status = "REVOKED", ![tab[t].of].version = @ + 1]
    /\ Bumped
    /\ UNCHANGED <<revision, capability, probe, probes, bundle, tab, proposal>>

\* The daemon starts again, perhaps as a newer build; the page stays open.
Restart ==
    /\ bundle = 1 /\ bundle' = 2
    /\ probe' = 0
    /\ proposal' = [t \in Tab |-> NoProposal]
    /\ UNCHANGED <<version, revision, capability, grant, probes, tab>>

----
Init ==
    /\ version = 0 /\ revision = <<>> /\ capability = <<>> /\ grant = <<>>
    /\ probe = 0 /\ probes = 0 /\ bundle = 1
    /\ tab = [t \in Tab |-> [version |-> 0, of |-> 0, granted |-> 0, offered |-> {}]]
    /\ proposal = [t \in Tab |-> NoProposal]

Next ==
    \/ \E t \in Tab :
         \/ Load(t) \/ Propose(t) \/ ProposePreset(t) \/ Confirm(t) \/ Expire(t)
         \/ Probe(t) \/ SetGrant(t) \/ Revoke(t)
    \/ Record \/ Restart

Spec == Init /\ [][Next]_vars

----
(* Properties; the last two are of steps *)

\* A probe outlives the settings it was asked from: what it found is held against the revision whose
\* server it ran, though the profile was given a newer one meanwhile.
CapabilityIsOfItsRevision == \A r \in DOMAIN revision : capability[r].ran \in {0, r}

\* No tab grants, widens or withdraws the tools of a revision that another tab's consent has replaced.
GrantsAreForTheLatest == \A r \in DOMAIN grant : grant'[r] # grant[r] => Latest(r)

\* However many tabs press the Context7 button, and whatever the build brings, the preset is not filed
\* as a second profile beside one that has it.
PresetIsFiledOnce ==
    \A r \in DOMAIN revision' \ DOMAIN revision :
       revision'[r].profile = r /\ revision'[r].recipe.name = "Context7" => Configured = {}

=============================================================================
