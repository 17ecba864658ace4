------------------------ MODULE AmbientPolicyChecker ------------------------
(***************************************************************************)
(* raksha::ambient::PolicyChecker (src/frontends/ambient): the context of  *)
(* data flow edges and user settings that clients grow call by call, and   *)
(* the Datalog program multimic.dl that judges it.  The program is linked  *)
(* with taint.dl; its relations are evaluated here to their least model.   *)
(***************************************************************************)
EXTENDS Naturals, FiniteSets

Node == {"SmartMicrophone", "DemoApplication", "DemoApplicationASR",
         "DemoApplicationAudioStore"}
User == {"OwnerUser", "GuestUser"}
Settings == {"Streaming", "ASR", "Recording"}
Unknown == "kUnknown"

VARIABLES
  edges,         \* edges_: pairs of access paths
  userSettings,  \* user_settings_
  answer,        \* what the last call returned
  alive          \* no CHECK has failed

vars == <<edges, userSettings, answer, alive>>

-----------------------------------------------------------------------------
\* The access paths of a node the clients connect.
OutPath(node) ==
  CASE node = "SmartMicrophone" -> "R.mic_audio_stream_out"
    [] node = "DemoApplication" -> "R.app_audio_stream_out"
InPath(node) ==
  CASE node = "DemoApplication" -> "R.app_audio_stream_in"
    [] node = "DemoApplicationASR" -> "R.asr_audio_stream_in"
    [] node = "DemoApplicationAudioStore" -> "R.store_audio_stream_in"
SourceNodes == {"SmartMicrophone", "DemoApplication"}
TargetNodes == Node \ {"SmartMicrophone"}

DataFlowEdge == {<<OutPath(s), InPath(t)>> : s \in SourceNodes, t \in TargetNodes}

Microphone == "R.SmartMicrophone.audio"
AppIn == "R.DemoApplication.audioIn"
AppOut == "R.DemoApplication.audioOut"

\* The edges of the manifest.
ManifestEdges ==
  {<<InPath("DemoApplication"), AppIn>>, <<AppIn, AppOut>>,
   <<AppOut, OutPath("DemoApplication")>>,
   <<InPath("DemoApplicationASR"), "R.DemoApplicationASR.audio">>,
   <<InPath("DemoApplicationAudioStore"), "R.DemoApplicationAudioStore.audio">>,
   <<Microphone, OutPath("SmartMicrophone")>>}

AccessPath == UNION {{e[1], e[2]} : e \in ManifestEdges}

\* Which application uses the data how, and where.
UsagePath(u) ==
  CASE u = "Streaming" -> AppIn
    [] u = "ASR" -> "R.DemoApplicationASR.audio"
    [] u = "Recording" -> "R.DemoApplicationAudioStore.audio"
UsageNode(u) ==
  CASE u = "Streaming" -> "DemoApplication"
    [] u = "ASR" -> "DemoApplicationASR"
    [] u = "Recording" -> "DemoApplicationAudioStore"

RawAudio == <<"RawAudio">>
Does(u) == <<"Does", u>>
Allow(u) == <<"Allow", u>>
Tag == {RawAudio} \cup {Does(u) : u \in Settings} \cup {Allow(u) : u \in Settings}

-----------------------------------------------------------------------------
\* The manager of the settings speaks for the users, the applications for it.
Manager == "SystemSettingsManager"
Says(speaker, path, owner, tag) ==
  [speaker |-> speaker, path |-> path, owner |-> owner, tag |-> tag]

\* says_canSay_hasTag: speaker repeats the statement f of another principal.
CanSayHasTag(speaker, f) ==
  \/ speaker = "GuestUser" /\ f.speaker = Manager /\ f.owner = "GuestUser"
  \/ /\ speaker = "OwnerUser" /\ f.speaker = Manager /\ f.owner = "OwnerUser"
     /\ f.tag \in {Does(u) : u \in Settings}
  \/ /\ speaker = Manager
     /\ \E u \in Settings :
          f.speaker = UsageNode(u) /\ f.path = UsagePath(u) /\ f.tag = Does(u)

\* says_canSay_removeTag
CanSayRemoveTag(speaker, f) ==
  \/ speaker \in User /\ f.speaker = Manager /\ f.owner = speaker
  \/ /\ speaker = Manager /\ f.speaker = "DemoApplication"
     /\ f.path = AppOut /\ f.tag = Does("Streaming")

\* Delegation goes from an application to the manager to a user: two rounds.
Delegated(facts, CanSay(_, _)) ==
  LET round(S) ==
        S \cup UNION {{[f EXCEPT !.speaker = p] : f \in {g \in S : CanSay(p, g)}} :
                        p \in User \cup {Manager}}
  IN round(round(facts))

\* Faulty: the owner's preferences cover the microphone only.
PreferredOnlyAtMicrophone(enabled) ==
  {Says("OwnerUser", Microphone, "OwnerUser", Allow(u)) : u \in enabled}

\* What the owner allows wherever the owner says there is raw audio.
PreferredTags(enabled) ==
  {Says("OwnerUser", p, "OwnerUser", Allow(u)) : p \in {Microphone, AppOut}, u \in enabled}

\* The facts that no setting changes, with who repeats them.
StandingFacts ==
  Delegated(
    {Says(UsageNode(u), UsagePath(u), o, Does(u)) : u \in Settings, o \in User}
    \cup {Says(o, p, o, RawAudio) : p \in {Microphone, AppOut}, o \in User}
    \cup {Says(Manager, p, "GuestUser", Allow(u)) : p \in AccessPath, u \in Settings},
    CanSayHasTag)

\* Nobody repeats what the owner prefers.
SaysHasTag(enabled) == StandingFacts \cup PreferredTags(enabled)

\* Faulty: nobody removes a tag.
NothingRemoved == {}

SaysRemoveTag ==
  Delegated({Says("DemoApplication", AppOut, o, Does("Streaming")) : o \in User},
            CanSayRemoveTag)

-----------------------------------------------------------------------------
\* hasTag: what an owner itself says about the tags of paths.
HasTag(enabled) == {f \in SaysHasTag(enabled) : f.speaker = f.owner}
RemoveTag(path, owner, tag) == Says(owner, path, owner, tag) \in SaysRemoveTag

\* The paths that may have a tag: it flows along edges that do not remove it.
MayHaveTag(es, hasTag, owner, tag) ==
  LET flows == {e \in es \cup ManifestEdges : ~RemoveTag(e[2], owner, tag)}
      reach[n \in Nat] ==
        IF n = 0 THEN {f.path : f \in {g \in hasTag : g.owner = owner /\ g.tag = tag}}
        ELSE LET before == reach[n - 1]
             IN before \cup {e[2] : e \in {d \in flows : d[1] \in before}}
  IN reach[Cardinality(AccessPath)]

DisallowedUsage(es, enabled) ==
  LET hasTag == HasTag(enabled)
      may(owner, tag) == MayHaveTag(es, hasTag, owner, tag)
  IN {<<o, u>> \in User \X Settings :
        (may(o, RawAudio) \cap may(o, Does(u))) \ may(o, Allow(u)) # {}}

\* The program reads the edges and what the owner says is enabled.
Compliant(es, settings) ==
  DisallowedUsage(es, {u \in Settings : settings["OwnerUser"][u]}) = {}

\* says_canSay_isEnabled("SystemSettingsManager", user, setting)
CanUserChangeSetting(user, setting) == user = "OwnerUser" /\ setting \in Settings

-----------------------------------------------------------------------------
Init ==
  /\ edges = {}
  /\ userSettings = [u \in User |-> [s \in Settings |-> TRUE]]
  /\ answer = TRUE
  /\ alive = TRUE

Answer(ok) == alive /\ answer' = ok /\ UNCHANGED alive

\* Faulty: an edge that was refused stays.
AddWithoutRemoval(source, target) ==
  LET e == <<OutPath(source), InPath(target)>>
  IN /\ Answer(Compliant(edges \cup {e}, userSettings))
     /\ edges' = edges \cup {e}
     /\ UNCHANGED userSettings

\* An edge that does not comply goes again, unless the context had it before.
AddIfValidEdge(source, target) ==
  LET e == <<OutPath(source), InPath(target)>>
      ok == Compliant(edges \cup {e}, userSettings)
  IN /\ Answer(ok)
     /\ edges' = IF ok THEN edges \cup {e} ELSE edges
     /\ UNCHANGED userSettings

\* The edge is added, judged, and removed, whether it was there or not.
IsValidEdge(source, target) ==
  LET e == <<OutPath(source), InPath(target)>>
  IN /\ Answer(Compliant(edges \cup {e}, userSettings))
     /\ edges' = edges \ {e}
     /\ UNCHANGED userSettings

ValidatePolicyCompliance ==
  /\ Answer(Compliant(edges, userSettings))
  /\ UNCHANGED <<edges, userSettings>>

\* The edges in the context are not judged again under the new settings.
ChangeSetting(user, setting, value) ==
  /\ Answer(CanUserChangeSetting(user, setting))
  /\ userSettings' = IF CanUserChangeSetting(user, setting)
                     THEN [userSettings EXCEPT ![user][setting] = value]
                     ELSE userSettings
  /\ UNCHANGED edges

\* The node has no connection of this direction, or a name is unknown.
CheckFails ==
  /\ alive
  /\ \/ \E s, t \in Node \cup {Unknown} : s \notin SourceNodes \/ t \notin TargetNodes
     \/ \E u \in User \cup {Unknown}, s \in Settings \cup {Unknown} : Unknown \in {u, s}
  /\ alive' = FALSE
  /\ UNCHANGED <<edges, userSettings, answer>>

Next ==
  \/ \E s \in SourceNodes, t \in TargetNodes : AddIfValidEdge(s, t) \/ IsValidEdge(s, t)
  \/ ValidatePolicyCompliance
  \/ \E u \in User, s \in Settings, v \in BOOLEAN : ChangeSetting(u, s, v)
  \/ CheckFails

Spec == Init /\ [][Next]_vars

-----------------------------------------------------------------------------
TypeOK ==
  /\ edges \subseteq DataFlowEdge
  /\ userSettings \in [User -> [Settings -> BOOLEAN]]
  /\ answer \in BOOLEAN
  /\ alive \in BOOLEAN

(***************************************************************************)
(* What the policy means: every edge carries the owner's raw audio, so a   *)
(* context is compliant iff the owner has enabled the usage of each edge's *)
(* target.  The owner's wishes reach the verdict through delegations, tag  *)
(* removal and two closures; the guest never has a say.                    *)
(***************************************************************************)
VerdictIsOwnersWill ==
  Compliant(edges, userSettings) <=>
    \A u \in Settings :
      (\E e \in edges : e[2] = InPath(UsageNode(u))) => userSettings["OwnerUser"][u]

(***************************************************************************)
(* A context that complies keeps complying until the owner withdraws a     *)
(* permission: no sequence of queries and additions ends in a context that *)
(* the policy forbids.                                                     *)
(***************************************************************************)
OnlyWithdrawalBreaksCompliance ==
  [][Compliant(edges, userSettings) /\ ~Compliant(edges', userSettings')
     => \E u \in Settings : /\ userSettings["OwnerUser"][u]
                            /\ userSettings' = [userSettings EXCEPT !["OwnerUser"][u] = FALSE]]_vars

(***************************************************************************)
(* A refusal does not depend on the order of the calls: an edge that is    *)
(* forbidden stays so when another one is added, although the program      *)
(* negates mayHaveTag (an added edge could bring an Allow tag along).      *)
(***************************************************************************)
RefusalsPersist ==
  \A e, added \in DataFlowEdge :
    ~Compliant(edges \cup {e}, userSettings) =>
      ~Compliant(edges \cup {e, added}, userSettings)

(***************************************************************************)
(* policy_checker.h calls IsValidEdge "Simply check if the given edge can  *)
(* be added safely to the policy context."  The code removes the edge it   *)
(* asked about even if it was part of the context.                         *)
(***************************************************************************)
QueryLeavesContext ==
  [][\A s \in SourceNodes, t \in TargetNodes : IsValidEdge(s, t) => edges' = edges]_vars
=============================================================================
