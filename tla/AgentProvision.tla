--------------------------- MODULE AgentProvision ---------------------------
(***************************************************************************)
(* The commands provision and deploy: they bring the tools and the agent   *)
(* at ElevenLabs in line with the manifest, and keep the ids in a file     *)
(* that the backend reads to answer connections and status requests.       *)
(*                                                                         *)
(* Every command is a process of its own, so that they interleave at each  *)
(* call of the provider and at each access to the file.  The file is       *)
(* rewritten in place: truncated, then filled.  The provider numbers tools *)
(* and agents from 1; 0 is none.                                           *)
(***************************************************************************)
EXTENDS Naturals, Sequences, FiniteSets, Functions

CONSTANTS
  Runs,          \* commands, each started once
  Names,         \* of tools
  AllowedNames,  \* those the backend answers
  Manifests,     \* sequences of names: what the manifest may list, over time
  MaxRemovals    \* tools and agents removed by hand at the provider

ASSUME ManifestAssumption == Manifests \subseteq Seq(Names)

ASSUME NamesAssumption == AllowedNames \subseteq Names

ASSUME RemovalsAssumption == MaxRemovals \in Nat

VARIABLES
  tools,         \* tools at the provider: [name, live]
  agents,        \* agents at the provider: [tools, live, deployed]
  file,          \* whether the state file is missing, torn or whole
  saved,         \* what it holds, or held when it was whole last
  run,           \* [Runs -> a command]
  alone          \* history: no two commands were ever under way together

remote == <<tools, agents>>
disk   == <<file, saved>>
vars   == <<remote, disk, run, alone>>

Labels == {"idle", "list", "tool", "agent", "branch", "deploy", "look", "save", "write",
           "done", "failed"}

NoTools == [n \in Names |-> 0]

(* ProvisionState; branch: whether a branch id is known, at: deployed_at. *)
State(agent, ids, branch, status, at) ==
  [agent |-> agent, tools |-> ids, branch |-> branch, status |-> status, at |-> at]

NoState == State(0, NoTools, FALSE, "draft", FALSE)

Init ==
  /\ tools = <<>> /\ agents = <<>>
  /\ file = "none" /\ saved = NoState
  /\ run = [r \in Runs |->
              [pc |-> "idle", cmd |-> "none", todo |-> <<>>, listed |-> NoTools, made |-> 0,
               st |-> NoState]]
  /\ alone = TRUE

At(r, label) == run[r].pc = label
Goto(r, label) == run' = [run EXCEPT ![r].pc = label]

(* The process is over; history: the agent it created. *)
Ends(r, label) ==
  run' = [run EXCEPT ![r] = [pc |-> label, cmd |-> "none", todo |-> <<>>, listed |-> NoTools,
                             made |-> run[r].made, st |-> NoState]]

Fails(r) == Ends(r, "failed")

UnderWay(r) == run[r].pc \notin {"idle", "done", "failed"}

-----------------------------------------------------------------------------
(* A command starts with the file.  A missing file is no state yet for     *)
(* provision and a refusal for deploy; a torn one fails both.              *)

Starts(r, s) ==
  /\ At(r, "idle")
  /\ run' = [run EXCEPT ![r] = s]
  /\ alone' = (alone /\ \A q \in Runs : ~UnderWay(q))
  /\ UNCHANGED <<remote, disk>>

(* validate: a manifest lists some tools, all of names the backend answers. *)
Valid(m) == m # <<>> /\ Range(m) \subseteq AllowedNames

OnFile == IF file = "whole" THEN saved ELSE NoState

ProvisionAnew(r) ==                \* mutation: a deployed agent is not updated
  /\ file # "torn"
  /\ \E m \in Manifests :
       /\ Valid(m)
       /\ Starts(r, [run[r] EXCEPT !.pc = "list", !.cmd = "provision", !.todo = m,
                    !.st = IF OnFile.status = "deployed" THEN NoState ELSE OnFile])

(* The manifest was loaded and validated before. *)
Provision(r) ==
  /\ file # "torn"
  /\ \E m \in Manifests :
       /\ Valid(m)
       /\ Starts(r, [run[r] EXCEPT !.pc = "list", !.cmd = "provision", !.todo = m,
                                   !.st = OnFile])

DeployAnyway(r) ==               \* mutation: load instead of require
  /\ file # "torn"
  /\ Starts(r, [run[r] EXCEPT !.pc = IF OnFile.branch THEN "deploy" ELSE "branch",
                              !.cmd = "deploy", !.st = OnFile])

Deploy(r) ==
  /\ file = "whole"
  /\ Starts(r, [run[r] EXCEPT !.pc = IF saved.branch THEN "deploy" ELSE "branch",
                              !.cmd = "deploy", !.st = saved])

(* A dry run reads manifest and file, and changes nothing. *)
DryRun(r) ==
  /\ At(r, "idle") /\ file # "torn"
  /\ \E m \in Manifests : Valid(m)
  /\ Ends(r, "done")
  /\ UNCHANGED <<remote, disk, alone>>

(* A manifest that is not valid, or names a variable that is not set. *)
RefuseManifest(r) == At(r, "idle") /\ Fails(r) /\ UNCHANGED <<remote, disk, alone>>

(* require: no file to deploy from, or one that is torn. *)
RefuseState(r) ==
  /\ At(r, "idle") /\ file # "whole"
  /\ Fails(r)
  /\ UNCHANGED <<remote, disk, alone>>

-----------------------------------------------------------------------------
(* ensure_tools. *)

Live(n) == {t \in DOMAIN tools : tools[t].live /\ tools[t].name = n}

ListNothing(r) ==                  \* mutation: only the file knows of tools
  /\ At(r, "list")
  /\ Goto(r, "tool")
  /\ UNCHANGED <<remote, disk, alone>>

(* by_name: of several tools of one name, the one listed last. *)
ListTools(r) ==
  /\ At(r, "list")
  /\ \E ids \in [Names -> 0 .. Len(tools)] :
       /\ \A n \in Names : IF Live(n) = {} THEN ids[n] = 0 ELSE ids[n] \in Live(n)
       /\ run' = [run EXCEPT ![r].listed = ids, ![r].pc = "tool"]
  /\ UNCHANGED <<remote, disk, alone>>

NextTool(r) == Head(run[r].todo)

(* The tool of the next name, as listed or else as on file. *)
Known(r) ==
  IF run[r].listed[NextTool(r)] # 0 THEN run[r].listed[NextTool(r)]
  ELSE run[r].st.tools[NextTool(r)]

Ensured(r, id) ==
  [run EXCEPT ![r].st.tools[NextTool(r)] = id,
              ![r].todo = Tail(@),
              ![r].listed = IF Tail(run[r].todo) = <<>> THEN NoTools ELSE @,
              ![r].pc = IF Tail(run[r].todo) = <<>> THEN "agent" ELSE "tool"]

(* build_tool_request_model: what is sent of a tool, its schemas left out. *)
NewTool(r) == [name |-> NextTool(r), live |-> TRUE]

UpdateTool(r) ==
  /\ At(r, "tool") /\ Known(r) # 0
  /\ IF tools[Known(r)].live THEN run' = Ensured(r, Known(r)) ELSE Fails(r)
  /\ UNCHANGED <<remote, disk, alone>>

CreateTool(r) ==
  /\ At(r, "tool") /\ Known(r) = 0
  /\ tools' = Append(tools, NewTool(r))
  /\ run' = Ensured(r, Len(tools) + 1)
  /\ UNCHANGED <<agents, disk, alone>>

-----------------------------------------------------------------------------
(* ensure_agent, with every tool the state knows, also those the manifest  *)
(* has dropped.                                                            *)

ToolIds(st) == Range(st.tools) \ {0}

NewAgent(r) == [tools |-> ToolIds(run[r].st), live |-> TRUE, deployed |-> FALSE]

(* A known branch and the time of a deployment stay in the state. *)
Synced(r, agent) ==
  [run EXCEPT ![r] = [run[r] EXCEPT
     !.st = [run[r].st EXCEPT !.agent = agent, !.status = "synced"],
     !.made = IF run[r].st.agent = agent THEN 0 ELSE agent,
     !.pc = IF run[r].st.branch THEN "save" ELSE "branch"]]

CreateAgent(r) ==
  /\ At(r, "agent") /\ run[r].st.agent = 0
  /\ agents' = Append(agents, NewAgent(r))
  /\ run' = Synced(r, Len(agents) + 1)
  /\ UNCHANGED <<tools, disk, alone>>

UpdateOrReplace(r) ==              \* mutation: an agent that was removed is created anew
  /\ At(r, "agent") /\ run[r].st.agent # 0
  /\ LET a == run[r].st.agent IN
     IF agents[a].live
     THEN /\ agents' = [agents EXCEPT ![a].tools = ToolIds(run[r].st)]
          /\ run' = Synced(r, a)
     ELSE agents' = Append(agents, NewAgent(r)) /\ run' = Synced(r, Len(agents) + 1)
  /\ UNCHANGED <<tools, disk, alone>>

UpdateAgent(r) ==
  /\ At(r, "agent") /\ run[r].st.agent # 0
  /\ LET a == run[r].st.agent IN
     IF agents[a].live
     THEN /\ agents' = [agents EXCEPT ![a].tools = ToolIds(run[r].st)]
          /\ run' = Synced(r, a)
     ELSE UNCHANGED agents /\ Fails(r)
  /\ UNCHANGED <<tools, disk, alone>>

-----------------------------------------------------------------------------
(* The main branch of the agent, where none is on file. *)
Branch(r) ==
  /\ At(r, "branch")
  /\ IF agents[run[r].st.agent].live
     THEN run' = [run EXCEPT ![r].st.branch = TRUE,
                             ![r].pc = IF run[r].cmd = "deploy" THEN "deploy" ELSE "save"]
     ELSE Fails(r)
  /\ UNCHANGED <<remote, disk, alone>>

(* deploy: the deployment is created, then the agent is read again for its *)
(* tools; where the answer has none, those on file stay.                   *)
CreateDeployment(r) ==
  /\ At(r, "deploy")
  /\ LET a == run[r].st.agent IN
     IF agents[a].live
     THEN agents' = [agents EXCEPT ![a].deployed = TRUE] /\ Goto(r, "look")
     ELSE UNCHANGED agents /\ Fails(r)
  /\ UNCHANGED <<tools, disk, alone>>

IdsOf(ts) ==
  [n \in Names |->
     IF \E t \in ts : tools[t].name = n THEN CHOOSE t \in ts : tools[t].name = n ELSE 0]

Deployed(r, ids) ==
  [run EXCEPT ![r].st = State(@.agent, ids, TRUE, "deployed", TRUE), ![r].pc = "save"]

LookAtAll(r) ==                    \* mutation: every tool of the account
  /\ At(r, "look")
  /\ run' = Deployed(r, IdsOf(DOMAIN tools))
  /\ UNCHANGED <<remote, disk, alone>>

LookAtAgent(r) ==
  /\ At(r, "look")
  /\ IF agents[run[r].st.agent].live
     THEN \E ids \in {run[r].st.tools, IdsOf(agents[run[r].st.agent].tools)} :
            run' = Deployed(r, ids)
     ELSE Fails(r)
  /\ UNCHANGED <<remote, disk, alone>>

-----------------------------------------------------------------------------
(* write_text: the file is opened, which empties it, and then written. *)
OpenFile(r) ==
  /\ At(r, "save")
  /\ file' = "torn"
  /\ Goto(r, "write")
  /\ UNCHANGED <<remote, saved, alone>>

WriteFile(r) ==
  /\ At(r, "write")
  /\ file' = "whole" /\ saved' = run[r].st
  /\ Ends(r, "done")
  /\ UNCHANGED <<remote, alone>>

(* The process is stopped, or a call of the provider fails. *)
Cut(r) ==
  /\ UnderWay(r)
  /\ Fails(r)
  /\ UNCHANGED <<remote, disk, alone>>

(* Someone removes a tool or an agent in the provider's console. *)
Gone(things) == Cardinality({i \in DOMAIN things : ~things[i].live})

Remove ==
  /\ Gone(tools) + Gone(agents) < MaxRemovals
  /\ \/ \E t \in DOMAIN tools :
          /\ tools' = [tools EXCEPT ![t].live = FALSE]
          /\ agents' = [a \in DOMAIN agents |-> [agents[a] EXCEPT !.tools = @ \ {t}]]
     \/ \E a \in DOMAIN agents :
          agents' = [agents EXCEPT ![a].live = FALSE] /\ UNCHANGED tools
  /\ UNCHANGED <<disk, run, alone>>

-----------------------------------------------------------------------------
Step(r) ==
  \/ Provision(r) \/ Deploy(r) \/ DryRun(r) \/ RefuseManifest(r) \/ RefuseState(r)
  \/ ListTools(r) \/ UpdateTool(r) \/ CreateTool(r)
  \/ CreateAgent(r) \/ UpdateAgent(r) \/ Branch(r)
  \/ CreateDeployment(r) \/ LookAtAgent(r)
  \/ OpenFile(r) \/ WriteFile(r) \/ Cut(r)

Next == Remove \/ \E r \in Runs : Step(r)

Spec == Init /\ [][Next]_vars

-----------------------------------------------------------------------------
Ids == [Names -> 0 .. Len(tools)]

StateOK(st) ==
  /\ st \in [agent : 0 .. Len(agents), tools : Ids, branch : BOOLEAN,
             status : {"draft", "synced", "deployed"}, at : BOOLEAN]
  /\ st.agent = 0 => st.status = "draft"

(* Records have their types, and ids name what was created. *)
TypeOK ==
  /\ \A t \in DOMAIN tools : tools[t] \in [name : AllowedNames, live : BOOLEAN]
  /\ \A a \in DOMAIN agents :
       agents[a] \in [tools : SUBSET (DOMAIN tools), live : BOOLEAN, deployed : BOOLEAN]
  /\ file \in {"none", "torn", "whole"}
  /\ StateOK(saved) /\ (file = "whole" => saved.agent # 0)
  /\ \A r \in Runs :
       /\ run[r].pc \in Labels
       /\ run[r].cmd \in {"none", "provision", "deploy"}
       /\ run[r].listed \in Ids
       /\ run[r].made \in 0 .. Len(agents)
       /\ StateOK(run[r].st)
       /\ run[r].pc \in {"branch", "deploy", "look", "save", "write"} => run[r].st.agent # 0
  /\ alone \in BOOLEAN

(* Commands that do not overlap create a tool once, wherever one before    *)
(* was cut off: the next finds by name what it had created.                *)
ToolsOnce ==
  alone => \A t, u \in DOMAIN tools :
             (tools[t].live /\ tools[u].live /\ tools[t].name = tools[u].name) => t = u

(* And one agent: any other at the provider is left of a command that is   *)
(* under way, or was cut off before it could write the id down.            *)
AgentOnce ==
  alone => \A a \in DOMAIN agents :
             a = saved.agent \/ \E r \in Runs : run[r].made = a /\ ~At(r, "done")

(* What the file lists is attached to the agent it names, as far as it was *)
(* not removed by hand: the calls go to the provider before the file.      *)
ListedIsAttached ==
  (alone /\ file = "whole") =>
    \A t \in ToolIds(saved) : tools[t].live => t \in agents[saved.agent].tools

(* A time of deployment in the file, or in a command's copy of it, is one  *)
(* of the agent named beside it, however commands overlap.                 *)
DeployedIsTrue ==
  \A st \in {saved} \cup {run[r].st : r \in Runs} :
    /\ st.at => agents[st.agent].deployed
    /\ st.status = "deployed" => st.at
=============================================================================
