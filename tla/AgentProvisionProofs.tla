------------------------ MODULE AgentProvisionProofs ------------------------
(***************************************************************************)
(* What holds of AgentProvision for any number of commands, manifests and  *)
(* removals by hand.                                                       *)
(*                                                                         *)
(* Shape is what holds however commands overlap: ids name what was created *)
(* under that name, and a time of deployment is one of the agent beside    *)
(* it.  Alone is what holds as long as no two commands ever overlapped:    *)
(* what the command under way has in hand, against the file and the        *)
(* provider.                                                               *)
(***************************************************************************)
EXTENDS AgentProvision, TLAPS

ToolRec == [name : AllowedNames, live : BOOLEAN]

AgentRec(n) == [tools : SUBSET (1 .. n), live : BOOLEAN, deployed : BOOLEAN]

StateRec(n, m) ==
  [agent : 0 .. m, tools : [Names -> 0 .. n], branch : BOOLEAN,
   status : {"draft", "synced", "deployed"}, at : BOOLEAN]

Command(n, m) ==
  [pc : Labels, cmd : {"none", "provision", "deploy"}, todo : Seq(AllowedNames),
   listed : [Names -> 0 .. n], made : 0 .. m, st : StateRec(n, m)]

(* The ids are of tools of these names. *)
Names2Tools(ids, ts) == \A n \in Names : ids[n] # 0 => ts[ids[n]].name = n

(* A state, in the file or in the hands of a command, is true of the past. *)
Kept(st, ts, as) ==
  /\ st.agent = 0 => st.status = "draft" /\ ~st.at
  /\ st.at => as[st.agent].deployed
  /\ st.status = "deployed" => st.at
  /\ Names2Tools(st.tools, ts)

CommandKnows(c, ts, as) ==
  /\ Kept(c.st, ts, as)
  /\ Names2Tools(c.listed, ts)
  /\ c.pc \in {"list", "tool"} => c.todo # <<>>
  /\ c.pc \in {"idle", "list", "tool", "agent"} => c.made = 0
  /\ c.made # 0 => c.st.agent = c.made \/ c.pc \in {"done", "failed"}
  /\ c.pc \in {"branch", "deploy", "look", "save", "write"} => c.st.agent # 0
  /\ c.pc = "look" => as[c.st.agent].deployed

FileKnows(f, s, ts, as) ==
  /\ f \in {"none", "torn", "whole"} /\ s \in StateRec(Len(ts), Len(as))
  /\ f = "none" => s = NoState
  /\ f = "whole" => s.agent # 0
  /\ Kept(s, ts, as)

Shape ==
  /\ tools \in Seq(ToolRec)
  /\ agents \in Seq(AgentRec(Len(tools)))
  /\ FileKnows(file, saved, tools, agents)
  /\ run \in [Runs -> Command(Len(tools), Len(agents))]
  /\ \A r \in Runs : CommandKnows(run[r], tools, agents)
  /\ alone \in BOOLEAN

(* Nothing at the provider loses its number, its name or its deployment. *)
Grows ==
  /\ Len(tools) <= Len(tools') /\ Len(agents) <= Len(agents')
  /\ \A t \in 1 .. Len(tools) : tools'[t].name = tools[t].name
  /\ \A a \in 1 .. Len(agents) : agents[a].deployed => agents'[a].deployed

LEMMA Lengths ==
  ASSUME Shape
  PROVE  /\ Len(tools) \in Nat /\ Len(agents) \in Nat
         /\ DOMAIN tools = 1 .. Len(tools) /\ DOMAIN agents = 1 .. Len(agents)
         /\ \A t \in 1 .. Len(tools) : tools[t] \in ToolRec
         /\ \A a \in 1 .. Len(agents) : agents[a] \in AgentRec(Len(tools))
         /\ tools \in Seq(ToolRec) /\ agents \in Seq(AgentRec(Len(tools)))
  BY DEF Shape

LEMMA NoStateKnows ==
  ASSUME NEW n \in Nat, NEW m \in Nat, NEW ts, NEW as
  PROVE  /\ NoState \in StateRec(n, m) /\ Kept(NoState, ts, as)
         /\ NoTools \in [Names -> 0 .. n] /\ Names2Tools(NoTools, ts)
         /\ NoState.agent = 0
<1>1. NoTools \in [Names -> 0 .. n] /\ Names2Tools(NoTools, ts)
  BY DEF NoTools, Names2Tools
<1>2. /\ NoState \in StateRec(n, m)
      /\ NoState.agent = 0 /\ NoState.status = "draft" /\ NoState.at = FALSE
      /\ NoState.tools = NoTools
  BY <1>1 DEF NoState, State, StateRec
<1> QED
  BY <1>1, <1>2 DEF Kept

LEMMA InitShape == Init => Shape
<1> SUFFICES ASSUME Init PROVE Shape
  OBVIOUS
<1>1. /\ tools \in Seq(ToolRec) /\ agents \in Seq(AgentRec(Len(tools)))
      /\ Len(tools) = 0 /\ Len(agents) = 0
  BY DEF Init
<1>2. FileKnows(file, saved, tools, agents)
  BY <1>1, NoStateKnows DEF Init, FileKnows
<1>3. ASSUME NEW r \in Runs
      PROVE  run[r] \in Command(0, 0) /\ CommandKnows(run[r], tools, agents)
  <2>1. run[r] = [pc |-> "idle", cmd |-> "none", todo |-> <<>>, listed |-> NoTools, made |-> 0,
                  st |-> NoState]
    BY DEF Init
  <2>2. NoState \in StateRec(0, 0) /\ NoTools \in [Names -> 0 .. 0] /\ <<>> \in Seq(AllowedNames)
    BY NoStateKnows
  <2>3. run[r] \in Command(0, 0)
    BY <2>1, <2>2 DEF Command, Labels
  <2> QED
    BY <2>1, <2>3, NoStateKnows DEF CommandKnows
<1>4. run \in [Runs -> Command(Len(tools), Len(agents))]
  BY <1>1, <1>3 DEF Init
<1> QED
  BY <1>1, <1>2, <1>3, <1>4 DEF Init, Shape

(* What was known, and typed, stays so while the provider's lists grow.    *)
LEMMA StillTyped ==
  ASSUME NEW n \in Nat, NEW m \in Nat, NEW k \in Nat, NEW l \in Nat, n <= k, m <= l
  PROVE  StateRec(n, m) \subseteq StateRec(k, l) /\ Command(n, m) \subseteq Command(k, l)
<1>1. 0 .. n \subseteq 0 .. k /\ 0 .. m \subseteq 0 .. l
  OBVIOUS
<1>2. [Names -> 0 .. n] \subseteq [Names -> 0 .. k]
  BY <1>1
<1>3. StateRec(n, m) \subseteq StateRec(k, l)
  BY <1>1, <1>2 DEF StateRec
<1> QED
  BY <1>1, <1>2, <1>3 DEF Command

LEMMA StillKept ==
  ASSUME Shape, Grows, NEW st \in StateRec(Len(tools), Len(agents)), Kept(st, tools, agents)
  PROVE  Kept(st, tools', agents')
<1>1. st.agent # 0 => st.agent \in 1 .. Len(agents)
  BY Lengths DEF StateRec
<1>2. \A n \in Names : st.tools[n] # 0 => st.tools[n] \in 1 .. Len(tools)
  BY Lengths DEF StateRec
<1> QED
  BY <1>1, <1>2 DEF Kept, Names2Tools, Grows

LEMMA StillKnows ==
  ASSUME Shape, Grows, NEW c \in Command(Len(tools), Len(agents)), CommandKnows(c, tools, agents)
  PROVE  CommandKnows(c, tools', agents')
<1>1. c.st \in StateRec(Len(tools), Len(agents)) /\ c.listed \in [Names -> 0 .. Len(tools)]
  BY DEF Command
<1>2. Kept(c.st, tools', agents')
  BY <1>1, StillKept DEF CommandKnows
<1>3. \A n \in Names : c.listed[n] # 0 => c.listed[n] \in 1 .. Len(tools)
  BY <1>1, Lengths
<1>4. Names2Tools(c.listed, tools')
  BY <1>3 DEF CommandKnows, Names2Tools, Grows
<1>5. c.st.agent # 0 => c.st.agent \in 1 .. Len(agents)
  BY <1>1, Lengths DEF StateRec
<1> QED
  BY <1>2, <1>4, <1>5 DEF CommandKnows, Grows

(* One command moves on, the provider's lists may grow.                    *)
LEMMA RunMoves ==
  ASSUME Shape, Grows, NEW r \in Runs, NEW c \in Command(Len(tools'), Len(agents')),
         run' = [run EXCEPT ![r] = c], CommandKnows(c, tools', agents'),
         tools' \in Seq(ToolRec), agents' \in Seq(AgentRec(Len(tools'))),
         FileKnows(file', saved', tools', agents'), alone' \in BOOLEAN
  PROVE  Shape'
<1>1. /\ Len(tools) \in Nat /\ Len(agents) \in Nat /\ Len(tools') \in Nat /\ Len(agents') \in Nat
      /\ Len(tools) <= Len(tools') /\ Len(agents) <= Len(agents')
  BY Lengths DEF Grows
<1>2. Command(Len(tools), Len(agents)) \subseteq Command(Len(tools'), Len(agents'))
  BY <1>1, StillTyped
<1>3. run \in [Runs -> Command(Len(tools), Len(agents))]
  BY DEF Shape
<1>4. run' \in [Runs -> Command(Len(tools'), Len(agents'))]
  BY <1>2, <1>3
<1>5. ASSUME NEW q \in Runs PROVE CommandKnows(run'[q], tools', agents')
  <2>1. run'[q] = IF q = r THEN c ELSE run[q]
    BY <1>3
  <2>2. CommandKnows(run[q], tools', agents')
    BY <1>3, StillKnows DEF Shape
  <2> QED
    BY <2>1, <2>2
<1> QED
  BY <1>4, <1>5 DEF Shape

(* One command moves on, and nothing else changes.                         *)
LEMMA RunReads ==
  ASSUME Shape, NEW r \in Runs, NEW c \in Command(Len(tools), Len(agents)),
         run' = [run EXCEPT ![r] = c], CommandKnows(c, tools, agents),
         UNCHANGED <<remote, disk>>, alone' \in BOOLEAN
  PROVE  Shape'
<1>1. UNCHANGED <<tools, agents, file, saved>>
  BY DEF remote, disk
<1>2. Grows
  BY <1>1, Lengths DEF Grows
<1> QED
  BY <1>1, <1>2, RunMoves DEF Shape

LEMMA RunTypes ==
  ASSUME Shape, NEW r \in Runs
  PROVE  /\ run \in [Runs -> Command(Len(tools), Len(agents))]
         /\ run[r] \in Command(Len(tools), Len(agents))
         /\ run[r].st \in StateRec(Len(tools), Len(agents))
         /\ run[r].listed \in [Names -> 0 .. Len(tools)] /\ run[r].todo \in Seq(AllowedNames)
         /\ run[r].made \in 0 .. Len(agents)
         /\ CommandKnows(run[r], tools, agents) /\ Kept(run[r].st, tools, agents)
  BY DEF Shape, Command, CommandKnows

-----------------------------------------------------------------------------
(* A command begins, with the state on file or with none. *)
LEMMA OnFileKnows ==
  ASSUME Shape
  PROVE  OnFile \in StateRec(Len(tools), Len(agents)) /\ Kept(OnFile, tools, agents)
  BY Lengths, NoStateKnows DEF Shape, FileKnows, OnFile

LEMMA ProvisionShape ==
  ASSUME Shape, NEW r \in Runs, Provision(r) PROVE Shape'
<1>1. PICK m \in Manifests :
        /\ Valid(m)
        /\ Starts(r, [run[r] EXCEPT !.pc = "list", !.cmd = "provision", !.todo = m, !.st = OnFile])
  BY DEF Provision
<1> DEFINE c == [run[r] EXCEPT !.pc = "list", !.cmd = "provision", !.todo = m, !.st = OnFile]
<1>2. m \in Seq(AllowedNames) /\ m # <<>>
  <2>1. m \in Seq(Names)
    BY ManifestAssumption
  <2>2. \A i \in 1 .. Len(m) : m[i] \in AllowedNames
    BY <1>1, <2>1 DEF Valid, Range
  <2> QED
    BY <1>1, <2>1, <2>2 DEF Valid
<1>3. run[r] \in Command(Len(tools), Len(agents)) /\ CommandKnows(run[r], tools, agents)
  BY RunTypes
<1>4. /\ c \in Command(Len(tools), Len(agents)) /\ c.pc = "list" /\ c.todo = m /\ c.st = OnFile
      /\ c.listed = run[r].listed /\ c.made = run[r].made
  BY <1>2, <1>3, OnFileKnows DEF Command, Labels
<1>5. run[r].made = 0
  BY <1>1, <1>3 DEF Starts, At, CommandKnows
<1>6. run' = [run EXCEPT ![r] = c] /\ UNCHANGED <<remote, disk>> /\ alone' \in BOOLEAN
  BY <1>1 DEF Starts, Shape
<1> HIDE DEF c
<1>7. CommandKnows(c, tools, agents)
  BY <1>2, <1>3, <1>4, <1>5, OnFileKnows DEF CommandKnows
<1> QED
  BY <1>4, <1>6, <1>7, RunReads

LEMMA DeployShape ==
  ASSUME Shape, NEW r \in Runs, Deploy(r) PROVE Shape'
<1> DEFINE c == [run[r] EXCEPT !.pc = IF saved.branch THEN "deploy" ELSE "branch",
                               !.cmd = "deploy", !.st = saved]
<1>1. run[r] \in Command(Len(tools), Len(agents)) /\ CommandKnows(run[r], tools, agents)
  BY RunTypes
<1>2. /\ saved \in StateRec(Len(tools), Len(agents)) /\ saved.agent # 0
      /\ Kept(saved, tools, agents)
  BY DEF Deploy, Shape, FileKnows
<1>3. (IF saved.branch THEN "deploy" ELSE "branch") \in Labels
  BY DEF Labels
<1>4. /\ c \in Command(Len(tools), Len(agents)) /\ c.pc \in {"deploy", "branch"} /\ c.st = saved
      /\ c.listed = run[r].listed /\ c.made = run[r].made
  BY <1>1, <1>2, <1>3 DEF Command
<1>5. run[r].made = 0
  BY <1>1 DEF Deploy, Starts, At, CommandKnows
<1>6. run' = [run EXCEPT ![r] = c] /\ UNCHANGED <<remote, disk>> /\ alone' \in BOOLEAN
  BY DEF Deploy, Starts, Shape
<1> HIDE DEF c
<1>7. CommandKnows(c, tools, agents)
  BY <1>1, <1>2, <1>4, <1>5 DEF CommandKnows
<1> QED
  BY <1>4, <1>6, <1>7, RunReads

(* A command that ends keeps nothing but the agent it created. *)
LEMMA EndKnows ==
  ASSUME Shape, NEW r \in Runs, NEW label \in {"done", "failed"}, Ends(r, label)
  PROVE  \E c \in Command(Len(tools), Len(agents)) :
           /\ run' = [run EXCEPT ![r] = c] /\ CommandKnows(c, tools, agents)
           /\ c.pc = label /\ c.made = run[r].made
<1> DEFINE c == [pc |-> label, cmd |-> "none", todo |-> <<>>, listed |-> NoTools,
                 made |-> run[r].made, st |-> NoState]
<1>1. run[r].made \in 0 .. Len(agents) /\ <<>> \in Seq(AllowedNames) /\ label \in Labels
  BY RunTypes DEF Labels
<1>2. c \in Command(Len(tools), Len(agents))
  BY <1>1, Lengths, NoStateKnows DEF Command
<1>3. CommandKnows(c, tools, agents)
  BY Lengths, NoStateKnows DEF CommandKnows
<1> QED
  BY <1>2, <1>3 DEF Ends

LEMMA EndShape ==
  ASSUME Shape, NEW r \in Runs, NEW label \in {"done", "failed"}, Ends(r, label),
         UNCHANGED <<remote, disk, alone>>
  PROVE  Shape'
  BY EndKnows, RunReads DEF Shape

LEMMA RefuseShape ==
  ASSUME Shape, NEW r \in Runs, DryRun(r) \/ RefuseManifest(r) \/ RefuseState(r) \/ Cut(r)
  PROVE  Shape'
  BY EndShape DEF DryRun, RefuseManifest, RefuseState, Cut, Fails

-----------------------------------------------------------------------------
(* ensure_tools *)
LEMMA ListToolsShape ==
  ASSUME Shape, NEW r \in Runs, ListTools(r) PROVE Shape'
<1>1. PICK ids \in [Names -> 0 .. Len(tools)] :
        /\ \A n \in Names : IF Live(n) = {} THEN ids[n] = 0 ELSE ids[n] \in Live(n)
        /\ run' = [run EXCEPT ![r].listed = ids, ![r].pc = "tool"]
  BY DEF ListTools
<1> DEFINE c == [run[r] EXCEPT !.listed = ids, !.pc = "tool"]
<1>2. /\ run[r] \in Command(Len(tools), Len(agents)) /\ CommandKnows(run[r], tools, agents)
      /\ run[r].pc = "list"
  BY RunTypes DEF ListTools, At
<1>3. /\ c \in Command(Len(tools), Len(agents)) /\ c.pc = "tool" /\ c.listed = ids
      /\ c.todo = run[r].todo /\ c.st = run[r].st /\ c.made = run[r].made
  BY <1>2 DEF Command, Labels
<1>4. Names2Tools(ids, tools)
  BY <1>1 DEF Names2Tools, Live
<1>5. run' = [run EXCEPT ![r] = c]
  BY <1>1, RunTypes
<1>6. UNCHANGED <<remote, disk, alone>>
  BY DEF ListTools
<1> HIDE DEF c
<1>7. CommandKnows(c, tools, agents)
  BY <1>2, <1>3, <1>4 DEF CommandKnows
<1> QED
  BY <1>3, <1>5, <1>6, <1>7, RunReads DEF Shape

(* A tool is sent: its id is put down under its name. *)
LEMMA EnsuredShape ==
  ASSUME Shape, Grows, NEW r \in Runs, At(r, "tool"), NEW id \in 0 .. Len(tools'),
         id # 0 => tools'[id].name = NextTool(r), run' = Ensured(r, id),
         tools' \in Seq(ToolRec), UNCHANGED <<agents, disk, alone>>
  PROVE  Shape'
<1> DEFINE n == NextTool(r)
           rest == Tail(run[r].todo)
           st == [run[r].st EXCEPT !.tools = [@ EXCEPT ![n] = id]]
           c == [run[r] EXCEPT !.st = st, !.todo = rest,
                               !.listed = IF rest = <<>> THEN NoTools ELSE @,
                               !.pc = IF rest = <<>> THEN "agent" ELSE "tool"]
<1>1. /\ run[r] \in Command(Len(tools), Len(agents)) /\ CommandKnows(run[r], tools, agents)
      /\ run[r].pc = "tool"
  BY RunTypes DEF At
<1>2. rest \in Seq(AllowedNames) /\ n \in Names
  <2>1. run[r].todo \in Seq(AllowedNames) /\ run[r].todo # <<>>
    BY <1>1 DEF CommandKnows, Command
  <2> QED
    BY <2>1, NamesAssumption DEF NextTool
<1>3. Len(tools) \in Nat /\ Len(agents) \in Nat /\ Len(tools') \in Nat /\ Len(tools) <= Len(tools')
  BY Lengths DEF Grows
<1>4. run[r] \in Command(Len(tools'), Len(agents)) /\ CommandKnows(run[r], tools', agents')
  BY <1>1, <1>3, StillTyped, StillKnows
<1>5. /\ run[r].st \in StateRec(Len(tools'), Len(agents))
      /\ run[r].st.tools \in [Names -> 0 .. Len(tools')]
  BY <1>4 DEF Command, StateRec
<1>6. /\ st \in StateRec(Len(tools'), Len(agents)) /\ st.tools = [run[r].st.tools EXCEPT ![n] = id]
      /\ st.agent = run[r].st.agent /\ st.status = run[r].st.status /\ st.at = run[r].st.at
  BY <1>2, <1>5 DEF StateRec
<1>7. NoTools \in [Names -> 0 .. Len(tools')] /\ Names2Tools(NoTools, tools')
  BY <1>3, NoStateKnows
<1> HIDE DEF st, rest
<1>8. /\ c \in Command(Len(tools'), Len(agents)) /\ c.st = st /\ c.pc \in {"agent", "tool"}
      /\ c.todo = rest /\ c.made = run[r].made
      /\ c.pc = "tool" => c.todo # <<>>
      /\ c.listed = NoTools \/ c.listed = run[r].listed
  BY <1>2, <1>4, <1>6, <1>7 DEF Command, Labels
<1>9. Names2Tools(st.tools, tools')
  BY <1>2, <1>4, <1>5, <1>6 DEF Names2Tools, CommandKnows, Kept
<1>10. Kept(st, tools', agents')
  BY <1>4, <1>6, <1>9 DEF Kept, CommandKnows
<1>11. run' = [run EXCEPT ![r] = c]
  BY RunTypes DEF Ensured, st, rest
<1> HIDE DEF c, n
<1>12. CommandKnows(c, tools', agents')
  BY <1>1, <1>4, <1>7, <1>8, <1>10 DEF CommandKnows
<1>13. UNCHANGED <<agents, file, saved, alone>>
  BY DEF disk
<1>14. agents' \in Seq(AgentRec(Len(tools')))
  <2>1. AgentRec(Len(tools)) \subseteq AgentRec(Len(tools'))
    BY <1>3 DEF AgentRec
  <2> QED
    BY <1>13, <2>1, Lengths
<1>15. FileKnows(file', saved', tools', agents')
  <2>1. saved \in StateRec(Len(tools), Len(agents)) /\ Kept(saved, tools, agents)
    BY DEF Shape, FileKnows
  <2>2. saved \in StateRec(Len(tools'), Len(agents)) /\ Kept(saved, tools', agents')
    BY <1>3, <2>1, StillTyped, StillKept
  <2> QED
    BY <1>13, <2>2 DEF Shape, FileKnows
<1> QED
  BY <1>8, <1>11, <1>12, <1>13, <1>14, <1>15, RunMoves DEF Shape

LEMMA NextToolKnown ==
  ASSUME Shape, NEW r \in Runs, At(r, "tool")
  PROVE  /\ NextTool(r) \in Names /\ NextTool(r) \in AllowedNames
         /\ Known(r) \in 0 .. Len(tools)
         /\ Known(r) # 0 => tools[Known(r)].name = NextTool(r)
<1>1. /\ CommandKnows(run[r], tools, agents) /\ run[r].todo \in Seq(AllowedNames)
      /\ run[r].listed \in [Names -> 0 .. Len(tools)]
      /\ run[r].st.tools \in [Names -> 0 .. Len(tools)]
  BY RunTypes DEF StateRec
<1>2. NextTool(r) \in AllowedNames /\ NextTool(r) \in Names
  BY <1>1, NamesAssumption DEF NextTool, CommandKnows, At
<1> QED
  BY <1>1, <1>2 DEF Known, CommandKnows, Kept, Names2Tools

LEMMA UpdateToolShape ==
  ASSUME Shape, NEW r \in Runs, UpdateTool(r) PROVE Shape'
<1>1. UNCHANGED <<remote, disk, alone>> /\ tools' = tools /\ agents' = agents
  BY DEF UpdateTool, remote
<1>2. Fails(r) => Shape'
  BY <1>1, EndShape DEF Fails
<1>3. CASE run' = Ensured(r, Known(r))
  <2>1. Grows
    BY <1>1, Lengths DEF Grows
  <2>2. At(r, "tool")
    BY DEF UpdateTool
  <2>3. Known(r) \in 0 .. Len(tools) /\ (Known(r) # 0 => tools[Known(r)].name = NextTool(r))
    BY <2>2, NextToolKnown
  <2> QED
    BY <1>1, <1>3, <2>1, <2>2, <2>3, Lengths, EnsuredShape
<1> QED
  BY <1>2, <1>3 DEF UpdateTool

LEMMA CreateToolShape ==
  ASSUME Shape, NEW r \in Runs, CreateTool(r) PROVE Shape'
<1> DEFINE k == Len(tools) + 1
<1>1. At(r, "tool") /\ UNCHANGED <<agents, disk, alone>> /\ run' = Ensured(r, k)
      /\ tools' = Append(tools, NewTool(r))
  BY DEF CreateTool
<1>2. NewTool(r) \in ToolRec /\ NewTool(r).name = NextTool(r)
  BY <1>1, NextToolKnown DEF NewTool, ToolRec
<1>3. /\ tools' \in Seq(ToolRec) /\ Len(tools') = k /\ tools'[k] = NewTool(r) /\ k \in Nat
      /\ \A t \in 1 .. Len(tools) : tools'[t] = tools[t]
  BY <1>1, <1>2, Lengths
<1>4. Grows
  BY <1>1, <1>3, Lengths DEF Grows
<1>5. k \in 0 .. Len(tools') /\ (k # 0 => tools'[k].name = NextTool(r))
  BY <1>2, <1>3, Lengths
<1> QED
  BY <1>1, <1>3, <1>4, <1>5, EnsuredShape

-----------------------------------------------------------------------------
(* ensure_agent *)
LEMMA SyncedShape ==
  ASSUME Shape, Grows, NEW r \in Runs, At(r, "agent"), NEW a \in 1 .. Len(agents'),
         run[r].st.agent \in {0, a}, run' = Synced(r, a),
         agents' \in Seq(AgentRec(Len(tools))), UNCHANGED <<tools, disk, alone>>
  PROVE  Shape'
<1> DEFINE st == [run[r].st EXCEPT !.agent = a, !.status = "synced"]
           made == IF run[r].st.agent = a THEN 0 ELSE a
           pc == IF run[r].st.branch THEN "save" ELSE "branch"
           c == [run[r] EXCEPT !.st = st, !.made = made, !.pc = pc]
<1>1. /\ Len(tools) \in Nat /\ Len(agents) \in Nat /\ Len(agents') \in Nat
      /\ Len(agents) <= Len(agents') /\ a # 0 /\ a \in 0 .. Len(agents')
  BY Lengths DEF Grows
<1>2. /\ run[r] \in Command(Len(tools), Len(agents')) /\ CommandKnows(run[r], tools', agents')
      /\ run[r].pc = "agent"
  BY <1>1, RunTypes, StillTyped, StillKnows DEF At
<1>3. run[r].st \in StateRec(Len(tools), Len(agents')) /\ Kept(run[r].st, tools', agents')
  BY <1>2 DEF Command, CommandKnows
<1>4. /\ st \in StateRec(Len(tools), Len(agents')) /\ st.agent = a /\ st.status = "synced"
      /\ st.at = run[r].st.at /\ st.tools = run[r].st.tools
  BY <1>1, <1>3 DEF StateRec
<1>5. made \in 0 .. Len(agents') /\ made \in {0, a} /\ pc \in Labels /\ pc \in {"save", "branch"}
  BY <1>1 DEF Labels
<1> HIDE DEF st, made, pc
<1>6. /\ c \in Command(Len(tools), Len(agents')) /\ c.st = st /\ c.made = made /\ c.pc = pc
      /\ c.listed = run[r].listed
  BY <1>2, <1>4, <1>5 DEF Command
<1>7. run' = [run EXCEPT ![r] = c]
  BY DEF Synced, st, made, pc
<1>8. Kept(st, tools', agents')
  BY <1>1, <1>3, <1>4 DEF Kept
<1> HIDE DEF c
<1>9. CommandKnows(c, tools', agents')
  BY <1>1, <1>2, <1>4, <1>5, <1>6, <1>8 DEF CommandKnows
<1>10. UNCHANGED <<tools, file, saved, alone>>
  BY DEF disk
<1>11. FileKnows(file', saved', tools', agents')
  <2>1. saved \in StateRec(Len(tools), Len(agents)) /\ Kept(saved, tools, agents)
    BY DEF Shape, FileKnows
  <2>2. saved \in StateRec(Len(tools), Len(agents')) /\ Kept(saved, tools', agents')
    BY <1>1, <2>1, StillTyped, StillKept
  <2> QED
    BY <1>10, <2>2 DEF Shape, FileKnows
<1> QED
  BY <1>6, <1>7, <1>9, <1>10, <1>11, RunMoves DEF Shape

(* The agent gets the tools of the state. *)
LEMMA ToolIdsExist ==
  ASSUME Shape, NEW st \in StateRec(Len(tools), Len(agents))
  PROVE  ToolIds(st) \subseteq 1 .. Len(tools)
         /\ \A t : t \in ToolIds(st) <=> t # 0 /\ \E n \in Names : t = st.tools[n]
<1>1. st.tools \in [Names -> 0 .. Len(tools)]
  BY DEF StateRec
<1> QED
  BY <1>1, Lengths DEF ToolIds, Range

(* A changed agent keeps its number, a new one gets the next. *)
LEMMA AgentAdded ==
  ASSUME Shape, NEW b \in AgentRec(Len(tools)), agents' = Append(agents, b)
  PROVE  /\ agents' \in Seq(AgentRec(Len(tools))) /\ Len(agents') = Len(agents) + 1
         /\ agents'[Len(agents) + 1] = b
         /\ \A a \in 1 .. Len(agents) : agents'[a] = agents[a]
  BY Lengths

LEMMA AgentChanged ==
  ASSUME Shape, NEW a \in 1 .. Len(agents), NEW b \in AgentRec(Len(tools)),
         agents' = [agents EXCEPT ![a] = b]
  PROVE  /\ agents' \in Seq(AgentRec(Len(tools))) /\ Len(agents') = Len(agents)
         /\ \A x \in 1 .. Len(agents) : agents'[x] = IF x = a THEN b ELSE agents[x]
  BY Lengths

LEMMA CreateAgentShape ==
  ASSUME Shape, NEW r \in Runs, CreateAgent(r) PROVE Shape'
<1>1. run[r].st \in StateRec(Len(tools), Len(agents))
  BY RunTypes
<1>2. NewAgent(r) \in AgentRec(Len(tools))
  BY <1>1, ToolIdsExist DEF NewAgent, AgentRec
<1>3. /\ agents' = Append(agents, NewAgent(r)) /\ run[r].st.agent = 0 /\ At(r, "agent")
      /\ run' = Synced(r, Len(agents) + 1) /\ UNCHANGED <<tools, disk, alone>>
  BY DEF CreateAgent
<1>4. /\ agents' \in Seq(AgentRec(Len(tools))) /\ Len(agents') = Len(agents) + 1
      /\ \A a \in 1 .. Len(agents) : agents'[a] = agents[a]
  BY <1>2, <1>3, AgentAdded
<1>5. Grows /\ Len(agents) + 1 \in 1 .. Len(agents')
  BY <1>3, <1>4, Lengths DEF Grows
<1> QED
  BY <1>3, <1>4, <1>5, SyncedShape

LEMMA UpdateAgentShape ==
  ASSUME Shape, NEW r \in Runs, UpdateAgent(r) PROVE Shape'
<1> DEFINE a == run[r].st.agent
           b == [agents[a] EXCEPT !.tools = ToolIds(run[r].st)]
<1>1. run[r].st \in StateRec(Len(tools), Len(agents)) /\ a \in 1 .. Len(agents)
  BY RunTypes, Lengths DEF UpdateAgent, StateRec
<1>2. CASE UNCHANGED agents /\ Fails(r)
  <2>1. UNCHANGED <<remote, disk, alone>>
    BY <1>2 DEF UpdateAgent, remote
  <2> QED
    BY <1>2, <2>1, EndShape DEF Fails
<1>3. CASE agents' = [agents EXCEPT ![a].tools = ToolIds(run[r].st)] /\ run' = Synced(r, a)
  <2>1. b \in AgentRec(Len(tools)) /\ b.deployed = agents[a].deployed
    BY <1>1, ToolIdsExist, Lengths DEF AgentRec
  <2>2. agents' = [agents EXCEPT ![a] = b]
    BY <1>1, <1>3, Lengths
  <2> HIDE DEF b
  <2>3. /\ agents' \in Seq(AgentRec(Len(tools))) /\ Len(agents') = Len(agents)
        /\ \A x \in 1 .. Len(agents) : agents'[x] = IF x = a THEN b ELSE agents[x]
    BY <1>1, <2>1, <2>2, AgentChanged
  <2>4. UNCHANGED <<tools, disk, alone>> /\ At(r, "agent")
    BY DEF UpdateAgent
  <2>5. Grows /\ a \in 1 .. Len(agents')
    BY <1>1, <2>1, <2>3, <2>4, Lengths DEF Grows
  <2> QED
    BY <1>3, <2>3, <2>4, <2>5, SyncedShape
<1> QED
  BY <1>2, <1>3 DEF UpdateAgent

-----------------------------------------------------------------------------
(* deploy, and the branch before it *)
LEMMA BranchShape ==
  ASSUME Shape, NEW r \in Runs, Branch(r) PROVE Shape'
<1>1. UNCHANGED <<remote, disk, alone>> /\ run[r].pc = "branch"
  BY DEF Branch, At
<1>2. Fails(r) => Shape'
  BY <1>1, EndShape DEF Fails
<1>3. CASE run' = [run EXCEPT ![r].st.branch = TRUE,
                              ![r].pc = IF run[r].cmd = "deploy" THEN "deploy" ELSE "save"]
  <2> DEFINE st == [run[r].st EXCEPT !.branch = TRUE]
             pc == IF run[r].cmd = "deploy" THEN "deploy" ELSE "save"
             c == [run[r] EXCEPT !.st = st, !.pc = pc]
  <2>1. /\ run[r] \in Command(Len(tools), Len(agents)) /\ CommandKnows(run[r], tools, agents)
        /\ run[r].st \in StateRec(Len(tools), Len(agents))
    BY RunTypes
  <2>2. /\ st \in StateRec(Len(tools), Len(agents)) /\ st.agent = run[r].st.agent
        /\ st.status = run[r].st.status /\ st.at = run[r].st.at /\ st.tools = run[r].st.tools
    BY <2>1 DEF StateRec
  <2>3. pc \in Labels /\ pc \in {"deploy", "save"}
    BY DEF Labels
  <2> HIDE DEF st, pc
  <2>4. /\ c \in Command(Len(tools), Len(agents)) /\ c.st = st /\ c.pc = pc
        /\ c.made = run[r].made /\ c.listed = run[r].listed
    BY <2>1, <2>2, <2>3 DEF Command
  <2>5. run' = [run EXCEPT ![r] = c]
    BY <1>3, RunTypes DEF st, pc
  <2> HIDE DEF c
  <2>6. CommandKnows(c, tools, agents)
    BY <1>1, <2>1, <2>2, <2>3, <2>4 DEF CommandKnows, Kept
  <2> QED
    BY <1>1, <2>4, <2>5, <2>6, RunReads DEF Shape
<1> QED
  BY <1>2, <1>3 DEF Branch

LEMMA CreateDeploymentShape ==
  ASSUME Shape, NEW r \in Runs, CreateDeployment(r) PROVE Shape'
<1> DEFINE a == run[r].st.agent
           b == [agents[a] EXCEPT !.deployed = TRUE]
           c == [run[r] EXCEPT !.pc = "look"]
<1>1. /\ run[r].pc = "deploy" /\ UNCHANGED <<tools, disk, alone>>
      /\ run[r] \in Command(Len(tools), Len(agents)) /\ CommandKnows(run[r], tools, agents)
  BY RunTypes DEF CreateDeployment, At
<1>2. a \in 1 .. Len(agents)
  BY <1>1, RunTypes, Lengths DEF CommandKnows, StateRec
<1>3. CASE UNCHANGED agents /\ Fails(r)
  BY <1>1, <1>3, EndShape DEF Fails, remote
<1>4. CASE agents' = [agents EXCEPT ![a].deployed = TRUE] /\ Goto(r, "look")
  <2>1. b \in AgentRec(Len(tools)) /\ b.deployed
    BY <1>2, Lengths DEF AgentRec
  <2>2. agents' = [agents EXCEPT ![a] = b]
    BY <1>2, <1>4, Lengths
  <2> HIDE DEF b
  <2>3. /\ agents' \in Seq(AgentRec(Len(tools))) /\ Len(agents') = Len(agents)
        /\ \A x \in 1 .. Len(agents) : agents'[x] = IF x = a THEN b ELSE agents[x]
    BY <1>2, <2>1, <2>2, AgentChanged
  <2>4. Grows
    BY <1>1, <2>1, <2>3, Lengths DEF Grows
  <2>5. CommandKnows(run[r], tools', agents')
    BY <1>1, <2>4, StillKnows
  <2>6. /\ c \in Command(Len(tools), Len(agents)) /\ c.pc = "look" /\ c.st = run[r].st
        /\ c.made = run[r].made /\ c.listed = run[r].listed
    BY <1>1 DEF Command, Labels
  <2>7. run' = [run EXCEPT ![r] = c]
    BY <1>4, RunTypes DEF Goto
  <2> HIDE DEF c
  <2>8. CommandKnows(c, tools', agents')
    BY <1>1, <1>2, <2>1, <2>3, <2>5, <2>6 DEF CommandKnows
  <2>9. FileKnows(file', saved', tools', agents') /\ alone' \in BOOLEAN
    <3>1. UNCHANGED <<file, saved, tools, alone>>
      BY <1>1 DEF disk
    <3>2. saved \in StateRec(Len(tools), Len(agents)) /\ Kept(saved, tools, agents)
      BY DEF Shape, FileKnows
    <3>3. Kept(saved, tools', agents')
      BY <2>4, <3>2, StillKept
    <3> QED
      BY <2>3, <3>1, <3>3 DEF Shape, FileKnows
  <2> QED
    BY <1>1, <2>3, <2>4, <2>6, <2>7, <2>8, <2>9, RunMoves DEF Shape
<1> QED
  BY <1>3, <1>4 DEF CreateDeployment

LEMMA IdsOfKnows ==
  ASSUME Shape, NEW ts \in SUBSET (1 .. Len(tools))
  PROVE  /\ IdsOf(ts) \in [Names -> 0 .. Len(tools)] /\ Names2Tools(IdsOf(ts), tools)
         /\ \A n \in Names : IdsOf(ts)[n] # 0 => IdsOf(ts)[n] \in ts
<1>1. ASSUME NEW n \in Names
      PROVE  IdsOf(ts)[n] = 0 \/ (IdsOf(ts)[n] \in ts /\ tools[IdsOf(ts)[n]].name = n)
  BY DEF IdsOf
<1>2. ASSUME NEW n \in Names PROVE IdsOf(ts)[n] \in 0 .. Len(tools)
  <2>1. Len(tools) \in Nat
    BY Lengths
  <2>2. \A i \in ts : i \in 0 .. Len(tools)
    BY <2>1
  <2>3. 0 \in 0 .. Len(tools)
    BY <2>1
  <2> QED
    BY <1>1, <2>2, <2>3
<1>3. IdsOf(ts) = [n \in Names |-> IdsOf(ts)[n]]
  BY DEF IdsOf
<1>4. IdsOf(ts) \in [Names -> 0 .. Len(tools)]
  BY <1>2, <1>3
<1> QED
  BY <1>1, <1>4 DEF Names2Tools

LEMMA LookAtAgentShape ==
  ASSUME Shape, NEW r \in Runs, LookAtAgent(r) PROVE Shape'
<1>1. UNCHANGED <<remote, disk, alone>> /\ run[r].pc = "look"
  BY DEF LookAtAgent, At
<1>2. Fails(r) => Shape'
  BY <1>1, EndShape DEF Fails
<1>3. ASSUME NEW ids \in {run[r].st.tools, IdsOf(agents[run[r].st.agent].tools)},
             run' = Deployed(r, ids)
      PROVE  Shape'
  <2> DEFINE a == run[r].st.agent
             st == State(a, ids, TRUE, "deployed", TRUE)
             c == [run[r] EXCEPT !.st = st, !.pc = "save"]
  <2>1. /\ run[r] \in Command(Len(tools), Len(agents)) /\ CommandKnows(run[r], tools, agents)
        /\ run[r].st \in StateRec(Len(tools), Len(agents)) /\ Kept(run[r].st, tools, agents)
    BY RunTypes
  <2>2. a \in 1 .. Len(agents) /\ a # 0 /\ agents[a].deployed
    BY <1>1, <2>1, Lengths DEF CommandKnows, StateRec
  <2>3. ids \in [Names -> 0 .. Len(tools)] /\ Names2Tools(ids, tools)
    <3>1. agents[a].tools \in SUBSET (1 .. Len(tools))
      BY <2>2, Lengths DEF AgentRec
    <3>2. run[r].st.tools \in [Names -> 0 .. Len(tools)] /\ Names2Tools(run[r].st.tools, tools)
      BY <2>1 DEF StateRec, Kept
    <3> QED
      BY <1>3, <3>1, <3>2, IdsOfKnows
  <2>4. /\ st \in StateRec(Len(tools), Len(agents)) /\ st.agent = a /\ st.at /\ st.tools = ids
        /\ st.status = "deployed"
    BY <2>2, <2>3, Lengths DEF State, StateRec
  <2> HIDE DEF st, a
  <2>5. Kept(st, tools, agents)
    BY <2>2, <2>3, <2>4 DEF Kept
  <2>6. run' = [run EXCEPT ![r] = c]
    BY <1>3, RunTypes DEF Deployed, State, st, a
  <2>7. /\ c \in Command(Len(tools), Len(agents)) /\ c.st = st /\ c.pc = "save"
        /\ c.made = run[r].made /\ c.listed = run[r].listed
    BY <2>1, <2>4 DEF Command, Labels
  <2> HIDE DEF c
  <2>8. CommandKnows(c, tools, agents)
    BY <1>1, <2>1, <2>2, <2>4, <2>5, <2>7 DEF CommandKnows, a
  <2> QED
    BY <1>1, <2>6, <2>7, <2>8, RunReads DEF Shape
<1> QED
  BY <1>2, <1>3 DEF LookAtAgent

-----------------------------------------------------------------------------
(* The file; and what is removed by hand. *)
LEMMA OpenFileShape ==
  ASSUME Shape, NEW r \in Runs, OpenFile(r) PROVE Shape'
<1> DEFINE c == [run[r] EXCEPT !.pc = "write"]
<1>1. /\ run[r] \in Command(Len(tools), Len(agents)) /\ CommandKnows(run[r], tools, agents)
      /\ run[r].pc = "save" /\ UNCHANGED <<tools, agents, saved, alone>> /\ file' = "torn"
  BY RunTypes DEF OpenFile, At, remote
<1>2. /\ c \in Command(Len(tools), Len(agents)) /\ c.pc = "write" /\ c.st = run[r].st
      /\ c.made = run[r].made /\ c.listed = run[r].listed
  BY <1>1 DEF Command, Labels
<1>3. run' = [run EXCEPT ![r] = c]
  BY RunTypes DEF OpenFile, Goto
<1> HIDE DEF c
<1>4. CommandKnows(c, tools, agents)
  BY <1>1, <1>2 DEF CommandKnows
<1>5. FileKnows(file', saved', tools', agents')
  BY <1>1 DEF Shape, FileKnows
<1>6. Grows
  BY <1>1, Lengths DEF Grows
<1> QED
  BY <1>1, <1>2, <1>3, <1>4, <1>5, <1>6, RunMoves DEF Shape

LEMMA WriteFileShape ==
  ASSUME Shape, NEW r \in Runs, WriteFile(r) PROVE Shape'
<1>1. /\ UNCHANGED <<tools, agents, alone>> /\ run[r].pc = "write" /\ file' = "whole"
      /\ saved' = run[r].st /\ Ends(r, "done")
  BY DEF WriteFile, remote, At
<1>2. PICK c \in Command(Len(tools), Len(agents)) :
        run' = [run EXCEPT ![r] = c] /\ CommandKnows(c, tools, agents)
  BY <1>1, EndKnows
<1>3. FileKnows(file', saved', tools', agents')
  BY <1>1, RunTypes DEF FileKnows, CommandKnows
<1>4. Grows
  BY <1>1, Lengths DEF Grows
<1> QED
  BY <1>1, <1>2, <1>3, <1>4, RunMoves DEF Shape

(* What a removal by hand changes: a tool goes, and goes from the agents,  *)
(* or an agent goes.                                                       *)
LEMMA RemoveSteps ==
  ASSUME Shape, Remove
  PROVE  /\ tools' \in Seq(ToolRec) /\ agents' \in Seq(AgentRec(Len(tools)))
         /\ Len(tools') = Len(tools) /\ Len(agents') = Len(agents)
         /\ \A t \in 1 .. Len(tools) :
              tools'[t].name = tools[t].name /\ (tools'[t].live => tools[t].live)
         /\ \A a \in 1 .. Len(agents) :
              /\ agents'[a].deployed = agents[a].deployed
              /\ \A t \in agents[a].tools : tools'[t].live => t \in agents'[a].tools
         /\ UNCHANGED <<disk, run, alone>>
<1>1. UNCHANGED <<disk, run, alone>>
  BY DEF Remove
<1>2. ASSUME NEW t \in DOMAIN tools, tools' = [tools EXCEPT ![t].live = FALSE],
             agents' = [a \in DOMAIN agents |-> [agents[a] EXCEPT !.tools = @ \ {t}]]
      PROVE  /\ tools' \in Seq(ToolRec) /\ agents' \in Seq(AgentRec(Len(tools)))
             /\ Len(tools') = Len(tools) /\ Len(agents') = Len(agents)
             /\ \A u \in 1 .. Len(tools) :
                  tools'[u].name = tools[u].name /\ (tools'[u].live => tools[u].live)
             /\ \A a \in 1 .. Len(agents) :
                  /\ agents'[a].deployed = agents[a].deployed
                  /\ \A u \in agents[a].tools : tools'[u].live => u \in agents'[a].tools
  <2>1. t \in 1 .. Len(tools) /\ tools[t] \in ToolRec
    BY Lengths
  <2>2. \A u \in 1 .. Len(tools) :
          tools'[u] = IF u = t THEN [tools[t] EXCEPT !.live = FALSE] ELSE tools[u]
    BY <1>2, <2>1, Lengths
  <2>3. [tools[t] EXCEPT !.live = FALSE] \in ToolRec
        /\ [tools[t] EXCEPT !.live = FALSE].name = tools[t].name
        /\ [tools[t] EXCEPT !.live = FALSE].live = FALSE
    BY <2>1 DEF ToolRec
  <2>4. tools' \in Seq(ToolRec) /\ Len(tools') = Len(tools)
    BY <1>2, <2>1, <2>3, Lengths
  <2>5. ASSUME NEW a \in 1 .. Len(agents)
        PROVE  /\ agents'[a] \in AgentRec(Len(tools))
               /\ agents'[a].deployed = agents[a].deployed
               /\ agents'[a].tools = agents[a].tools \ {t}
    BY <1>2, Lengths DEF AgentRec
  <2>6. agents' \in Seq(AgentRec(Len(tools))) /\ Len(agents') = Len(agents)
    BY <1>2, <2>5, Lengths
  <2>7. ~tools'[t].live
    BY <2>1, <2>2, <2>3
  <2> QED
    BY <2>2, <2>3, <2>4, <2>5, <2>6, <2>7
<1>3. ASSUME NEW a \in DOMAIN agents, agents' = [agents EXCEPT ![a].live = FALSE], UNCHANGED tools
      PROVE  /\ agents' \in Seq(AgentRec(Len(tools))) /\ Len(agents') = Len(agents)
             /\ \A x \in 1 .. Len(agents) :
                  agents'[x].deployed = agents[x].deployed /\ agents'[x].tools = agents[x].tools
  <2> DEFINE b == [agents[a] EXCEPT !.live = FALSE]
  <2>1. a \in 1 .. Len(agents) /\ agents[a] \in AgentRec(Len(tools))
    BY Lengths
  <2>2. b \in AgentRec(Len(tools)) /\ b.deployed = agents[a].deployed /\ b.tools = agents[a].tools
    BY <2>1 DEF AgentRec
  <2>3. agents' = [agents EXCEPT ![a] = b]
    BY <1>3, <2>1, Lengths
  <2> HIDE DEF b
  <2>4. /\ agents' \in Seq(AgentRec(Len(tools))) /\ Len(agents') = Len(agents)
        /\ \A x \in 1 .. Len(agents) : agents'[x] = IF x = a THEN b ELSE agents[x]
    BY <2>1, <2>2, <2>3, AgentChanged
  <2> QED
    BY <2>2, <2>4
<1>4. CASE \E t \in DOMAIN tools :
             /\ tools' = [tools EXCEPT ![t].live = FALSE]
             /\ agents' = [a \in DOMAIN agents |-> [agents[a] EXCEPT !.tools = @ \ {t}]]
  BY <1>1, <1>2, <1>4
<1>5. CASE \E a \in DOMAIN agents :
             agents' = [agents EXCEPT ![a].live = FALSE] /\ UNCHANGED tools
  BY <1>1, <1>3, <1>5, Lengths
<1> QED
  BY <1>4, <1>5 DEF Remove

LEMMA RemoveShape == Shape /\ Remove => Shape'
<1> SUFFICES ASSUME Shape, Remove PROVE Shape'
  OBVIOUS
<1>1. UNCHANGED <<file, saved, run, alone>>
  BY RemoveSteps DEF disk
<1>2. Grows
  BY RemoveSteps, Lengths DEF Grows
<1>3. ASSUME NEW r \in Runs PROVE CommandKnows(run[r], tools', agents')
  BY <1>2, RunTypes, StillKnows
<1>4. FileKnows(file', saved', tools', agents')
  <2>1. saved \in StateRec(Len(tools), Len(agents)) /\ Kept(saved, tools, agents)
    BY DEF Shape, FileKnows
  <2>2. Kept(saved, tools', agents')
    BY <1>2, <2>1, StillKept
  <2> QED
    BY <1>1, <2>2, RemoveSteps DEF Shape, FileKnows
<1> QED
  BY <1>1, <1>3, <1>4, RemoveSteps DEF Shape

LEMMA NextShape == Shape /\ [Next]_vars => Shape'
<1> SUFFICES ASSUME Shape, [Next]_vars PROVE Shape'
  OBVIOUS
<1>1. UNCHANGED vars => Shape'
  BY DEF vars, remote, disk, Shape
<1>2. ASSUME NEW r \in Runs, Step(r) PROVE Shape'
  BY <1>2, ProvisionShape, DeployShape, RefuseShape, ListToolsShape, UpdateToolShape,
     CreateToolShape, CreateAgentShape, UpdateAgentShape, BranchShape, CreateDeploymentShape,
     LookAtAgentShape, OpenFileShape, WriteFileShape DEF Step
<1> QED
  BY <1>1, <1>2, RemoveShape DEF Next

THEOREM ShapeHolds == Spec => []Shape
  BY InitShape, NextShape, PTL DEF Spec

(* Records have their types, and ids name what was created. *)
THEOREM TypeCorrect == Spec => []TypeOK
<1>1. Shape => TypeOK
  <2> SUFFICES ASSUME Shape PROVE TypeOK
    OBVIOUS
  <2>1. ASSUME NEW st \in StateRec(Len(tools), Len(agents)), Kept(st, tools, agents)
        PROVE  StateOK(st)
    BY <2>1 DEF StateOK, StateRec, Kept, Ids
  <2>2. StateOK(saved) /\ (file = "whole" => saved.agent # 0) /\ file \in {"none", "torn", "whole"}
    BY <2>1 DEF Shape, FileKnows
  <2>3. ASSUME NEW r \in Runs
        PROVE  /\ run[r].pc \in Labels
               /\ run[r].cmd \in {"none", "provision", "deploy"}
               /\ run[r].listed \in Ids
               /\ run[r].made \in 0 .. Len(agents)
               /\ StateOK(run[r].st)
               /\ run[r].pc \in {"branch", "deploy", "look", "save", "write"} => run[r].st.agent # 0
    BY <2>1, RunTypes DEF Command, CommandKnows, Ids
  <2> QED
    BY <2>2, <2>3, Lengths DEF TypeOK, Shape, ToolRec, AgentRec
<1> QED
  BY <1>1, ShapeHolds, PTL

(* A time of deployment in the file, or in a command's copy of it, is one  *)
(* of the agent named beside it, however commands overlap.                 *)
THEOREM DeploymentsAreTrue == Spec => []DeployedIsTrue
<1>1. Shape => DeployedIsTrue
  <2> SUFFICES ASSUME Shape PROVE DeployedIsTrue
    OBVIOUS
  <2>1. Kept(saved, tools, agents) /\ \A r \in Runs : Kept(run[r].st, tools, agents)
    BY RunTypes DEF Shape, FileKnows
  <2> QED
    BY <2>1 DEF DeployedIsTrue, Kept
<1> QED
  BY <1>1, ShapeHolds, PTL

-----------------------------------------------------------------------------
(* As long as commands never overlapped.  What a command has in hand: the  *)
(* agent on file, if there is one; the id of every live tool of a name it  *)
(* is yet to come to; what the file lists, until its agent is updated; and *)
(* then nothing that is not attached to its agent.                         *)
Attached(st) ==
  \A n \in Names : (st.tools[n] # 0 /\ tools[st.tools[n]].live) =>
    st.tools[n] \in agents[st.agent].tools

InHand(c) ==
  /\ (c.pc \notin {"idle", "done", "failed"} /\ saved.agent # 0) => c.st.agent = saved.agent
  /\ c.pc = "tool" => \A n \in Names : (c.listed[n] = 0 /\ c.st.tools[n] = 0) => Live(n) = {}
  /\ (file = "whole" /\ c.pc \in {"list", "tool", "agent"}) =>
       \A n \in Names : (saved.tools[n] # 0 /\ tools[saved.tools[n]].live) =>
         c.st.tools[n] = saved.tools[n]
  /\ c.pc \in {"branch", "deploy", "look", "save", "write"} => Attached(c.st)

NamedOnce ==
  \A t, u \in DOMAIN tools :
    (tools[t].live /\ tools[u].live /\ tools[t].name = tools[u].name) => t = u

OneAgent ==
  \A a \in DOMAIN agents : a = saved.agent \/ \E r \in Runs : run[r].made = a /\ ~At(r, "done")

Alone ==
  /\ \A r, q \in Runs : UnderWay(r) /\ UnderWay(q) => r = q
  /\ NamedOnce
  /\ OneAgent
  /\ file = "whole" => Attached(saved)
  /\ \A r \in Runs : InHand(run[r])

LEMMA InitAlone == Init => Alone
<1> SUFFICES ASSUME Init PROVE Alone
  OBVIOUS
<1>1. \A r \in Runs : run[r].pc = "idle"
  BY DEF Init
<1>2. DOMAIN tools = {} /\ DOMAIN agents = {} /\ file = "none"
  BY DEF Init
<1> QED
  BY <1>1, <1>2 DEF Alone, UnderWay, NamedOnce, OneAgent, InHand

(* The command under way moves on, or one begins when none is under way.   *)
LEMMA OneMoves ==
  ASSUME NEW r \in Runs, \A q \in Runs \ {r} : run'[q] = run[q] /\ ~UnderWay(q),
         NamedOnce', OneAgent', file' = "whole" => Attached(saved)', InHand(run[r])'
  PROVE  Alone'
<1>1. ASSUME NEW q \in Runs \ {r} PROVE InHand(run[q])' /\ ~UnderWay(q)'
  BY DEF UnderWay, InHand
<1> QED
  BY <1>1 DEF Alone

LEMMA OthersWait ==
  ASSUME Alone, NEW r \in Runs, UnderWay(r)
  PROVE  \A q \in Runs \ {r} : ~UnderWay(q)
  BY DEF Alone

(* The commands' agents are on record while the provider's and the file's  *)
(* are the same.                                                           *)
LEMMA OneAgentKept ==
  ASSUME Alone, NEW r \in Runs, \A q \in Runs \ {r} : run'[q] = run[q],
         run'[r].made = run[r].made, run'[r].pc # "done",
         DOMAIN agents' = DOMAIN agents, saved' = saved
  PROVE  OneAgent'
<1> SUFFICES ASSUME NEW a \in DOMAIN agents, a # saved.agent
             PROVE  \E q \in Runs : run'[q].made = a /\ run'[q].pc # "done"
  BY DEF OneAgent, At
<1>1. PICK q \in Runs : run[q].made = a /\ run[q].pc # "done"
  BY DEF Alone, OneAgent, At
<1> QED
  BY <1>1

LEMMA ReadAlone ==
  ASSUME Shape, Alone, NEW r \in Runs, \A q \in Runs \ {r} : run'[q] = run[q] /\ ~UnderWay(q),
         run'[r].made = run[r].made, run'[r].pc # "done", UNCHANGED <<remote, disk>>,
         InHand(run[r])'
  PROVE  Alone'
<1>1. UNCHANGED <<tools, agents, file, saved>>
  BY DEF remote, disk
<1>2. OneAgent'
  BY <1>1, OneAgentKept
<1>3. NamedOnce' /\ (file' = "whole" => Attached(saved)')
  BY <1>1 DEF Alone, NamedOnce, Attached
<1> QED
  BY <1>2, <1>3, OneMoves

LEMMA StartAlone ==
  ASSUME Shape, Alone, NEW r \in Runs, Provision(r) \/ Deploy(r), alone'
  PROVE  Alone'
<1>1. PICK c : Starts(r, c) /\ c.made = run[r].made /\ c.pc \notin {"idle", "done", "failed", "tool"}
               /\ \/ c.st = OnFile /\ c.pc = "list"
                  \/ c.st = saved /\ file = "whole" /\ c.pc \in {"branch", "deploy"}
  <2>1. run[r] \in Command(Len(tools), Len(agents))
    BY RunTypes
  <2>2. CASE Provision(r)
    <3>1. PICK m \in Manifests :
            Starts(r, [run[r] EXCEPT !.pc = "list", !.cmd = "provision", !.todo = m, !.st = OnFile])
      BY <2>2 DEF Provision
    <3> DEFINE c == [run[r] EXCEPT !.pc = "list", !.cmd = "provision", !.todo = m, !.st = OnFile]
    <3>2. c.made = run[r].made /\ c.pc = "list" /\ c.st = OnFile
      BY <2>1 DEF Command
    <3> HIDE DEF c
    <3> QED
      BY <3>1, <3>2 DEF c
  <2>3. CASE Deploy(r)
    <3> DEFINE c == [run[r] EXCEPT !.pc = IF saved.branch THEN "deploy" ELSE "branch",
                                   !.cmd = "deploy", !.st = saved]
    <3>1. c.made = run[r].made /\ c.pc \in {"branch", "deploy"} /\ c.st = saved
      BY <2>1 DEF Command
    <3>2. Starts(r, c) /\ file = "whole"
      BY <2>3 DEF Deploy
    <3> HIDE DEF c
    <3> QED
      BY <3>1, <3>2
  <2> QED
    BY <2>2, <2>3
<1>2. \A q \in Runs : ~UnderWay(q)
  BY <1>1 DEF Starts
<1>3. UNCHANGED <<remote, disk>> /\ run'[r] = c /\ \A q \in Runs \ {r} : run'[q] = run[q]
  BY <1>1, RunTypes DEF Starts
<1>4. UNCHANGED <<tools, agents, file, saved>>
  BY <1>3 DEF remote, disk
<1>5. file # "none" \/ saved.agent = 0
  BY Lengths, NoStateKnows DEF Shape, FileKnows
<1>6. CASE c.st = OnFile /\ c.pc = "list"
  <2>1. file \in {"none", "whole"} => (saved.agent # 0 => c.st.agent = saved.agent)
    BY <1>5, <1>6 DEF OnFile
  <2>2. file # "torn"
    BY <1>1, <1>6 DEF Provision, Deploy
  <2>3. file = "whole" => c.st = saved
    BY <1>6 DEF OnFile
  <2>4. InHand(c)
    BY <1>6, <2>1, <2>2, <2>3 DEF InHand, Shape, FileKnows
  <2> QED
    BY <1>1, <1>2, <1>3, <1>4, <2>4, ReadAlone DEF InHand, Attached, Live
<1>7. CASE c.st = saved /\ file = "whole" /\ c.pc \in {"branch", "deploy"}
  <2>1. InHand(c)
    BY <1>7 DEF InHand, Alone
  <2> QED
    BY <1>1, <1>2, <1>3, <1>4, <2>1, ReadAlone DEF InHand, Attached, Live
<1> QED
  BY <1>1, <1>6, <1>7

(* A command ends, and leaves the agent it created to be accounted for.    *)
LEMMA EndAlone ==
  ASSUME Shape, Alone, NEW r \in Runs, NEW label \in {"done", "failed"}, Ends(r, label),
         label = "done" => run[r].made = 0, UNCHANGED <<remote, disk>>
  PROVE  Alone'
<1>1. /\ run'[r].pc = label /\ run'[r].made = run[r].made
      /\ \A q \in Runs \ {r} : run'[q] = run[q]
      /\ UNCHANGED <<tools, agents, file, saved>>
  BY RunTypes DEF Ends, remote, disk
<1>2. \A a \in DOMAIN agents : a # 0
  BY Lengths
<1>3. OneAgent'
  BY <1>1, <1>2 DEF Alone, OneAgent, At
<1>4. \A q \in Runs : UnderWay(q)' => UnderWay(q) /\ q # r
  BY <1>1 DEF UnderWay
<1>5. ASSUME NEW q \in Runs PROVE InHand(run[q])'
  <2>1. CASE q = r
    BY <1>1, <2>1 DEF InHand
  <2>2. CASE q # r
    BY <1>1, <2>2 DEF Alone, InHand, Attached, Live
  <2> QED
    BY <2>1, <2>2
<1> QED
  BY <1>1, <1>3, <1>4, <1>5 DEF Alone, NamedOnce, Attached

LEMMA FailAlone ==
  ASSUME Shape, Alone, NEW r \in Runs, Fails(r), UNCHANGED <<remote, disk>>
  PROVE  Alone'
  BY EndAlone DEF Fails

LEMMA RefuseAlone ==
  ASSUME Shape, Alone, NEW r \in Runs,
         DryRun(r) \/ RefuseManifest(r) \/ RefuseState(r) \/ Cut(r)
  PROVE  Alone'
<1>1. CASE DryRun(r)
  <2>1. run[r].made = 0
    BY <1>1, RunTypes DEF DryRun, At, CommandKnows
  <2> QED
    BY <1>1, <2>1, EndAlone DEF DryRun
<1> QED
  BY <1>1, FailAlone DEF RefuseManifest, RefuseState, Cut

LEMMA StepAlone ==
  ASSUME Shape, Alone, NEW r \in Runs, NEW c \in Command(Len(tools), Len(agents)),
         run' = [run EXCEPT ![r] = c], UnderWay(r), c.made = run[r].made, c.pc # "done",
         UNCHANGED <<remote, disk>>, InHand(c)
  PROVE  Alone'
<1>1. run'[r] = c /\ \A q \in Runs \ {r} : run'[q] = run[q] /\ ~UnderWay(q)
  BY RunTypes, OthersWait
<1>2. UNCHANGED <<tools, agents, file, saved>>
  BY DEF remote, disk
<1>3. InHand(run[r])'
  BY <1>1, <1>2 DEF InHand, Attached, Live
<1> QED
  BY <1>1, <1>3, ReadAlone

-----------------------------------------------------------------------------
(* ensure_tools: the names that are yet to come are as they were listed.   *)
LEMMA ListToolsAlone ==
  ASSUME Shape, Alone, NEW r \in Runs, ListTools(r) PROVE Alone'
<1>1. PICK ids \in [Names -> 0 .. Len(tools)] :
        /\ \A n \in Names : IF Live(n) = {} THEN ids[n] = 0 ELSE ids[n] \in Live(n)
        /\ run' = [run EXCEPT ![r].listed = ids, ![r].pc = "tool"]
  BY DEF ListTools
<1> DEFINE c == [run[r] EXCEPT !.listed = ids, !.pc = "tool"]
<1>2. run[r] \in Command(Len(tools), Len(agents)) /\ run[r].pc = "list" /\ InHand(run[r])
  BY RunTypes DEF ListTools, At, Alone
<1>3. /\ c \in Command(Len(tools), Len(agents)) /\ c.pc = "tool" /\ c.listed = ids
      /\ c.st = run[r].st /\ c.made = run[r].made
  BY <1>2 DEF Command, Labels
<1>4. run' = [run EXCEPT ![r] = c]
  BY <1>1, RunTypes
<1>5. \A n \in Names : ids[n] = 0 => Live(n) = {}
  BY <1>1, Lengths DEF Live
<1> HIDE DEF c
<1>6. InHand(c)
  BY <1>2, <1>3, <1>5 DEF InHand
<1>7. UnderWay(r) /\ UNCHANGED <<remote, disk>>
  BY <1>2 DEF UnderWay, ListTools
<1> QED
  BY <1>2, <1>3, <1>4, <1>6, <1>7, StepAlone

(* What a command has in hand once a tool was sent. *)
LEMMA EnsuredHas ==
  ASSUME Shape, NEW r \in Runs, At(r, "tool"), NEW id, run' = Ensured(r, id)
  PROVE  /\ run'[r].st.agent = run[r].st.agent /\ run'[r].made = run[r].made
         /\ run'[r].st.tools = [run[r].st.tools EXCEPT ![NextTool(r)] = id]
         /\ run'[r].pc \in {"agent", "tool"}
         /\ run'[r].pc = "tool" => run'[r].listed = run[r].listed
         /\ \A q \in Runs \ {r} : run'[q] = run[q]
<1> DEFINE n == NextTool(r)
           rest == Tail(run[r].todo)
           st == [run[r].st EXCEPT !.tools = [@ EXCEPT ![n] = id]]
           c == [run[r] EXCEPT !.st = st, !.todo = rest,
                               !.listed = IF rest = <<>> THEN NoTools ELSE @,
                               !.pc = IF rest = <<>> THEN "agent" ELSE "tool"]
<1>1. run[r] \in Command(Len(tools), Len(agents)) /\ run[r].st \in StateRec(Len(tools), Len(agents))
  BY RunTypes
<1>2. st.agent = run[r].st.agent /\ st.tools = [run[r].st.tools EXCEPT ![n] = id]
  BY <1>1 DEF StateRec
<1>3. run' = [run EXCEPT ![r] = c]
  BY RunTypes DEF Ensured
<1> HIDE DEF st, rest
<1>4. /\ c.st = st /\ c.made = run[r].made /\ c.pc \in {"agent", "tool"}
      /\ c.pc = "tool" => c.listed = run[r].listed
  BY <1>1 DEF Command
<1> HIDE DEF c
<1>5. run'[r] = c /\ \A q \in Runs \ {r} : run'[q] = run[q]
  BY <1>3, RunTypes
<1> QED
  BY <1>2, <1>4, <1>5

LEMMA UpdateToolAlone ==
  ASSUME Shape, Alone, NEW r \in Runs, UpdateTool(r) PROVE Alone'
<1> DEFINE id == Known(r)
           n == NextTool(r)
<1>1. UNCHANGED <<tools, agents, file, saved>> /\ At(r, "tool") /\ id # 0
  BY DEF UpdateTool, remote, disk
<1>2. Fails(r) => Alone'
  BY FailAlone DEF UpdateTool
<1>3. CASE tools[id].live /\ run' = Ensured(r, id)
  <2>1. n \in Names /\ id \in 1 .. Len(tools) /\ tools[id].name = n
    BY <1>1, NextToolKnown, Lengths
  <2>2. run[r].st.tools \in [Names -> 0 .. Len(tools)] /\ InHand(run[r])
    BY RunTypes DEF StateRec, Alone
  <2> HIDE DEF id, n
  <2>3. /\ run'[r].st.agent = run[r].st.agent /\ run'[r].made = run[r].made
        /\ run'[r].st.tools = [run[r].st.tools EXCEPT ![n] = id]
        /\ run'[r].pc \in {"agent", "tool"}
        /\ run'[r].pc = "tool" => run'[r].listed = run[r].listed
        /\ \A q \in Runs \ {r} : run'[q] = run[q]
    BY <1>1, <1>3, EnsuredHas DEF n
  <2>4. \A m \in Names : run'[r].st.tools[m] = IF m = n THEN id ELSE run[r].st.tools[m]
    BY <2>1, <2>2, <2>3
  <2>5. UnderWay(r)
    BY <1>1 DEF At, UnderWay
  <2>6. ASSUME file = "whole", saved.tools[n] # 0, tools[saved.tools[n]].live
        PROVE  saved.tools[n] = id
    <3>1. saved.tools[n] \in 1 .. Len(tools) /\ tools[saved.tools[n]].name = n
      BY <2>1, <2>6, Lengths DEF Shape, FileKnows, Kept, Names2Tools, StateRec
    <3> QED
      BY <1>3, <2>1, <2>6, <3>1, Lengths DEF Alone, NamedOnce
  <2>7. InHand(run[r])'
    <3>1. saved'.agent # 0 => run'[r].st.agent = saved'.agent
      BY <1>1, <2>2, <2>3, <2>5 DEF InHand, UnderWay
    <3>2. run'[r].pc = "tool" =>
            \A m \in Names : (run'[r].listed[m] = 0 /\ run'[r].st.tools[m] = 0) => Live(m)' = {}
      BY <1>1, <2>1, <2>2, <2>3, <2>4 DEF InHand, At, Live
    <3>3. file' = "whole" =>
            \A m \in Names : (saved'.tools[m] # 0 /\ tools'[saved'.tools[m]].live) =>
              run'[r].st.tools[m] = saved'.tools[m]
      BY <1>1, <2>2, <2>4, <2>6 DEF InHand, At
    <3> QED
      BY <2>3, <3>1, <3>2, <3>3 DEF InHand
  <2> QED
    BY <1>1, <2>3, <2>5, <2>7, OthersWait, ReadAlone DEF remote, disk
<1> QED
  BY <1>2, <1>3 DEF UpdateTool

LEMMA CreateToolAlone ==
  ASSUME Shape, Alone, NEW r \in Runs, CreateTool(r) PROVE Alone'
<1> DEFINE k == Len(tools) + 1
           n == NextTool(r)
<1>1. /\ UNCHANGED <<agents, file, saved>> /\ At(r, "tool") /\ run' = Ensured(r, k)
      /\ tools' = Append(tools, NewTool(r)) /\ Known(r) = 0
  BY DEF CreateTool, disk
<1>2. n \in Names /\ NewTool(r) \in ToolRec /\ NewTool(r).name = n
  BY <1>1, NextToolKnown DEF NewTool, ToolRec
<1>3. /\ DOMAIN tools' = 1 .. k /\ k \in Nat /\ k \notin 1 .. Len(tools)
      /\ DOMAIN tools' = 1 .. Len(tools) \cup {k}
      /\ tools'[k].name = n /\ \A t \in 1 .. Len(tools) : tools'[t] = tools[t]
  BY <1>1, <1>2, Lengths
<1>4. /\ run[r].st.tools \in [Names -> 0 .. Len(tools)] /\ InHand(run[r])
      /\ run[r].listed \in [Names -> 0 .. Len(tools)]
  BY RunTypes DEF StateRec, Alone
<1>5. run[r].listed[n] = 0 /\ run[r].st.tools[n] = 0
  BY <1>1 DEF Known
<1>6. Live(n) = {}
  BY <1>1, <1>2, <1>4, <1>5 DEF InHand, At
<1>7. /\ run'[r].st.agent = run[r].st.agent /\ run'[r].made = run[r].made
      /\ run'[r].st.tools = [run[r].st.tools EXCEPT ![n] = k]
      /\ run'[r].pc \in {"agent", "tool"}
      /\ run'[r].pc = "tool" => run'[r].listed = run[r].listed
      /\ \A q \in Runs \ {r} : run'[q] = run[q]
  BY <1>1, EnsuredHas
<1> HIDE DEF k, n
<1>8. UnderWay(r)
  BY <1>1 DEF At, UnderWay
<1>9. NamedOnce'
  <2>1. \A t \in 1 .. Len(tools) : ~(tools[t].live /\ tools[t].name = n)
    BY <1>6, Lengths DEF Live
  <2>2. \A t, u \in 1 .. Len(tools) :
          (tools[t].live /\ tools[u].live /\ tools[t].name = tools[u].name) => t = u
    BY Lengths DEF NamedOnce, Alone
  <2> QED
    BY <1>3, <2>1, <2>2 DEF NamedOnce
<1>10. OneAgent'
  BY <1>1, <1>7, OneAgentKept
<1>11. \A m \in Names : saved.tools[m] \in 0 .. Len(tools)
  BY DEF Shape, FileKnows, StateRec
<1>12. \A m \in Names : saved'.tools[m] # 0 /\ tools'[saved'.tools[m]].live =>
         saved.tools[m] \in 1 .. Len(tools) /\ tools[saved.tools[m]].live
  BY <1>1, <1>3, <1>11, Lengths
<1>13. file' = "whole" => Attached(saved)'
  BY <1>1, <1>11, <1>12, Lengths DEF Attached, Alone
<1>14. \A m \in Names : run'[r].st.tools[m] = IF m = n THEN k ELSE run[r].st.tools[m]
  BY <1>2, <1>4, <1>7
<1>15. \A m \in Names : m # n => Live(m)' = Live(m)
  BY <1>3, Lengths DEF Live
<1>16. InHand(run[r])'
  <2>1. saved'.agent # 0 => run'[r].st.agent = saved'.agent
    BY <1>1, <1>4, <1>7, <1>8 DEF InHand, UnderWay
  <2>2. run'[r].pc = "tool" =>
          \A m \in Names : (run'[r].listed[m] = 0 /\ run'[r].st.tools[m] = 0) => Live(m)' = {}
    <3>1. k # 0
      BY Lengths DEF k
    <3> QED
      BY <1>1, <1>4, <1>7, <1>14, <1>15, <3>1 DEF InHand, At
  <2>3. file' = "whole" =>
          \A m \in Names : (saved'.tools[m] # 0 /\ tools'[saved'.tools[m]].live) =>
            run'[r].st.tools[m] = saved'.tools[m]
    BY <1>1, <1>4, <1>5, <1>12, <1>14, <1>2 DEF InHand, At
  <2> QED
    BY <1>7, <2>1, <2>2, <2>3 DEF InHand
<1> QED
  BY <1>7, <1>8, <1>9, <1>10, <1>13, <1>16, OthersWait, OneMoves

-----------------------------------------------------------------------------
(* ensure_agent: an agent that is on file is the one that is updated.      *)
LEMMA SyncedHas ==
  ASSUME Shape, NEW r \in Runs, NEW a, run' = Synced(r, a)
  PROVE  /\ run'[r].st.agent = a /\ run'[r].st.tools = run[r].st.tools
         /\ run'[r].made = IF run[r].st.agent = a THEN 0 ELSE a
         /\ run'[r].pc \in {"save", "branch"}
         /\ \A q \in Runs \ {r} : run'[q] = run[q]
<1> DEFINE st == [run[r].st EXCEPT !.agent = a, !.status = "synced"]
           made == IF run[r].st.agent = a THEN 0 ELSE a
           c == [run[r] EXCEPT !.st = st, !.made = made,
                               !.pc = IF run[r].st.branch THEN "save" ELSE "branch"]
<1>1. run[r] \in Command(Len(tools), Len(agents)) /\ run[r].st \in StateRec(Len(tools), Len(agents))
  BY RunTypes
<1>2. st.agent = a /\ st.tools = run[r].st.tools
  BY <1>1 DEF StateRec
<1>3. run' = [run EXCEPT ![r] = c]
  BY DEF Synced
<1> HIDE DEF st
<1>4. c.st = st /\ c.made = made /\ c.pc \in {"save", "branch"}
  BY <1>1 DEF Command
<1> HIDE DEF c
<1>5. run'[r] = c /\ \A q \in Runs \ {r} : run'[q] = run[q]
  BY <1>3, RunTypes
<1> QED
  BY <1>2, <1>4, <1>5

LEMMA CreateAgentAlone ==
  ASSUME Shape, Alone, NEW r \in Runs, CreateAgent(r) PROVE Alone'
<1> DEFINE a == Len(agents) + 1
<1>1. /\ UNCHANGED <<tools, file, saved>> /\ run[r].pc = "agent" /\ run[r].st.agent = 0
      /\ agents' = Append(agents, NewAgent(r)) /\ run' = Synced(r, a)
  BY DEF CreateAgent, disk, At
<1>2. run[r].st \in StateRec(Len(tools), Len(agents)) /\ NewAgent(r) \in AgentRec(Len(tools))
  BY RunTypes, ToolIdsExist DEF NewAgent, AgentRec
<1>3. /\ DOMAIN agents' = 1 .. Len(agents) \cup {a} /\ a # 0
      /\ agents'[a].tools = ToolIds(run[r].st)
  BY <1>1, <1>2, AgentAdded, Lengths DEF NewAgent
<1>4. /\ run'[r].st.agent = a /\ run'[r].st.tools = run[r].st.tools /\ run'[r].made = a
      /\ run'[r].pc \in {"save", "branch"} /\ \A q \in Runs \ {r} : run'[q] = run[q]
  BY <1>1, <1>3, SyncedHas
<1> HIDE DEF a
<1>5. UnderWay(r) /\ InHand(run[r]) /\ run[r].made = 0
  BY <1>1, RunTypes DEF UnderWay, Alone, CommandKnows
<1>6. saved.agent = 0 /\ file # "whole"
  BY <1>1, <1>5 DEF InHand, UnderWay, Shape, FileKnows
<1>7. OneAgent'
  <2> SUFFICES ASSUME NEW b \in DOMAIN agents'
               PROVE  \E q \in Runs : run'[q].made = b /\ run'[q].pc # "done"
    BY DEF OneAgent, At
  <2>1. CASE b = a
    BY <1>4, <2>1
  <2>2. CASE b # a
    <3>1. b \in 1 .. Len(agents) /\ b # 0
      BY <1>3, <2>2, Lengths
    <3>2. PICK q \in Runs : run[q].made = b /\ run[q].pc # "done"
      BY <1>6, <3>1, Lengths DEF Alone, OneAgent, At
    <3> QED
      BY <1>4, <1>5, <3>1, <3>2
  <2> QED
    BY <2>1, <2>2
<1>8. \A n \in Names : run[r].st.tools[n] # 0 => run[r].st.tools[n] \in ToolIds(run[r].st)
  BY <1>2, ToolIdsExist
<1>9. InHand(run[r])'
  BY <1>1, <1>3, <1>4, <1>6, <1>8 DEF InHand, Attached
<1>10. NamedOnce'
  BY <1>1 DEF Alone, NamedOnce
<1> QED
  BY <1>1, <1>4, <1>5, <1>6, <1>7, <1>9, <1>10, OthersWait, OneMoves

LEMMA UpdateAgentAlone ==
  ASSUME Shape, Alone, NEW r \in Runs, UpdateAgent(r) PROVE Alone'
<1> DEFINE a == run[r].st.agent
           b == [agents[a] EXCEPT !.tools = ToolIds(run[r].st)]
<1>1. UNCHANGED <<tools, file, saved>> /\ run[r].pc = "agent" /\ UnderWay(r)
  BY DEF UpdateAgent, disk, At, UnderWay
<1>2. run[r].st \in StateRec(Len(tools), Len(agents)) /\ a \in 1 .. Len(agents)
  BY RunTypes, Lengths DEF UpdateAgent, StateRec
<1>3. CASE UNCHANGED agents /\ Fails(r)
  BY <1>1, <1>3, FailAlone DEF remote, disk
<1>4. CASE agents' = [agents EXCEPT ![a].tools = ToolIds(run[r].st)] /\ run' = Synced(r, a)
  <2>1. b \in AgentRec(Len(tools)) /\ b.tools = ToolIds(run[r].st)
    BY <1>2, ToolIdsExist, Lengths DEF AgentRec
  <2>2. agents' = [agents EXCEPT ![a] = b]
    BY <1>2, <1>4, Lengths
  <2>3. run[r].made = 0 /\ InHand(run[r])
    BY <1>1, RunTypes DEF Alone, CommandKnows
  <2> HIDE DEF b, a
  <2>4. /\ DOMAIN agents' = DOMAIN agents /\ agents'[a].tools = ToolIds(run[r].st)
        /\ \A x \in 1 .. Len(agents) : x # a => agents'[x] = agents[x]
    BY <1>2, <2>1, <2>2, AgentChanged, Lengths
  <2>5. /\ run'[r].st.agent = a /\ run'[r].st.tools = run[r].st.tools /\ run'[r].made = 0
        /\ run'[r].pc \in {"save", "branch"} /\ \A q \in Runs \ {r} : run'[q] = run[q]
    BY <1>4, SyncedHas DEF a
  <2>6. \A n \in Names : run[r].st.tools[n] # 0 => run[r].st.tools[n] \in ToolIds(run[r].st)
    BY <1>2, ToolIdsExist
  <2>7. saved.agent # 0 => saved.agent = a
    BY <1>1, <2>3 DEF InHand, a
  <2>8. OneAgent'
    BY <1>1, <2>3, <2>4, <2>5, OneAgentKept
  <2>9. file' = "whole" => Attached(saved)'
    BY <1>1, <2>3, <2>4, <2>6, <2>7 DEF InHand, Attached, Shape, FileKnows
  <2>10. InHand(run[r])'
    BY <1>1, <2>4, <2>5, <2>6, <2>7 DEF InHand, Attached
  <2>11. NamedOnce'
    BY <1>1 DEF Alone, NamedOnce
  <2> QED
    BY <1>1, <2>5, <2>8, <2>9, <2>10, <2>11, OthersWait, OneMoves
<1> QED
  BY <1>3, <1>4 DEF UpdateAgent

-----------------------------------------------------------------------------
(* deploy, and the branch before it: the agent keeps its tools.            *)
LEMMA BranchAlone ==
  ASSUME Shape, Alone, NEW r \in Runs, Branch(r) PROVE Alone'
<1>1. UNCHANGED <<remote, disk>> /\ run[r].pc = "branch" /\ UnderWay(r)
  BY DEF Branch, At, UnderWay
<1>2. Fails(r) => Alone'
  BY <1>1, FailAlone
<1>3. CASE run' = [run EXCEPT ![r].st.branch = TRUE,
                              ![r].pc = IF run[r].cmd = "deploy" THEN "deploy" ELSE "save"]
  <2> DEFINE st == [run[r].st EXCEPT !.branch = TRUE]
             pc == IF run[r].cmd = "deploy" THEN "deploy" ELSE "save"
             c == [run[r] EXCEPT !.st = st, !.pc = pc]
  <2>1. /\ run[r] \in Command(Len(tools), Len(agents)) /\ InHand(run[r])
        /\ run[r].st \in StateRec(Len(tools), Len(agents))
    BY RunTypes DEF Alone
  <2>2. /\ st \in StateRec(Len(tools), Len(agents)) /\ st.agent = run[r].st.agent
        /\ st.tools = run[r].st.tools
    BY <2>1 DEF StateRec
  <2>3. pc \in Labels /\ pc \in {"deploy", "save"}
    BY DEF Labels
  <2> HIDE DEF st, pc
  <2>4. c \in Command(Len(tools), Len(agents)) /\ c.st = st /\ c.pc = pc /\ c.made = run[r].made
    BY <2>1, <2>2, <2>3 DEF Command
  <2>5. run' = [run EXCEPT ![r] = c]
    BY <1>3, RunTypes DEF st, pc
  <2> HIDE DEF c
  <2>6. InHand(c)
    BY <1>1, <2>1, <2>2, <2>3, <2>4 DEF InHand, Attached
  <2> QED
    BY <1>1, <2>3, <2>4, <2>5, <2>6, StepAlone
<1> QED
  BY <1>2, <1>3 DEF Branch

LEMMA CreateDeploymentAlone ==
  ASSUME Shape, Alone, NEW r \in Runs, CreateDeployment(r) PROVE Alone'
<1> DEFINE a == run[r].st.agent
           b == [agents[a] EXCEPT !.deployed = TRUE]
           c == [run[r] EXCEPT !.pc = "look"]
<1>1. /\ run[r].pc = "deploy" /\ UNCHANGED <<tools, file, saved>> /\ UnderWay(r)
      /\ run[r] \in Command(Len(tools), Len(agents)) /\ InHand(run[r])
  BY RunTypes DEF CreateDeployment, At, UnderWay, Alone, disk
<1>2. a \in 1 .. Len(agents)
  BY <1>1, RunTypes, Lengths DEF CommandKnows, StateRec
<1>3. CASE UNCHANGED agents /\ Fails(r)
  BY <1>1, <1>3, FailAlone DEF remote, disk
<1>4. CASE agents' = [agents EXCEPT ![a].deployed = TRUE] /\ Goto(r, "look")
  <2>1. b \in AgentRec(Len(tools)) /\ b.tools = agents[a].tools
    BY <1>2, Lengths DEF AgentRec
  <2>2. agents' = [agents EXCEPT ![a] = b]
    BY <1>2, <1>4, Lengths
  <2> HIDE DEF b
  <2>3. /\ DOMAIN agents' = 1 .. Len(agents) /\ DOMAIN agents = 1 .. Len(agents)
        /\ \A x \in 1 .. Len(agents) : agents'[x].tools = agents[x].tools
    BY <1>2, <2>1, <2>2, AgentChanged, Lengths
  <2>4. c.pc = "look" /\ c.st = run[r].st /\ c.made = run[r].made
    BY <1>1 DEF Command
  <2>5. run' = [run EXCEPT ![r] = c]
    BY <1>4, RunTypes DEF Goto
  <2> HIDE DEF c, a
  <2>6. run'[r] = c /\ \A q \in Runs \ {r} : run'[q] = run[q]
    BY <2>5, RunTypes
  <2>7. OneAgent'
    BY <1>1, <2>3, <2>4, <2>6, OneAgentKept
  <2>8. run[r].st.agent \in 1 .. Len(agents)
    BY <1>2 DEF a
  <2>9. InHand(run[r])'
    BY <1>1, <2>3, <2>4, <2>6, <2>8 DEF InHand, Attached
  <2>10. file = "whole" => saved.agent \in 1 .. Len(agents)
    BY Lengths DEF Shape, FileKnows, StateRec
  <2>11. file' = "whole" => Attached(saved)'
    BY <1>1, <2>3, <2>10 DEF Alone, Attached
  <2>12. NamedOnce'
    BY <1>1 DEF Alone, NamedOnce
  <2> QED
    BY <1>1, <2>6, <2>7, <2>9, <2>11, <2>12, OthersWait, OneMoves
<1> QED
  BY <1>3, <1>4 DEF CreateDeployment

(* What the answer lists is attached to the agent, and so is what is kept. *)
LEMMA LookAtAgentAlone ==
  ASSUME Shape, Alone, NEW r \in Runs, LookAtAgent(r) PROVE Alone'
<1>1. UNCHANGED <<remote, disk>> /\ run[r].pc = "look" /\ UnderWay(r)
  BY DEF LookAtAgent, At, UnderWay
<1>2. Fails(r) => Alone'
  BY <1>1, FailAlone
<1>3. ASSUME NEW ids \in {run[r].st.tools, IdsOf(agents[run[r].st.agent].tools)},
             run' = Deployed(r, ids)
      PROVE  Alone'
  <2> DEFINE a == run[r].st.agent
             st == State(a, ids, TRUE, "deployed", TRUE)
             c == [run[r] EXCEPT !.st = st, !.pc = "save"]
  <2>1. /\ run[r] \in Command(Len(tools), Len(agents)) /\ CommandKnows(run[r], tools, agents)
        /\ run[r].st \in StateRec(Len(tools), Len(agents)) /\ InHand(run[r])
    BY RunTypes DEF Alone
  <2>2. a \in 1 .. Len(agents)
    BY <1>1, <2>1, Lengths DEF CommandKnows, StateRec
  <2>3. agents[a].tools \in SUBSET (1 .. Len(tools))
    BY <2>2, Lengths DEF AgentRec
  <2>4. ids \in [Names -> 0 .. Len(tools)]
    BY <1>3, <2>1, <2>3, IdsOfKnows DEF StateRec
  <2>5. \A n \in Names : (ids[n] # 0 /\ tools[ids[n]].live) => ids[n] \in agents[a].tools
    <3>1. CASE ids = run[r].st.tools
      BY <1>1, <2>1, <3>1 DEF InHand, Attached
    <3>2. CASE ids = IdsOf(agents[a].tools)
      BY <2>3, <3>2, IdsOfKnows
    <3> QED
      BY <1>3, <3>1, <3>2
  <2>6. st \in StateRec(Len(tools), Len(agents)) /\ st.agent = a /\ st.tools = ids
    BY <2>2, <2>4, Lengths DEF State, StateRec
  <2> HIDE DEF st, a
  <2>7. run' = [run EXCEPT ![r] = c]
    BY <1>3, RunTypes DEF Deployed, State, st, a
  <2>8. c \in Command(Len(tools), Len(agents)) /\ c.st = st /\ c.pc = "save" /\ c.made = run[r].made
    BY <2>1, <2>6 DEF Command, Labels
  <2> HIDE DEF c
  <2>9. InHand(c)
    BY <1>1, <2>1, <2>5, <2>6, <2>8 DEF InHand, Attached, a
  <2> QED
    BY <1>1, <2>7, <2>8, <2>9, StepAlone
<1> QED
  BY <1>2, <1>3 DEF LookAtAgent

-----------------------------------------------------------------------------
(* The file; and what is removed by hand.                                  *)
LEMMA OpenFileAlone ==
  ASSUME Shape, Alone, NEW r \in Runs, OpenFile(r) PROVE Alone'
<1> DEFINE c == [run[r] EXCEPT !.pc = "write"]
<1>1. /\ run[r] \in Command(Len(tools), Len(agents)) /\ InHand(run[r]) /\ UnderWay(r)
      /\ run[r].pc = "save" /\ UNCHANGED <<tools, agents, saved>> /\ file' = "torn"
  BY RunTypes DEF OpenFile, At, remote, Alone, UnderWay
<1>2. c.pc = "write" /\ c.st = run[r].st /\ c.made = run[r].made
  BY <1>1 DEF Command
<1>3. run' = [run EXCEPT ![r] = c]
  BY RunTypes DEF OpenFile, Goto
<1> HIDE DEF c
<1>4. run'[r] = c /\ \A q \in Runs \ {r} : run'[q] = run[q]
  BY <1>3, RunTypes
<1>5. OneAgent'
  BY <1>1, <1>2, <1>4, OneAgentKept
<1>6. InHand(run[r])'
  BY <1>1, <1>2, <1>4 DEF InHand, Attached
<1>7. NamedOnce'
  BY <1>1 DEF Alone, NamedOnce
<1> QED
  BY <1>1, <1>4, <1>5, <1>6, <1>7, OthersWait, OneMoves

(* The file names the agent it named, or the one the command created.      *)
LEMMA WriteFileAlone ==
  ASSUME Shape, Alone, NEW r \in Runs, WriteFile(r) PROVE Alone'
<1>1. /\ UNCHANGED <<tools, agents>> /\ run[r].pc = "write" /\ file' = "whole"
      /\ saved' = run[r].st /\ Ends(r, "done") /\ UnderWay(r)
  BY DEF WriteFile, remote, At, UnderWay
<1>2. run'[r].pc = "done" /\ \A q \in Runs \ {r} : run'[q] = run[q]
  BY <1>1, RunTypes DEF Ends
<1>3. InHand(run[r]) /\ CommandKnows(run[r], tools, agents)
  BY RunTypes DEF Alone
<1>4. OneAgent'
  <2> SUFFICES ASSUME NEW a \in DOMAIN agents, a # run[r].st.agent
               PROVE  \E q \in Runs : run'[q].made = a /\ run'[q].pc # "done"
    BY <1>1 DEF OneAgent, At
  <2>1. a # 0
    BY Lengths
  <2>2. a # saved.agent
    BY <1>1, <1>3, <2>1 DEF InHand
  <2>3. PICK q \in Runs : run[q].made = a /\ run[q].pc # "done"
    BY <2>2 DEF Alone, OneAgent, At
  <2>4. q # r
    BY <1>1, <1>3, <2>1, <2>3 DEF CommandKnows
  <2> QED
    BY <1>2, <2>3, <2>4
<1>5. Attached(saved)'
  BY <1>1, <1>3 DEF InHand, Attached
<1>6. InHand(run[r])'
  BY <1>2 DEF InHand
<1>7. NamedOnce'
  BY <1>1 DEF Alone, NamedOnce
<1> QED
  BY <1>1, <1>2, <1>4, <1>5, <1>6, <1>7, OthersWait, OneMoves

LEMMA RemoveAlone ==
  ASSUME Shape, Alone, Remove PROVE Alone'
<1>1. /\ UNCHANGED <<file, saved, run>> /\ DOMAIN agents' = DOMAIN agents
      /\ DOMAIN tools = 1 .. Len(tools) /\ DOMAIN tools' = 1 .. Len(tools)
      /\ \A t \in 1 .. Len(tools) :
           tools'[t].name = tools[t].name /\ (tools'[t].live => tools[t].live)
      /\ \A a \in 1 .. Len(agents) :
           \A t \in agents[a].tools : tools'[t].live => t \in agents'[a].tools
  BY RemoveSteps, Lengths DEF disk
<1>2. NamedOnce'
  BY <1>1 DEF Alone, NamedOnce
<1>3. OneAgent'
  BY <1>1 DEF Alone, OneAgent, At
<1>4. \A n \in Names : Live(n)' \subseteq Live(n)
  BY <1>1 DEF Live
<1>5. ASSUME NEW st \in StateRec(Len(tools), Len(agents)), st.agent # 0, Attached(st)
      PROVE  \A n \in Names : (st.tools[n] # 0 /\ tools'[st.tools[n]].live) =>
               st.tools[n] \in agents'[st.agent].tools
  <2>1. \A n \in Names : st.tools[n] # 0 => st.tools[n] \in 1 .. Len(tools)
    BY Lengths DEF StateRec
  <2>2. st.agent \in 1 .. Len(agents)
    BY <1>5, Lengths DEF StateRec
  <2> QED
    BY <1>1, <1>5, <2>1, <2>2 DEF Attached
<1>6. saved \in StateRec(Len(tools), Len(agents)) /\ (file = "whole" => saved.agent # 0)
  BY DEF Shape, FileKnows
<1>7. file' = "whole" => Attached(saved)'
  BY <1>1, <1>5, <1>6 DEF Alone, Attached
<1>8. ASSUME NEW r \in Runs PROVE InHand(run[r])'
  <2>1. InHand(run[r]) /\ CommandKnows(run[r], tools, agents)
        /\ run[r].st \in StateRec(Len(tools), Len(agents))
    BY RunTypes DEF Alone
  <2>2. run[r].pc = "tool" =>
          \A n \in Names : (run[r].listed[n] = 0 /\ run[r].st.tools[n] = 0) => Live(n)' = {}
    BY <1>4, <2>1 DEF InHand
  <2>3. (file = "whole" /\ run[r].pc \in {"list", "tool", "agent"}) =>
          \A n \in Names : (saved.tools[n] # 0 /\ tools'[saved.tools[n]].live) =>
            run[r].st.tools[n] = saved.tools[n]
    <3>1. \A n \in Names : saved.tools[n] # 0 => saved.tools[n] \in 1 .. Len(tools)
      BY <1>6, Lengths DEF StateRec
    <3> QED
      BY <1>1, <2>1, <3>1 DEF InHand
  <2>4. run[r].pc \in {"branch", "deploy", "look", "save", "write"} => Attached(run[r].st)'
    BY <1>1, <1>5, <2>1 DEF InHand, Attached, CommandKnows
  <2> QED
    BY <1>1, <2>1, <2>2, <2>3, <2>4 DEF InHand
<1>9. \A r, q \in Runs : UnderWay(r)' /\ UnderWay(q)' => r = q
  BY <1>1 DEF Alone, UnderWay
<1> QED
  BY <1>2, <1>3, <1>7, <1>8, <1>9 DEF Alone

LEMMA NextAlone == Shape /\ (alone => Alone) /\ [Next]_vars => (alone => Alone)'
<1> SUFFICES ASSUME Shape, alone => Alone, [Next]_vars, alone' PROVE Alone'
  OBVIOUS
<1>1. alone
  <2>1. UNCHANGED vars => alone
    BY DEF vars
  <2>2. Remove => alone
    BY DEF Remove
  <2>3. ASSUME NEW r \in Runs, Step(r) PROVE alone
    BY <2>3 DEF Step, Provision, Deploy, Starts, DryRun, RefuseManifest, RefuseState, ListTools,
       UpdateTool, CreateTool, CreateAgent, UpdateAgent, Branch, CreateDeployment, LookAtAgent,
       OpenFile, WriteFile, Cut
  <2> QED
    BY <2>1, <2>2, <2>3 DEF Next
<1>2. Alone
  BY <1>1
<1>3. CASE UNCHANGED vars
  <2>1. UNCHANGED <<tools, agents, file, saved, run>>
    BY <1>3 DEF vars, remote, disk
  <2>2. NamedOnce' /\ OneAgent' /\ (file' = "whole" => Attached(saved)')
    BY <1>2, <2>1 DEF Alone, NamedOnce, OneAgent, Attached, At
  <2>3. \A r \in Runs : (UnderWay(r)' <=> UnderWay(r)) /\ (InHand(run[r]) => InHand(run[r])')
    <3>1. \A n : Live(n)' = Live(n)
      BY <2>1 DEF Live
    <3>2. \A r : UnderWay(r)' <=> UnderWay(r)
      BY <2>1 DEF UnderWay, At
    <3>3. \A st : Attached(st) => Attached(st)'
      BY <2>1 DEF Attached
    <3>4. \A r \in Runs : InHand(run[r]) => InHand(run[r])'
      BY <2>1, <3>1, <3>3 DEF InHand
    <3> QED
      BY <3>2, <3>4
  <2> QED
    BY <1>2, <2>2, <2>3 DEF Alone
<1>4. ASSUME NEW r \in Runs, Step(r) PROVE Alone'
  BY <1>2, <1>4, StartAlone, RefuseAlone, ListToolsAlone, UpdateToolAlone, CreateToolAlone,
     CreateAgentAlone, UpdateAgentAlone, BranchAlone, CreateDeploymentAlone, LookAtAgentAlone,
     OpenFileAlone, WriteFileAlone DEF Step
<1> QED
  BY <1>2, <1>3, <1>4, RemoveAlone DEF Next

THEOREM AloneHolds == Spec => [](alone => Alone)
<1>1. Init => (alone => Alone)
  BY InitAlone
<1> QED
  BY <1>1, NextAlone, ShapeHolds, PTL DEF Spec

(* Commands that do not overlap never leave two live tools of one name at  *)
(* the provider: provisioning that was cut off finds by name, the next     *)
(* time, what it had created (ensure_tools).                               *)
THEOREM ToolsAreCreatedOnce == Spec => []ToolsOnce
<1>1. (alone => Alone) => ToolsOnce
  BY DEF ToolsOnce, Alone, NamedOnce
<1> QED
  BY <1>1, AloneHolds, PTL

(* Nor do they leave an agent behind that is not on file, but for the one  *)
(* of a command that is under way, or that never came to write it down.    *)
THEOREM AgentIsCreatedOnce == Spec => []AgentOnce
<1>1. (alone => Alone) => AgentOnce
  BY DEF AgentOnce, Alone, OneAgent
<1> QED
  BY <1>1, AloneHolds, PTL

(* Whatever was removed by hand meanwhile, and wherever a command was cut  *)
(* off, each live tool in the file is attached to the agent in the file.   *)
THEOREM ListedStaysAttached == Spec => []ListedIsAttached
<1>1. Shape /\ (alone => Alone) => ListedIsAttached
  <2> SUFFICES ASSUME Shape, Alone, file = "whole", NEW t \in ToolIds(saved), tools[t].live
               PROVE  t \in agents[saved.agent].tools
    BY DEF ListedIsAttached
  <2>1. saved \in StateRec(Len(tools), Len(agents))
    BY DEF Shape, FileKnows
  <2>2. PICK n \in Names : t = saved.tools[n] /\ t # 0
    BY <2>1, ToolIdsExist
  <2> QED
    BY <2>2 DEF Alone, Attached
<1> QED
  BY <1>1, ShapeHolds, AloneHolds, PTL
=============================================================================
