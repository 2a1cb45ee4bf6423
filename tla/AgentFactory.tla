---------------------------- MODULE AgentFactory ----------------------------
(***************************************************************************)
(* What an agent is made of: agents/factory.py, subagents.py, prompts and  *)
(* response_formats.py.  Pure operators.  Left out: the chat model's keys  *)
(* and addresses, tracing, the wording of prompts, and the contents of     *)
(* skill files.                                                            *)
(***************************************************************************)

Type == {"general", "researcher", "coder", "writer"}

SUBAGENT_TYPES == Type \ {"general"}

TOOL_REGISTRY == {"web_search", "search_knowledge_base", "create_file", "read_file",
                  "write_file", "edit_file", "delete_file", "list_files"}

(* The tools of AGENT_PROMPT_REGISTRY; "general" names none.               *)
RecommendedTools ==
  [researcher |-> TOOL_REGISTRY \ {"edit_file", "delete_file"},
   coder |-> TOOL_REGISTRY,
   writer |-> TOOL_REGISTRY \ {"delete_file"}]

(* get_prompt_for_agent_type: a prompt is the type it was written for.     *)
Prompt(type) == IF type \in Type THEN type ELSE "general"

(* _resolve_tools, of the type or of none: what the type recommends, if    *)
(* any of it is registered, else every tool.                               *)
ResolveTools(type) ==
  IF type \in DOMAIN RecommendedTools /\ RecommendedTools[type] \cap TOOL_REGISTRY # {}
  THEN RecommendedTools[type] \cap TOOL_REGISTRY
  ELSE TOOL_REGISTRY

(* _resolve_subagent_tools: the same, but nothing stands in for            *)
(* recommendations of which none is registered.                            *)
ResolveSubagentTools(type) ==
  IF type \in DOMAIN RecommendedTools THEN RecommendedTools[type] \cap TOOL_REGISTRY
                                      ELSE TOOL_REGISTRY

(* build_subagent_configs *)
SubagentConfigs ==
  [type \in SUBAGENT_TYPES |-> [prompt |-> Prompt(type), tools |-> ResolveSubagentTools(type)]]

(* What discover_skills finds: the skills the backend is deployed with.    *)
SystemSkills == {"web-research", "data-analysis", "code-review", "debugging",
                 "content-writing", "editing"}

AGENT_TYPE_SKILLS ==
  [researcher |-> {"web-research", "data-analysis"},
   coder |-> {"code-review", "debugging"},
   writer |-> {"content-writing", "editing"}]

(* resolve_skill_paths, of the type or of none: those of the type that     *)
(* are found, or all.                                                      *)
ResolveSkillPaths(type) ==
  IF type \in DOMAIN AGENT_TYPE_SKILLS THEN AGENT_TYPE_SKILLS[type] \cap SystemSkills
                                       ELSE SystemSkills

(* get_skills_for_agent_type of the prompts, from which the default        *)
(* assistants are given theirs: a registry of its own.                     *)
RecommendedSkills(type) ==
  CASE type = "researcher" -> {"web-research", "data-analysis"}
    [] type = "coder" -> {"code-review", "debugging"}
    [] type = "writer" -> {"content-writing", "editing"}
    [] OTHER -> SystemSkills

RESPONSE_FORMAT_REGISTRY == {"data_extraction", "report", "form_fill", "api_integration"}

(* get_response_format: an unknown name is ignored.                        *)
GetResponseFormat(name) == IF name \in RESPONSE_FORMAT_REGISTRY THEN name ELSE "none"

(* create_deep_agent, as the service calls it: a saver and a store are     *)
(* those of the process, and subagents are always attached.                *)
CreateDeepAgent(type, format, saver, store) ==
  [prompt |-> Prompt(type), tools |-> ResolveTools(type), skills |-> ResolveSkillPaths(type),
   subagents |-> SubagentConfigs, format |-> format, saver |-> saver, store |-> store]
=============================================================================
