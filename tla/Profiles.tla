------------------------------- MODULE Profiles -------------------------------
(***************************************************************************)
(* The state machines of the shipped product profiles (profiles/), as      *)
(* engine/sm_parser.py reads them.  An answer to a question is told apart   *)
(* from others by the state that resume_transitions maps it to; wording,    *)
(* validators and reminders are left out.                                   *)
(*                                                                         *)
(*   initial, terminal, pause   states by their type                        *)
(*   asks       states with ask_user questions                              *)
(*   asksIf     states with an ask_if question, and its condition           *)
(*   edges      the transitions in their order, with their conditions       *)
(*   answers    states an answer leads to, by the state that asks           *)
(*   timed      states with a timeout that may move the run: pause states   *)
(*              and states with on_timeout; in others the engine only tells  *)
(*              its callback                                                *)
(*   policy     hitl.on_timeout, where it is not the default "proceed"      *)
(*   fallback   the state of a policy "default:<answer>"                    *)
(*   onTimeout  temporal.on_timeout                                         *)
(*   reentries  max_reentries of the states that have one                   *)
(*   approval   states the profile's header lets only a person open         *)
(***************************************************************************)
EXTENDS Sequences

\* A transition and its condition, "" for none; one that requires_human
T(from, to, cond) == [from |-> from, to |-> to, cond |-> cond, human |-> FALSE]
ByHuman(from, to) == [T(from, to, "") EXCEPT !.human = TRUE]

None == [s \in {} |-> ""]

Content ==
  [initial |-> "captured", terminal |-> {"archived"}, pause |-> {"draft_review"},
   asks   |-> {"decide_route", "idea_review", "brief_ready", "draft_review"},
   asksIf |-> [brief_ready |-> "reentry_count >= 2", drafting |-> "reentry_count >= 3",
               draft_review |-> "drift_count > 0"],
   edges |-> <<
     T("captured", "decide_route", ""), T("decide_route", "idea_review", ""),
     T("idea_review", "brief_ready", ""), T("idea_review", "captured", ""),
     T("brief_ready", "drafting", ""), T("brief_ready", "idea_review", ""),
     T("drafting", "verification", ""), T("drafting", "drafting", "drift_detected"),
     T("verification", "draft_review", ""), T("verification", "drafting", "drift_detected"),
     T("draft_review", "approved", "human_approved"),
     T("draft_review", "drafting", "changes_requested"),
     T("approved", "published", ""), T("published", "archived", "")>>,
   answers |-> [decide_route |-> {"idea_review"}, idea_review |-> {"brief_ready", "captured"},
                brief_ready |-> {"drafting", "idea_review"},
                draft_review |-> {"approved", "drafting"}],
   timed |-> {}, policy |-> None, fallback |-> None, onTimeout |-> None,
   reentries |-> [captured |-> 1, decide_route |-> 3, idea_review |-> 3, brief_ready |-> 5,
                  drafting |-> 10, verification |-> 10, approved |-> 1, published |-> 1,
                  archived |-> 0],
   approval |-> {"approved"}]

Software ==
  [initial |-> "spec", terminal |-> {"release", "cancelled"}, pause |-> {"review", "blocked"},
   asks   |-> {"spec", "prototyping", "review", "blocked"},
   asksIf |-> [prototyping |-> "reentry_count >= 3", review |-> "reentry_count > 0",
               iteration |-> "iteration_count >= 5 AND iteration_count % 5 == 0"],
   edges |-> <<
     T("spec", "prototyping", ""), T("prototyping", "iteration", "prototype_passes(spec)"),
     T("iteration", "iteration", ""), T("iteration", "review", "iterations >= 4"),
     T("iteration", "blocked", "consecutive_failures >= 3"),
     T("iteration", "cancelled", "max_iterations_exceeded"),
     T("review", "release", "human_approved"), T("review", "iteration", "changes_requested"),
     T("review", "cancelled", "project_abandoned"),
     T("blocked", "iteration", "manual_unblock")>>,
   answers |-> [spec |-> {"prototyping", "spec"}, prototyping |-> {"iteration", "spec"},
                review |-> {"release", "iteration", "prototyping"},
                blocked |-> {"iteration", "spec", "cancelled"}],
   timed |-> {"review"}, policy |-> None,
   fallback |-> None, onTimeout |-> None,
   reentries |-> [spec |-> 1, prototyping |-> 5, iteration |-> 10, release |-> 0,
                  cancelled |-> 0],
   approval |-> {"release"}]

Haber ==
  [initial |-> "captured", terminal |-> {"archived"},
   pause  |-> {"published", "correction_needed"},
   asks   |-> {"captured", "fact_checking", "published", "correction_needed"},
   asksIf |-> [cross_verified |-> "drift_count > 0", published |-> "reentry_count > 0",
               correction_needed |-> "reentry_count >= 2"],
   edges |-> <<
     T("captured", "fact_checking", ""), T("captured", "archived", "project_abandoned"),
     T("fact_checking", "cross_verified", ""),
     T("fact_checking", "archived", "max_iterations_exceeded"),
     T("cross_verified", "published", "human_approved"),
     T("cross_verified", "fact_checking", "changes_requested"),
     T("cross_verified", "archived", "project_abandoned"),
     T("published", "published_active", "human_approved"),
     T("published", "correction_needed", "changes_requested"),
     T("published_active", "correction_needed", "drift_detected"),
     T("correction_needed", "corrected", "human_approved"),
     T("correction_needed", "retracted", "project_abandoned"),
     T("corrected", "archived", ""), T("retracted", "archived", "")>>,
   answers |-> [captured |-> {"fact_checking", "archived"}, fact_checking |-> {"cross_verified"},
                cross_verified |-> {"published", "fact_checking", "archived"},
                published |-> {"published_active", "correction_needed"},
                correction_needed |-> {"corrected", "retracted"}],
   timed |-> {}, policy |-> None, fallback |-> None, onTimeout |-> None,
   reentries |-> [captured |-> 1, fact_checking |-> 3, cross_verified |-> 2, published |-> 1,
                  published_active |-> 0, correction_needed |-> 3, corrected |-> 1,
                  retracted |-> 0, archived |-> 0],
   approval |-> {"published", "published_active", "corrected"}]

Design ==
  [initial |-> "brief", terminal |-> {"handoff"}, pause |-> {"review"},
   asks   |-> {"brief", "research", "wireframe", "prototype", "review"},
   asksIf |-> [sketch |-> "reentry_count >= 3", mockup |-> "drift_count > 0",
               review |-> "reentry_count > 0"],
   edges |-> <<
     T("brief", "research", "brief_approved"), T("research", "sketch", "research_complete"),
     T("sketch", "wireframe", "sketch_approved"), T("sketch", "sketch", "drift_detected"),
     T("wireframe", "mockup", "wireframe_approved"),
     T("wireframe", "sketch", "major_changes_needed"),
     T("mockup", "prototype", "mockup_approved"),
     T("mockup", "wireframe", "structure_changes_needed"),
     T("prototype", "review", "prototype_ready"),
     T("prototype", "mockup", "visual_changes_needed"),
     T("prototype", "prototype", "drift_detected"),
     T("review", "handoff", "review_approved"), T("review", "prototype", "changes_requested")>>,
   answers |-> [brief |-> {"research", "brief"}, wireframe |-> {"mockup", "sketch"},
                prototype |-> {"review", "mockup"},
                review |-> {"handoff", "prototype", "wireframe"}],
   timed |-> {"review"},
   policy |-> None, fallback |-> None, onTimeout |-> None,
   reentries |-> [brief |-> 1, research |-> 3, sketch |-> 5, wireframe |-> 5, mockup |-> 8,
                  prototype |-> 8, handoff |-> 0],
   approval |-> {"handoff"}]

Research ==
  [initial |-> "topic_selected", terminal |-> {"archived"}, pause |-> {"peer_review"},
   asks   |-> {"topic_selected", "hypothesis", "paper_draft", "peer_review"},
   asksIf |-> [literature_review |-> "reentry_count >= 3", experiment_design |-> "drift_count > 0",
               peer_review |-> "reentry_count > 0"],
   edges |-> <<
     T("topic_selected", "literature_review", ""),
     T("literature_review", "hypothesis", "lit_review_complete"),
     T("hypothesis", "experiment_design", "hypothesis_approved"),
     T("hypothesis", "literature_review", "lit_review_needed"),
     T("experiment_design", "data_collection", "design_approved"),
     T("experiment_design", "hypothesis", "hypothesis_revision_needed"),
     T("data_collection", "analysis", "data_ready"),
     T("data_collection", "experiment_design", "design_revision_needed"),
     T("analysis", "paper_draft", "analysis_complete"),
     T("analysis", "data_collection", "more_data_needed"),
     T("paper_draft", "peer_review", "draft_ready"),
     T("paper_draft", "paper_draft", "drift_detected"),
     T("peer_review", "published", "review_approved"),
     T("peer_review", "paper_draft", "revisions_requested"),
     T("published", "archived", "")>>,
   answers |-> [topic_selected |-> {"literature_review", "topic_selected"},
                hypothesis |-> {"experiment_design", "literature_review"},
                paper_draft |-> {"peer_review", "paper_draft"},
                peer_review |-> {"published", "paper_draft"}],
   timed |-> {"peer_review"},
   policy |-> None, fallback |-> None, onTimeout |-> None,
   reentries |-> [topic_selected |-> 1, literature_review |-> 5, hypothesis |-> 3,
                  experiment_design |-> 5, data_collection |-> 5, analysis |-> 5,
                  paper_draft |-> 10, published |-> 1, archived |-> 0],
   approval |-> {"published"}]
=============================================================================
