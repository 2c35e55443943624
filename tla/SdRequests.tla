----------------------------- MODULE SdRequests -----------------------------
(***************************************************************************)
(* The requests of the stable diffusion service, as data: GenerateReqInput *)
(* (sd/components/io_struct.py) and InferenceExecRequest                   *)
(* (sd/components/messages.py).                                            *)
(*                                                                         *)
(* A request's body is a function on the arguments that it gives; an       *)
(* argument is a list or a single value, [list, vals].  A request to the   *)
(* executors is a function on the fields that have a value.                *)
(***************************************************************************)
EXTENDS Integers, Sequences

BatchableArgs == {"prompt", "neg_prompt", "height", "width", "steps", "guidance_scale",
                  "seed", "input_ids", "neg_input_ids"}

Given(r, a) == a \in DOMAIN r

----------------------------------------------------------------------------
(***************************************************************************)
(* GenerateReqInput.post_init                                              *)
(***************************************************************************)
num_output_images(r) == Len(r[IF Given(r, "prompt") THEN "prompt" ELSE "input_ids"].vals)

Singular(r, a) == r[a].list => Len(r[a].vals) \in {1, num_output_images(r)}

\* It raises ValueError.
Rejected(r) ==
    \/ Given(r, "prompt") <=> Given(r, "input_ids")
    \/ \E a \in BatchableArgs \cap DOMAIN r : ~Singular(r, a)
    \/ Given(r, "rid") /\ ~r["rid"].list
    \/ \E a \in {"height", "width"} :
          ~Given(r, a) \/ \E k \in DOMAIN r[a].vals : r[a].vals[k] # 1024

\* `self.prompt = [str]`: a single prompt becomes the list of the type `str`.
TypeStr == "<class 'str'>"

post_init(r) == IF Given(r, "prompt") /\ ~r["prompt"].list
                THEN [r EXCEPT !["prompt"] = [list |-> TRUE, vals |-> <<TypeStr>>]] ELSE r

----------------------------------------------------------------------------
(***************************************************************************)
(* InferenceExecRequest.from_batch: image k of a request that was accepted *)
(* (no list of it is shorter than k, except those of one element)          *)
(***************************************************************************)
gen_inputs == {"prompt", "neg_prompt", "height", "width", "steps", "guidance_scale", "seed"}

rec_input(v, k) == IF v.list /\ k \in DOMAIN v.vals THEN v.vals[k] ELSE v.vals[1]

from_batch(r, k) == [a \in gen_inputs \cap DOMAIN r |-> rec_input(r[a], k)]

----------------------------------------------------------------------------
(***************************************************************************)
(* InferenceExecRequest.post_init                                          *)
(***************************************************************************)
InferencePhase == <<"PREPARE", "ENCODE", "DENOISE", "DECODE", "POSTPROCESS">>

\* The fields that a phase makes.
Results(p) == CASE p = "PREPARE" -> {"sample", "input_ids"}
                [] p = "ENCODE" -> {"prompt_embeds", "text_embeds"}
                [] p = "DENOISE" -> {"denoised_latents"}
                [] p = "DECODE" -> {"image_array"}
                [] OTHER -> {}

Parameters(p) == CASE p = "DENOISE" -> <<"width", "height", "steps">>
                   [] p = "DECODE" -> <<"width", "height">>
                   [] OTHER -> << >>

\* check_phase
required(q, p) == p = "POSTPROCESS" \/ ~(Results(p) \subseteq DOMAIN q)

metadata(q, p) == [k \in {n \in DOMAIN Parameters(p) : Given(q, Parameters(p)[n])} |->
                     q[Parameters(p)[k]]]

\* The phases from the last one back to the first whose result is there.
phases(q) == {k \in DOMAIN InferencePhase :
                \A n \in k + 1 .. 5 : n \in {1, 2} \/ required(q, InferencePhase[n])}

\* What sort_batches compares.
req_metas(q) == [k \in phases(q) |-> metadata(q, InferencePhase[k])]

\* The tokenizer, which _prepare calls, takes texts only.
Tokenizes(q) == \A a \in {"prompt", "neg_prompt"} : Given(q, a) /\ q[a] # TypeStr
=============================================================================
