----------------------------- MODULE MCSdService -----------------------------
(* A client asks for two images that cannot be batched, another one for one    *)
(* image, with a list of prompts, with a single prompt, or of the wrong size.  *)
EXTENDS SdService
Body(prompt, steps, width) ==
    LET Many(v) == [list |-> TRUE, vals |-> v]
    IN  "prompt" :> prompt @@ "neg_prompt" :> Many(<<"blurry">>) @@ "steps" :> Many(steps)
            @@ "height" :> Many(<<1024>>) @@ "width" :> [list |-> FALSE, vals |-> <<width>>]
Cats(n) == [list |-> TRUE, vals |-> [k \in 1 .. n |-> "a cat"]]
MCBodies == "a" :> {Body(Cats(2), <<20, 30>>, 1024)}
         @@ "b" :> {Body(Cats(1), <<20>>, 1024), Body(Cats(1), <<20>>, 512),
                    Body([list |-> FALSE, vals |-> <<"a dog">>], <<20>>, 1024)}
MCTopologies == {[devices |-> 2, fibers |-> 1, workers |-> 1]}
=============================================================================
