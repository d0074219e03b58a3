----------------------------- MODULE MCServing -----------------------------
(* An instance of Serving: a page of a script and a module of two chunks.  *)
EXTENDS Serving, TLC

CONSTANTS html, js, wasm, wasm2, script, style, module, text

File(b, t) == [body |-> b, type |-> t]

AllFiles == {File(html, text), File(js, script), File(js, style),
             File(wasm, module), File(wasm2, module)}

\* The second release replaces the large file.
TwoReleases == <<
    [p \in {"/app.js", "/app.wasm"} |->
        IF p = "/app.js" THEN File(js, script) ELSE File(wasm, module)],
    [p \in {"/app.js", "/app.wasm"} |->
        IF p = "/app.js" THEN File(js, script) ELSE File(wasm2, module)] >>

AllChunks == {html, js, wasm, wasm2} \X {1, 2}
TwoParts == [b \in {html, js, wasm, wasm2} |->
               IF b \in {html, js} THEN << <<b, 1>> >> ELSE << <<b, 1>>, <<b, 2>> >>]

Sorry == File(html, text)

RequestSymmetry == Permutations(Requests)

============================================================================
