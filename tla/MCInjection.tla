---------------------------- MODULE MCInjection ----------------------------
(***************************************************************************)
(* Injection for TLC: bodies that leave fields out, set them, set them to  *)
(* nothing and get their type wrong, and texts that break a literal.       *)
(***************************************************************************)
EXTENDS Injection, SequencesExt, TLC

MCEscapeQuotes(t) == IF t = "Land/D'Or" THEN "Land/D\\'Or" ELSE t

\* A quote ends a literal unless a backslash is in front of it; a backslash at
\* the end takes the closing quote away.
MCLiteral(t) ==
  CASE t \in {"Plan 9'", "Land/D'Or", "Land\\"} -> NoLiteral
    [] t = "Land/D\\'Or"                       -> "Land/D'Or"
    [] OTHER                                   -> t

MCBodies ==
  {"name" :> "w",
   "name" :> "w" @@ "platform" :> "macos" @@ "hardware_concurrency" :> 12
     @@ "user_agent" :> "UA" @@ "color" :> -16,
   "name" :> "w" @@ "screen_width" :> 0 @@ "platform" :> "" @@ "timezone" :> "Asia/Kolkata",
   "name" :> "w" @@ "screen_width" :> 800 @@ "screen_height" :> 600
     @@ "color_scheme" :> "dark" @@ "gpu_vendor" :> "NVIDIA" @@ "timezone" :> "Land/D'Or",
   "name" :> "w" @@ "hardware_concurrency" :> Bad @@ "color_scheme" :> "no-preference"
     @@ "gpu_renderer" :> "ANGLE" @@ "clipboard_sync" :> FALSE
     @@ "timezone" :> "Europe/London",
   "name" :> "w" @@ "platform" :> "Plan 9'",
   "name" :> "w" @@ "timezone" :> "Land\\"}

\* A script as an interpreter runs it, statement by statement: a final property
\* cannot be defined again, and a failure nobody catches ends the script.
Execute(env, s) ==
  LET final == s.prop \in DOMAIN env.props /\ env.props[s.prop].final
  IN IF env.ended THEN env
     ELSE IF final THEN [env EXCEPT !.ended = ~s.caught]
     ELSE [env EXCEPT !.props =
             [p \in DOMAIN @ \cup {s.prop} |->
                IF p = s.prop THEN [value |-> s.value, final |-> s.final] ELSE @[p]]]

Interpret(script) ==
  LET props == FoldLeft(Execute, [props |-> << >>, ended |-> FALSE], script).props
  IN [p \in DOMAIN props |-> props[p].value]

Statement == [prop : {"p", "q"}, value : {0, 1}, final : BOOLEAN, caught : BOOLEAN]

\* Evaluate says what the interpreter does, on every script of up to three
\* statements.
ASSUME EvaluateInterprets ==
  \A n \in 0 .. 3 : \A script \in [1 .. n -> Statement] :
    Evaluate(script) = Interpret(script)
=============================================================================
