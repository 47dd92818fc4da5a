-------------------------------- MODULE Words --------------------------------
(***************************************************************************)
(* The way of a line from its characters to the arguments of its commands: *)
(* it is lexed, aliases and braces are expanded, and when its commands run *)
(* each expands its own words, after the commands before it have changed   *)
(* variables (execute_line in src/src/script_engine.rs, execute_single_    *)
(* command in src/src/executor/command.rs).                                *)
(***************************************************************************)
EXTENDS Lexer, BraceExpansion, WordExpansion

CONSTANT Assignments        \* what an earlier command of the line may assign

VARIABLE ran                \* an earlier command of the line has run

words_vars == <<lexer_vars, ran>>

\* The tokens of a line whose braces cannot be expanded are not parsed.
ExpandBraces ==
    /\ phase = "aliased"
    /\ \E result \in {expand_braces(tokens)} :
          IF result.ok THEN phase' = "running" /\ tokens' = result.value
          ELSE phase' = "error" /\ UNCHANGED tokens
    /\ UNCHANGED <<chars, current, quotes, variables, expanded, after_alias, ran>>

EarlierCommand ==
    /\ phase = "running" /\ ~ran
    /\ \E assignment \in Assignments : variables' = assignment @@ variables
    /\ ran' = TRUE
    /\ UNCHANGED <<chars, current, tokens, quotes, expanded, after_alias, phase>>

\* The crate's glob, of which the model knows "*".
Glob(word) == {f \in ToSet(FileNames) : glob_match(word, f)}

\* The file of a redirection is expanded as a word is, but not to file names.
IsFile(k) == k > 1 /\ tokens[k - 1] \in {<<op>> : op \in {">", ">|", ">>", "<"}}

HasText(token) ==
    token[1] \in {"Word", "<<<"} \/ (token[1] \in {">", ">|", ">>", "<", "<>"} /\ Len(token) = 3)
AsWordTokens(words) == [i \in 1..Len(words) |-> <<"Word", words[i]>>]
WithText(k, text) ==
    IF tokens[k][1] = "Word" /\ ~IsFile(k) THEN AsWordTokens(expand_wildcards(text, Glob))
    ELSE <<[tokens[k] EXCEPT ![Len(tokens[k])] = text]>>
ExpandToken(k) ==
    IF HasText(tokens[k]) THEN WithText(k, expand_variables_in_string(Last(tokens[k]), variables))
    ELSE <<tokens[k]>>

RunCommand ==
    /\ phase = "running"
    /\ phase' = "ran"
    /\ tokens' = FlattenSeq([k \in 1..Len(tokens) |-> ExpandToken(k)])
    /\ UNCHANGED <<chars, current, quotes, variables, expanded, after_alias, ran>>

Start(line) == LexLine(line) /\ ran = FALSE

Next ==
    \/ LexerNext /\ UNCHANGED ran
    \/ ExpandBraces \/ EarlierCommand \/ RunCommand
=============================================================================
