----------------------------- MODULE Clipboard -----------------------------
(***************************************************************************)
(* The guest script that stands for pbcopy, xclip, xsel and wl-copy        *)
(* (image/compostbin-clipboard): what each makes of its arguments.  Copies *)
(* go to the host by `compostbin-host clipboard'; pasting is refused.      *)
(*                                                                         *)
(* A state is the positional parameters, those of them still to be looked  *)
(* at (count), what was asked for, and how the script ended, if it did.    *)
(***************************************************************************)
EXTENDS Integers, Sequences, SequencesExt

CONSTANT Dashed  \* the arguments that start with a dash

Pastes == {<<"xclip", "-o">>, <<"xclip", "-out">>, <<"xsel", "-o">>, <<"xsel", "--output">>}
Inputs == {<<"xsel", "-i">>, <<"xsel", "--input">>}
Primaries == {"xsel", "wl-copy"} \X {"-p", "--primary"} \union {"xsel"} \X {"-s", "--secondary"}
Clears == {"xsel", "wl-copy"} \X {"-c", "--clear"} \union {"xsel"} \X {"-d", "--delete"}
Selections == {"xclip"} \X {"-selection", "-sel", "-se", "-s"}
WithValue == {"xclip"} \X {"-display", "-d", "-loops", "-l", "-target", "-t"}
               \union {"wl-copy"} \X {"-t", "--type"}

Start(arguments) == [params |-> arguments, count |-> Len(arguments), primary |-> FALSE,
                     text |-> FALSE, input |-> FALSE, end |-> "none"]

\* `shift' with no parameter left ends the script (set -e).
Shift(s) == IF s.params = <<>> THEN [s EXCEPT !.end = "error"]
            ELSE [s EXCEPT !.params = Tail(@), !.count = @ - 1]

\* A selection of another name than p* or s* is the clipboard's.
NamesPrimary(params) == params # <<>> /\ Head(params) \in {"primary", "secondary"}

\* One round of the loop; what is kept goes behind what is still to come.
Round(name, s) ==
  LET use == <<name, Head(s.params)>>
      next == Shift(s)
  IN CASE use \in Pastes     -> [next EXCEPT !.end = "refused"]
       [] use \in Inputs     -> [next EXCEPT !.input = TRUE]
       [] use \in Primaries  -> [next EXCEPT !.primary = TRUE]
       [] use \in Clears     -> [next EXCEPT !.end = "cleared"]
       [] use \in Selections -> Shift([next EXCEPT !.primary = @ \/ NamesPrimary(next.params)])
       [] use \in WithValue  -> Shift(next)
       [] use[2] \notin Dashed /\ name \in {"xclip", "wl-copy"}
            -> [next EXCEPT !.text = name = "wl-copy", !.params = Append(@, use[2])]
       [] OTHER -> next

\* What is copied to the host: of the arguments, of files, or of the input.
Ended(how, what) == [end |-> how, of |-> what]
Run(name, arguments, onTerminal) ==
  LET round(s, i) == IF s.end = "none" /\ s.count > 0 THEN Round(name, s) ELSE s
      s == FoldLeft(round, Start(arguments), arguments)
  IN IF s.end # "none" THEN Ended(s.end, <<>>)
     ELSE IF name = "xsel" /\ ~s.input /\ onTerminal THEN Ended("refused", <<>>)
     ELSE IF s.primary THEN Ended("discarded", <<>>)
     ELSE IF s.text THEN Ended("text", s.params)
     ELSE IF s.params # <<>> THEN Ended("files", s.params)
     ELSE Ended("input", <<>>)
=============================================================================
