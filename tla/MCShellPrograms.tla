---------------------------- MODULE MCShellPrograms ----------------------------
(***************************************************************************)
(* An instance of ShellPrograms for TLC: lines of up to four characters on *)
(* a screen of two columns, three terminals, texts of two columns.         *)
(***************************************************************************)
EXTENDS ShellPrograms

CmdNames  == <<<<"a">>, <<"a", "a">>, <<"a", "a">>>>
FileNames == {<<"a", "a", "a">>}
PromptIs  == <<">">>
RefusalIs == <<"!">>
EdTexts   == {<<>>, <<"a", "n", "b", "n">>, <<"a", "b", "a", "n", "b">>}
===============================================================================
