---------------------------- MODULE ProjectNames ----------------------------
(***************************************************************************)
(* How a layout's name becomes the name of a project, its directory and    *)
(* its files (backend/internal/kicad/paths.go, kicad.go).                  *)
(*                                                                         *)
(* A name is a sequence of tokens.  A token is a letter or a word of       *)
(* letters, or stands for a class of characters that are treated alike:    *)
(*   "/"  one of / \ : * ? " < > |, which no file name may contain         *)
(*   " "  white space                                                      *)
(*   "."  the dot                                                          *)
(*   "["  an opening bracket                                               *)
(*   "[v]" a bracketed word                                                *)
(* Letter case is left out: a word stands for its lower case form.         *)
(***************************************************************************)
EXTENDS Naturals, Sequences, FiniteSets, SequencesExt

Special == {"/", " ", ".", "[", "[v]", "-"}

\* The tokens of s at the positions K, in their order.
Kept(s, K) ==
    [i \in 1..Cardinality(K) |-> s[CHOOSE k \in K : Cardinality({j \in K : j <= k}) = i]]

\* s[i] is the last of a run of dots, of which there is an odd number.
EndsOddRun(s, i) ==
    /\ i + 1 \in DOMAIN s => s[i + 1] # "."
    /\ \E j \in 1..i :
        /\ (i - j) % 2 = 0
        /\ \A k \in j..i : s[k] = "."
        /\ j > 1 => s[j - 1] # "."

\* strings.ReplaceAll(s, "..", ""): of a run of dots at most the last is left.
RemoveDotDot(s) == Kept(s, {i \in DOMAIN s : s[i] = "." => EndsOddRun(s, i)})

\* strings.Trim: without the token c at either end.
Trim(s, c) ==
    Kept(s, {i \in DOMAIN s : /\ \E j \in 1..i : s[j] # c
                             /\ \E j \in i..Len(s) : s[j] # c})

RemoveIllegal(s) == Kept(s, {i \in DOMAIN s : s[i] # "/"})

\* Mutant: ".." is removed before the characters that may separate its dots.
SanitizeFilenameDotsFirst(s) == Trim(RemoveIllegal(RemoveDotDot(s)), " ")

SanitizeFilename(s) == Trim(RemoveDotDot(RemoveIllegal(s)), " ")

SanitizeFilepath(s) ==
    LET t == RemoveDotDot(s)
    IN  Trim(IF t # <<>> /\ t[1] = "/" THEN Tail(t) ELSE t, " ")

\* meta.name is optional.
GetProjectName(layoutName) ==
    IF layoutName = <<>> THEN <<"keyboard">> ELSE SanitizeFilename(layoutName)

\* filepath.Join(workDir, project) is workDir itself.
IsWorkDir(project) == project \in {<<>>, <<".">>}

\* The project's directory is part of a glob pattern: a bracket opens a class of
\* characters, and one that is never closed makes the pattern malformed.
HasMeta(project) == \E i \in DOMAIN project : project[i] \in {"[", "[v]"}
BadPattern(project) ==
    \E i \in DOMAIN project :
        project[i] = "[" /\ \A j \in i..Len(project) : project[j] # "[v]"

\* slugifySheet: every run of other characters becomes one hyphen.
SlugifySheet(name) ==
    LET hyphenate(slug, c) ==
            IF c \notin Special THEN Append(slug, c)
            ELSE IF slug # <<>> /\ Last(slug) = "-" THEN slug
            ELSE Append(slug, "-")
    IN  Trim(FoldLeft(hyphenate, <<>>, name), "-")
=============================================================================
