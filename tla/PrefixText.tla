----------------------------- MODULE PrefixText -----------------------------
(***************************************************************************)
(* prefixset: a set of prefixes from text, a prefix a line, and back.  The *)
(* three parsers, bartInsertFromText, IPSetFromText and PrefixSetFromText, *)
(* treat a line in the same way, and each hands the prefixes to a library, *)
(* which is not part of the repository: what its set holds is the          *)
(* addresses of the prefixes.                                              *)
(*                                                                         *)
(* A line is a sequence of characters with its ending, if it has one, as   *)
(* strings.Lines yields it.                                                *)
(***************************************************************************)
EXTENDS Integers, SequencesExt

CONSTANTS
    Char,
    Prefix,
    ParsePrefix(_),     \* netip.ParsePrefix: a prefix, or error
    String(_),          \* Prefix.AppendTo
    Addresses(_),       \* the addresses that a prefix stands for
    error

LF == "LF"
CR == "CR"
Hash == "#"

\* What is left of a line for netip.ParsePrefix.  Nothing is left of the lines
\* that are passed over.
Content(line) ==
    IF line = <<>> \/ line[1] = Hash THEN <<>>
    ELSE IF Last(line) # LF THEN line
    ELSE IF Front(line) # <<>> /\ Last(Front(line)) = CR THEN Front(Front(line))
    ELSE Front(line)

Parsed(lines) ==
    {ParsePrefix(Content(lines[i])) : i \in {j \in DOMAIN lines : Content(lines[j]) # <<>>}}

\* The first error ends the parser, and no set is returned.
FromText(lines) ==
    IF error \in Parsed(lines) THEN error
                               ELSE UNION {Addresses(p) : p \in Parsed(lines)}

\* IPSetToText, PrefixSetToText: prefixes is what the set is compacted to.
ToText(prefixes) == [i \in DOMAIN prefixes |-> Append(String(prefixes[i]), LF)]
=============================================================================
