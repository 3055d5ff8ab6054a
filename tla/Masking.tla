------------------------------ MODULE Masking -------------------------------
(***************************************************************************)
(* RuntimeConfig::mask_sensitive_data (src/src/config.rs): one rule per    *)
(* masked parameter, each the pattern param=([^&]+), applied one after     *)
(* another to the whole text.                                              *)
(*                                                                         *)
(* A text is a sequence of tokens.  A parameter's name is a token that     *)
(* stands for the name and the = after it; "x" is any other character; the *)
(* rest are the separator, a byte that is not UTF-8, the character that    *)
(* replaces it and the mask.  Parameter names are taken to be apart (none  *)
(* ends another) and free of $, which the replacement would interpret.     *)
(* What is computed along a text is a recursive function of the position.  *)
(***************************************************************************)
LOCAL INSTANCE Naturals
LOCAL INSTANCE Sequences
LOCAL INSTANCE Sums

CONSTANT Param          \* parameter names a rule may be about

Sep == "&"
Mask == "****"

(* A name's token contains =, which neither of these does.                 *)
ASSUME ParamAssumption == Sep \notin Param /\ Mask \notin Param

Token == Param \cup {Sep, Mask, "x", "bad", "fffd"}

(* Bytes of a token and of a text.  A name is one letter and =.            *)
Width(t) ==
    IF t \in Param THEN 2 ELSE IF t = Mask THEN 4 ELSE IF t = "fffd" THEN 3 ELSE 1

Size(text) == SumTo([i \in DOMAIN text |-> Width(text[i])], Len(text))

(* String::from_utf8_lossy.                                                *)
FromUtf8Lossy(text) == [i \in DOMAIN text |-> IF text[i] = "bad" THEN "fffd" ELSE text[i]]

(* Regex::replace_all with one rule: scanning for the name; at = a match   *)
(* needs one token that is not the separator; the value runs to the next   *)
(* separator.                                                              *)
ScanOnce(p, s, t) ==
    CASE s.at = "scan" -> [out |-> Append(s.out, t), at |-> IF t = p THEN "name" ELSE "scan"]
      [] s.at = "name" /\ t # Sep -> [out |-> Append(s.out, Mask), at |-> "value"]
      [] s.at = "value" /\ t # Sep -> s
      [] s.at = "name" /\ t = Sep -> [out |-> Append(s.out, t), at |-> "scan"]
      [] s.at = "value" /\ t = Sep -> [out |-> Append(s.out, t), at |-> "done"]
      [] s.at = "done" -> [out |-> Append(s.out, t), at |-> "done"]

Scan(p, s, t) ==
    CASE s.at = "scan" -> [out |-> Append(s.out, t), at |-> IF t = p THEN "name" ELSE "scan"]
      [] s.at = "name" /\ t # Sep -> [out |-> Append(s.out, Mask), at |-> "value"]
      [] s.at = "value" /\ t # Sep -> s
      [] s.at # "scan" /\ t = Sep -> [out |-> Append(s.out, t), at |-> "scan"]

Scanned(p, text) ==
    LET s[i \in 0..Len(text)] ==
            IF i = 0 THEN [out |-> <<>>, at |-> "scan"] ELSE Scan(p, s[i - 1], text[i])
    IN  s

ApplyRule(p, text) == Scanned(p, text)[Len(text)].out

(* The rules in turn.                                                      *)
Applied(rules, text) ==
    LET acc[i \in 0..Len(rules)] ==
            IF i = 0 THEN text ELSE ApplyRule(rules[i], acc[i - 1])
    IN  acc

MaskSensitiveData(rules, text) == Applied(rules, text)[Len(rules)]

-----------------------------------------------------------------------------
(* What masking is for, said of the text at once: the part of a field (a   *)
(* stretch between separators) after its first masked name is hidden, and  *)
(* one mask stands for it.                                                 *)
Hidden(params, text, i) ==
    \E j \in 1..(i - 1) : text[j] \in params /\ \A k \in j..i : text[k] # Sep

Shown(params, text) ==
    LET s[i \in 0..Len(text)] ==
            IF i = 0 THEN <<>>
            ELSE IF ~Hidden(params, text, i) THEN Append(s[i - 1], text[i])
            ELSE IF Hidden(params, text, i - 1) THEN s[i - 1]
            ELSE Append(s[i - 1], Mask)
    IN  s

MaskedText(params, text) == Shown(params, text)[Len(text)]

=============================================================================
