--------------------------- MODULE CaptchaReading ---------------------------
(***************************************************************************)
(* The text of a captcha from the output of the model:  api/captcha.rs     *)
(*                                                                         *)
(* The model, which is external, gives for each step of the image the      *)
(* classes by score, the best first.  Class 0 is the blank; a class beyond *)
(* the charset has no character.                                           *)
(***************************************************************************)
EXTENDS Lists, SequencesExt

CONSTANTS Charset,   \* the character of each class from 1 on
          Alike,     \* the lookalike map: a function on some characters
          Image,     \* sequences of rankings of the classes
          Limits     \* what a source asks for

(* Every ranking has the blank.                                            *)
ASSUME CaptchaAssumption ==
  /\ Charset \in Seq(STRING) /\ Image \subseteq Seq(Seq(Nat))
  /\ \A image \in Image : \A i \in DOMAIN image : 0 \in ToSet(image[i])
  /\ \A limits \in Limits : limits.length \in Nat

VARIABLE ocr  \* CAPTCHA_ENGINE and the last recognition

ocrVars == <<ocr>>

Unlimited == [chars |-> {"any"}, length |-> 0, map |-> FALSE]
CaptchaInit == ocr = [loaded |-> FALSE, read |-> FALSE, image |-> <<>>,
                      limits |-> Unlimited, text |-> <<>>]

-----------------------------------------------------------------------------
(* Limits without characters leave the blank; no limits leave every class. *)
AllowedClasses(limits) ==
  {0} \cup {i \in DOMAIN Charset : Charset[i] \in limits.chars}

ArgMax(ranking, limits) ==
  IF limits = Unlimited THEN Head(ranking)
  ELSE ranking[CHOOSE i \in DOMAIN ranking :
         /\ ranking[i] \in AllowedClasses(limits)
         /\ \A j \in 1..(i - 1) : ranking[j] \notin AllowedClasses(limits)]

\* Mutant: a blank does not end the character before it.
CtcDecodeMerging(classes) ==
  FoldLeft(LAMBDA acc, c :
    IF c = acc.previous \/ c = 0 THEN acc
    ELSE [previous |-> c, text |-> IF c \in DOMAIN Charset
                                     THEN Append(acc.text, Charset[c])
                                     ELSE acc.text],
    [previous |-> -1, text |-> <<>>], classes).text

CtcDecode(classes) ==
  FoldLeft(LAMBDA acc, c :
    IF c = acc.previous THEN acc
    ELSE [previous |-> c, text |-> IF c \in DOMAIN Charset
                                     THEN Append(acc.text, Charset[c])
                                     ELSE acc.text],
    [previous |-> -1, text |-> <<>>], classes).text

(* decode_output: the best class of each step, then the characters.        *)
Classes(image, limits) == [i \in DOMAIN image |-> ArgMax(image[i], limits)]

(* Other characters are replaced by what they look like, or left out.      *)
Constrained(text, limits) ==
  LET mapped(c) == IF c \in limits.chars \/ ~limits.map
                        \/ c \notin DOMAIN Alike THEN c ELSE Alike[c]
      fit == Filtered([i \in DOMAIN text |-> mapped(text[i])],
                       LAMBDA c : c \in limits.chars)
  IN IF limits = Unlimited \/ limits.chars = {} THEN text ELSE fit

Cut(text, limits) ==
  IF limits = Unlimited \/ Len(text) <= limits.length THEN text
  ELSE SubSeq(text, 1, limits.length)

-----------------------------------------------------------------------------
(* A model that does not load leaves the one there was.                    *)
InitializeOcr == ~ocr.loaded /\ ocr' = [ocr EXCEPT !.loaded = TRUE]

Recognize(image, limits) ==
  /\ ocr.loaded
  /\ LET classes == Classes(image, limits)
     IN ocr' = [loaded |-> TRUE, read |-> TRUE, image |-> image,
                limits |-> limits,
                text |-> Cut(Constrained(CtcDecode(classes), limits), limits)]

CaptchaCalls ==
  InitializeOcr \/ \E i \in Image, l \in Limits \cup {Unlimited} :
                     ~ocr.read /\ Recognize(i, l)

-----------------------------------------------------------------------------
(* The text has a character for every run of steps that agree on it, in    *)
(* order, twice where a blank is between two runs of one, none that the    *)
(* source does not know, and no more than it asks for.  (The map of        *)
(* lookalikes never comes into it: the classes are limited before.)        *)
Runs(class) == {i \in DOMAIN class :
                  /\ class[i] \in DOMAIN Charset
                  /\ i > 1 => class[i - 1] # class[i]}
CaptchaAsDrawn ==
  LET class == Classes(ocr.image, ocr.limits)
      runs == Runs(class)
      nth == Upwards(runs)
  IN ocr.read =>
       /\ ocr.limits # Unlimited =>
            /\ Len(ocr.text) <= ocr.limits.length
            /\ ToSet(ocr.text) \subseteq ocr.limits.chars
       /\ \A n \in DOMAIN nth :
            ocr.limits = Unlimited \/ n <= ocr.limits.length
              => /\ n \in DOMAIN ocr.text
                 /\ ocr.text[n] = Charset[class[nth[n]]]
       /\ Len(ocr.text) <= Cardinality(runs)
=============================================================================
