---------------------------- MODULE UncheckedCalls ----------------------------
(* Why value() of an ffi name throws for an f-string alone, though nothing     *)
(* asks whether the name has parsed: FFIDecl has seen a string when it calls,  *)
(* and of what is called then only the elements of an f-string can fail.      *)
EXTENDS OpenBrackets

Strings == {"s", "fs"}

(* A function that takes one token, and has no way to fail but the elements    *)
(* of the f-string it took.                                                   *)
TakesOne(r) ==
  /\ Grammar[r][1].op = "tok"
  /\ \A p \in Places(r) : p > 1 =>
       \/ Grammar[r][p].op = "ret"
       \/ Grammar[r][p].op = "elements" /\ p = 2 /\ Grammar[r][1].on = {"fs"}
\* one that goes on as such a function where a string is at hand
TakesString(r) ==
  LET m == Grammar[r][1] IN
    /\ m.op = "pick" /\ Strings \subseteq Covers(m)
    /\ \A a \in 1..Len(m.alts) :
         /\ TakesOne(m.alts[a].fn) /\ Len(m.alts[a].ahead) >= 1
         /\ m.alts[a].ahead[1] \cap Strings \subseteq Grammar[m.alts[a].fn][1].on

ASSUME FFINamesAreStrings ==
  "FFIDecl" \in Rules =>
    \A p \in Places("FFIDecl") : Grammar["FFIDecl"][p].op = "unchecked" =>
      /\ Before("FFIDecl", p).op = "look" /\ Before("FFIDecl", p).on \subseteq Strings
      /\ TakesString(Grammar["FFIDecl"][p].fn)

(* How far such a call has come; it calls nobody.                             *)
Naming(i) == stack[i].by = "unchecked" /\ stack[i - 1].fn = "FFIDecl"
OnString ==
  IF Top.pc = 1
  THEN Here \in Strings /\ (TakesString(Top.fn) \/ (TakesOne(Top.fn) /\ Here \in Move.on))
  ELSE TakesOne(Top.fn) /\ (Move.op = "elements" => toks[cur - 1] = "fs")
NamesAreStrings ==
  status = "run" =>
    /\ Top.fn = "FFIDecl" /\ Move.op = "unchecked" => Here \in Strings
    /\ \A i \in 2..Len(stack) : Naming(i) => i = Len(stack) /\ OnString
===============================================================================
