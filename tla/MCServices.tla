----------------------------- MODULE MCServices -----------------------------
(* Small instances of EscrowAdmin, Clearance, Company, Sessions, Names and   *)
(* PayClient for TLC.  They share no state: a behaviour is one of the part   *)
(* in focus.                                                                 *)
EXTENDS EscrowAdmin, Clearance, Company, Sessions, Names, PayClient, TLC

CONSTANTS a1, a2, a3, o, x, y, r1, r2

VARIABLE focus

allVars == <<focus, vars, clearanceVars, companyVars, sessionVars, namesVars, payClientVars>>

AllInit ==
  /\ focus \in {"admin", "clearance", "company", "sessions", "names", "page"}
  /\ Init /\ ClearanceInit /\ CompanyInit /\ SessionsInit /\ NamesInit
  /\ PayClientInit
  /\ admin = a1  \* addresses are alike
  /\ focus # "admin" => compliance = a1
  /\ focus # "clearance" => kyc.status = "none"
  /\ focus # "names" => given = <<>> /\ listed = <<>> /\ tolerance = 0
  /\ rate = 1

AllNext ==
  /\ UNCHANGED focus
  /\ \/ /\ focus = "admin" /\ Next
        /\ UNCHANGED <<clearanceVars, companyVars, sessionVars, namesVars, payClientVars>>
     \/ /\ focus = "clearance" /\ ClearanceNext
        /\ UNCHANGED <<vars, companyVars, sessionVars, namesVars, payClientVars>>
     \/ /\ focus = "company" /\ CompanyNext
        /\ UNCHANGED <<vars, clearanceVars, sessionVars, namesVars, payClientVars>>
     \/ /\ focus = "sessions" /\ SessionsNext
        /\ UNCHANGED <<vars, clearanceVars, companyVars, namesVars, payClientVars>>
     \/ /\ focus = "names" /\ NamesNext
        /\ UNCHANGED <<vars, clearanceVars, companyVars, sessionVars, payClientVars>>
     \/ /\ focus = "page" /\ PayClientNext /\ rate' >= rate  \* moves once
        /\ UNCHANGED <<vars, clearanceVars, companyVars, sessionVars, namesVars>>

AllSpec == AllInit /\ [][AllNext]_allVars

\* Every part's state keeps its type.
AllTypeOK ==
  /\ TypeOK /\ ClearanceTypeOK /\ CompanyTypeOK /\ SessionsTypeOK /\ NamesTypeOK
  /\ PayClientTypeOK

\* x and y are users, browsers, letters and forms, r1 and r2 places for requests.
Symmetric == Permutations({x, y}) \cup Permutations({r1, r2})
=============================================================================
