SPECIFICATION Spec
CONSTANTS
    reg1 = reg1  reg2 = reg2  in1 = in1
    ref1 = ref1  ref2 = ref2  out1 = out1
    off1 = off1  pwd1 = pwd1  mail1 = mail1
    ann = ann  bob = bob
    pw1 = pw1  pw2 = pw2
    None = None
    Emails = {ann, bob}
    Passwords = {pw1, pw2}
    Requests = {reg1, reg2, in1, ref1, ref2, out1, off1, pwd1, mail1}
    Ask <- MCAsk
    Parallel = 3
    Made = 4
SYMMETRY MCSymmetry
CHECK_DEADLOCK FALSE
INVARIANTS
    TypeOK
    TokensEndForGood
    UpdatesStick
