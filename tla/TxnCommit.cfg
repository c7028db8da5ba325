SPECIFICATION FairSpec
CONSTANTS
    qa = qa
    qb = qb
    m1 = m1
    m2 = m2
    t1 = t1
    t2 = t2
    Queue = {qa, qb}
    Txn = {t1, t2}
    Msg = {m1}
    home <- AllOnQa
    max_len = 2
    Mailbox = 1
    MaxPublishes = 2
    Big = {t1}
    Mortal = {qb}
    Failures = {"refused", "unconfirmed"}
INVARIANTS
    SlotsExact
    
    SettledByOutcome

    
