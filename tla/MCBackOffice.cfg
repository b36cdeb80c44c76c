\* Two requests at a time, a few in all.
SPECIFICATION Spec
CONSTANTS
    faq1 = faq1
    faq2 = faq2
    sponsor = sponsor
    package1 = package1
    package2 = package2
    ad = ad
    message = message
    shown = shown
    other = other
    site = site
    phone = phone
    wa = wa
    padded = padded
    words = words
    spaces = spaces
    Items = {faq1, faq2, package1, package2, sponsor, ad, message}
    KindOf <- KindPerItem
    Names = {shown, other}
    Reqs = {r1, r2}
    None = None
    Values = {site, padded, phone, wa, words, spaces, Blank}
    Blank = Blank
    Trimmed <- WithoutSpace
    Links = {wa}
    Urls = {site, wa}
    WaMe <- WaMeOfPhone
    SocialType <- EverySocialIsOther
    SeedRows <- TwoSeedRows
    Dtos <- SmallDtos
    MaxRequests = 4
    Workloads <- SmallWorkloads
INVARIANTS TypeOK AuditsFollow CountsExact TargetFollowsValue SeededOnce
PROPERTIES EditsSurvive
SYMMETRY Interchangeable
\* The bound on requests ends every behaviour.
CHECK_DEADLOCK FALSE
