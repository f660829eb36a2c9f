SPECIFICATION FairSpec
CONSTANTS
    video = video
    youtube = youtube
    marketing = marketing
    media = media
    None = None
    Groups = {marketing, media}
    Services = {video}
    Marketing = marketing
    Media = media
    Providers = {youtube}
    CrossDomain = {TRUE}
    MaxVersion = 2
    GroupOf <- MCGroupOf
    ProviderOf <- MCProviderOf
    Resources <- MCResources
INVARIANTS TypeOK  SignalsFollow FullConsentLoads 
PROPERTIES NothingUngranted Asked EventuallyRenewed
